---------------------------- MODULE UserAccounts ----------------------------
(***************************************************************************)
(* The user aggregate, its rows in PostgreSQL, and the HTTP requests that  *)
(* read it, change it and save it.                                         *)
(*                                                                         *)
(* Every command handler has the same shape: it loads a whole User         *)
(* aggregate, awaits other services, changes its private copy, and calls   *)
(* userRepository.save with the whole copy.  Node runs one handler at a    *)
(* time but switches at every await, so a second request may read or save  *)
(* the same user between the read and the save of the first.  A request in *)
(* flight is therefore a slot of `reqs` that holds the copy it read.       *)
(*                                                                         *)
(* TypeORM's save is not one step either: it loads the rows as they are    *)
(* now, computes the difference with the aggregate, and writes only that   *)
(* difference in a transaction.  AtomicSave = FALSE keeps the two steps    *)
(* apart, as TypeORM does; AtomicSave = TRUE makes them one, as they would *)
(* be under a serializable transaction.                                    *)
(*                                                                         *)
(* Left out: names, avatars, password hashes, time stamps, tokens.         *)
(***************************************************************************)
EXTENDS FiniteSets

CONSTANTS
    Users,            \* user ids a run may create (uuids)
    Emails,           \* normalised e-mail addresses
    Providers,        \* OAuth providers
    ProviderIds,      \* ids the providers give to people
    VerificationIds,  \* uuids of verifications
    Secrets,          \* TOTP shared secrets
    Channels,         \* OTP channels that can be confirmed
    Authenticator,    \* the TOTP channel
    Requests,         \* slots for requests in flight
    AtomicSave,       \* is repository.save one step?
    None              \* undefined, or an SQL NULL

ASSUME NoneAssumption ==
    /\ None \notin Emails \cup ProviderIds \cup VerificationIds \cup Secrets
    /\ None \notin Providers
ASSUME AtomicAssumption == AtomicSave \in BOOLEAN

VARIABLES
    db,        \* the rows of each user, eagerly joined
    reqs,      \* what each request in flight holds
    signedIn   \* users some client holds tokens of

vars == <<db, reqs, signedIn>>

-----------------------------------------------------------------------------
(* Rows and aggregates.  `key` is the shared secret a TOTP verification was *)
(* confirmed with, that is, the one the owner's app computes codes from: it *)
(* is no column, and no action reads it.                                    *)

Verification ==
    [id : VerificationIds, channel : Channels, key : Secrets \cup {None}]

Row ==
    [created : BOOLEAN,
     email   : Emails \cup {None},
     logins  : [Providers -> ProviderIds \cup {None}],
     verifs  : SUBSET Verification,
     secret  : Secrets \cup {None},
     tfa     : VerificationIds \cup {None}]

NoRow ==
    [created |-> FALSE, email |-> None, logins |-> [p \in Providers |-> None],
     verifs |-> {}, secret |-> None, tfa |-> None]

Ids(verifs) == {v.id : v \in verifs}

(* What a handler does once its save has been written.  A user created by   *)
(* an OAuth login is saved twice: by the factory and by the handler.        *)
Kinds == {"register", "createOAuth", "loginOAuth", "login", "confirm2FA",
          "refresh", "link", "unlink", "setup", "confirm", "enable",
          "disable", "remove"}

Request ==
    [kind     : Kinds,
     phase    : {"check", "save", "write", "delete"},
     user     : Users,
     provider : Providers \cup {None},
     agg      : Row,
     loaded   : Row]

Idle == [kind |-> "idle"]
Busy(r) == reqs[r] # Idle

-----------------------------------------------------------------------------
Init ==
    /\ db = [u \in Users |-> NoRow]
    /\ reqs = [r \in Requests |-> Idle]
    /\ signedIn = {}

(* A handler has read its user, changed its copy to agg, and goes on.       *)
Begin(r, kind, phase, u, p, agg) ==
    /\ ~Busy(r)
    /\ reqs' = [reqs EXCEPT ![r] =
          [kind |-> kind, phase |-> phase, user |-> u, provider |-> p,
           agg |-> agg, loaded |-> NoRow]]
    /\ UNCHANGED <<db, signedIn>>

(* getUserByOAuthId *)
OwnersOf(p, pid) == {u \in Users : db[u].logins[p] = pid}

(* getUserByEmail *)
OwnersOfEmail(e) == {u \in Users : db[u].email = e}

(* Uuids and secrets are random: a new one is none of those still stored or *)
(* held by a request.                                                       *)
HeldRows ==
    {db[u] : u \in Users}
      \cup {reqs[r].agg : r \in {x \in Requests : Busy(x)}}
      \cup {reqs[r].loaded : r \in {x \in Requests : Busy(x)}}
Unserved(u) == \A r \in Requests : Busy(r) => reqs[r].user # u
FreshUser(u) == ~db[u].created /\ Unserved(u)
FreshId(id) == \A row \in HeldRows : id \notin Ids(row.verifs)
FreshSecret(s) ==
    \A row \in HeldRows :
        /\ row.secret # s
        /\ \A v \in row.verifs : v.key # s

-----------------------------------------------------------------------------
(* The handlers up to their call of save.  Those of the signed-in user take *)
(* the user id from the access or refresh token.                            *)

(* RegisterCommandHandler, UserFactory.createUser *)
Register(r, u, e) ==
    /\ FreshUser(u)
    /\ OwnersOfEmail(e) = {}
    /\ Begin(r, "register", "save", u, None,
             [NoRow EXCEPT !.created = TRUE, !.email = e])

(* LoginCommandHandler.completeLogin: without 2FA the password suffices.    *)
CompleteLogin(r, u) ==
    /\ db[u].email # None
    /\ db[u].tfa = None
    /\ Begin(r, "login", "save", u, None, db[u])

(* ConfirmTwoFactorAuthenticationCommandHandler, with the right code.       *)
Confirm2FA(r, u) ==
    /\ db[u].email # None
    /\ db[u].tfa # None
    /\ Begin(r, "confirm2FA", "save", u, None, db[u])

(* RefreshAccessTokenCommandHandler *)
RefreshAccessToken(r, u) ==
    /\ u \in signedIn
    /\ Begin(r, "refresh", "save", u, None, db[u])

(* Fault: the query that finds the user by a login loads only that login. *)
LoginOAuthPartialLoad(r, u, p, pid) ==
    /\ u \in OwnersOf(p, pid)
    /\ Begin(r, "loginOAuth", "save", u, None,
             [db[u] EXCEPT !.logins = [NoRow.logins EXCEPT ![p] = pid]])

(* ConnectWithOAuthCommandHandler.loginOAuth: an account that is known...   *)
LoginOAuth(r, u, p, pid) ==
    /\ u \in OwnersOf(p, pid)
    /\ Begin(r, "loginOAuth", "save", u, None, db[u])

(* ... and one that is not, for which UserFactory creates the user.         *)
CreateOAuthUser(r, u, p, pid) ==
    /\ FreshUser(u)
    /\ OwnersOf(p, pid) = {}
    /\ Begin(r, "createOAuth", "save", u, None,
             [NoRow EXCEPT !.created = TRUE, !.logins[p] = pid])

(* ConnectWithOAuthCommandHandler.linkOAuth reads the user first and looks  *)
(* for another owner of the provider's account after that.                  *)
LinkOAuth(r, u, p, pid) ==
    /\ u \in signedIn
    /\ db[u].logins[p] = None
    /\ Begin(r, "link", "check", u, p, [db[u] EXCEPT !.logins[p] = pid])

CheckLink(r) ==
    LET q == reqs[r]
        free == OwnersOf(q.provider, q.agg.logins[q.provider]) = {}
    IN  /\ Busy(r)
        /\ q.phase = "check"
        /\ reqs' = [reqs EXCEPT ![r] =
                      IF free THEN [q EXCEPT !.phase = "save"] ELSE Idle]
        /\ UNCHANGED <<db, signedIn>>

(* Fault: the check comes before the deletion. *)
MayUnlinkBeforeDelete(agg, p) ==
    agg.email # None \/ \E x \in Providers : agg.logins[x] # None

(* UnlinkOAuthCommandHandler *)
MayUnlink(agg, p) ==
    \/ agg.email # None
    \/ \E other \in Providers \ {p} : agg.logins[other] # None

(* Fault: the login is deleted as a hole in the collection. *)
UnlinkLeavesHole(r, u, p) ==
    /\ u \in signedIn
    /\ db[u].logins[p] # None
    /\ MayUnlink(db[u], p)
    /\ Begin(r, "unlink", "save", u, p,
             [db[u] EXCEPT !.logins = [x \in Providers \ {p} |-> @[x]]])

UnlinkOAuth(r, u, p) ==
    /\ u \in signedIn
    /\ db[u].logins[p] # None
    /\ MayUnlink(db[u], p)
    /\ Begin(r, "unlink", "save", u, p, [db[u] EXCEPT !.logins[p] = None])

(* Fault: nobody asks whether TOTP is verified already. *)
SetupTotpAgain(r, u, s) ==
    /\ u \in signedIn
    /\ db[u].email # None
    /\ FreshSecret(s)
    /\ Begin(r, "setup", "save", u, None, [db[u] EXCEPT !.secret = s])

(* SetupVerificationCommandHandler for TOTP; for the other channels it      *)
(* leaves the aggregate alone.                                              *)
SetupTotp(r, u, s) ==
    /\ u \in signedIn
    /\ db[u].email # None
    /\ \A v \in db[u].verifs : v.channel # Authenticator
    /\ FreshSecret(s)
    /\ Begin(r, "setup", "save", u, None, [db[u] EXCEPT !.secret = s])

(* Fault: the new verification replaces the collection. *)
ConfirmReplaces(r, u, id, c, setAsDefault2fa) ==
    LET key == IF c = Authenticator THEN db[u].secret ELSE None
        v == [id |-> id, channel |-> c, key |-> key]
    IN  /\ u \in signedIn
        /\ db[u].email # None
        /\ c = Authenticator => db[u].secret # None
        /\ FreshId(id)
        /\ Begin(r, "confirm", "save", u, None,
                 [db[u] EXCEPT !.verifs = {v},
                               !.tfa = IF setAsDefault2fa THEN id ELSE @])

(* ConfirmVerificationRegisterationCommandHandler, with the right code.  It *)
(* does not ask again whether the channel is verified already.              *)
ConfirmRegistration(r, u, id, c, setAsDefault2fa) ==
    LET key == IF c = Authenticator THEN db[u].secret ELSE None
        v == [id |-> id, channel |-> c, key |-> key]
    IN  /\ u \in signedIn
        /\ db[u].email # None
        /\ c = Authenticator => db[u].secret # None
        /\ FreshId(id)
        /\ Begin(r, "confirm", "save", u, None,
                 [db[u] EXCEPT !.verifs = @ \cup {v},
                               !.tfa = IF setAsDefault2fa THEN id ELSE @])

(* Set2FACommandHandler.enable2fa *)
Enable2FA(r, u, id) ==
    /\ u \in signedIn
    /\ db[u].email # None
    /\ db[u].tfa # id
    /\ id \in Ids(db[u].verifs)
    /\ Begin(r, "enable", "save", u, None, [db[u] EXCEPT !.tfa = id])

(* Set2FACommandHandler.disable2fa deletes the row, not the aggregate's     *)
(* field: the aggregate is not saved.                                       *)
Disable2FA(r, u) ==
    /\ u \in signedIn
    /\ db[u].email # None
    /\ db[u].tfa # None
    /\ Begin(r, "disable", "delete", u, None, db[u])

(* Fault: the DELETE has no WHERE. *)
DeleteAllTfaRows(r) ==
    /\ Busy(r)
    /\ reqs[r].phase = "delete"
    /\ db' = [u \in Users |-> [db[u] EXCEPT !.tfa = None]]
    /\ reqs' = [reqs EXCEPT ![r] = Idle]
    /\ UNCHANGED signedIn

DeleteTfaRow(r) ==
    /\ Busy(r)
    /\ reqs[r].phase = "delete"
    /\ db' = [db EXCEPT ![reqs[r].user].tfa = None]
    /\ reqs' = [reqs EXCEPT ![r] = Idle]
    /\ UNCHANGED signedIn

(* RemoveVerificationCommandHandler leaves twoFactorAuthentication in its   *)
(* copy even when it refers to the verification removed.                    *)
RemoveVerification(r, u, v) ==
    /\ u \in signedIn
    /\ db[u].email # None
    /\ v \in db[u].verifs
    /\ Begin(r, "remove", "save", u, None,
             [db[u] EXCEPT !.verifs = @ \ {v},
                           !.secret = IF v.channel = Authenticator
                                      THEN None ELSE @])

-----------------------------------------------------------------------------
(* UserRepository.save.  `old` is what TypeORM loaded to compute the        *)
(* difference, `new` the aggregate, `cur` the rows when the transaction     *)
(* runs.  Inserts and updates come before the deletion of orphans.          *)

NewVerifs(old, new) == new.verifs \ old.verifs
LostVerifs(old, new) == old.verifs \ new.verifs

(* Is a login inserted, or updated where its row is still there?  An UPDATE *)
(* or a DELETE of a row that is gone does nothing.                          *)
PutsLogin(old, new, cur, p) ==
    /\ new.logins[p] \notin {None, old.logins[p]}
    /\ old.logins[p] = None \/ cur.logins[p] # None

WrittenLogin(old, new, cur, p) ==
    IF PutsLogin(old, new, cur, p) THEN new.logins[p]
    ELSE IF old.logins[p] # None /\ new.logins[p] = None THEN None
    ELSE cur.logins[p]

WrittenVerifs(old, new, cur) ==
    (cur.verifs \cup NewVerifs(old, new)) \ LostVerifs(old, new)

(* Fault: no ON DELETE CASCADE and no foreign key. *)
WrittenTfaDangling(old, new, cur) ==
    IF new.tfa = old.tfa THEN cur.tfa ELSE new.tfa

(* The foreign key of the 2FA row cascades: it goes with its verification.  *)
WrittenTfa(old, new, cur) ==
    LET tfa == IF new.tfa = old.tfa \/ (old.tfa # None /\ cur.tfa = None)
               THEN cur.tfa ELSE new.tfa
    IN  IF tfa \in Ids(WrittenVerifs(old, new, cur)) THEN tfa ELSE None

Written(old, new, cur) ==
    [created |-> TRUE,
     email   |-> IF new.email = old.email THEN cur.email ELSE new.email,
     logins  |-> [p \in Providers |-> WrittenLogin(old, new, cur, p)],
     verifs  |-> WrittenVerifs(old, new, cur),
     secret  |-> IF new.secret = old.secret THEN cur.secret ELSE new.secret,
     tfa     |-> WrittenTfa(old, new, cur)]

(* user_login.email is unique *)
EmailConflict(old, new) ==
    new.email # old.email /\ OwnersOfEmail(new.email) # {}

(* Fault: provider_id is not unique. *)
LoginConflictPerUser(u, old, new) ==
    \E p \in Providers :
        /\ PutsLogin(old, new, db[u], p)
        /\ old.logins[p] = None /\ db[u].logins[p] # None

(* (user_id, provider_name) is the primary key, provider_id is unique       *)
LoginConflict(u, old, new) ==
    \E p \in {x \in Providers : PutsLogin(old, new, db[u], x)} :
        \/ old.logins[p] = None /\ db[u].logins[p] # None
        \/ \E w \in Users, x \in Providers :
              /\ <<w, x>> # <<u, p>>
              /\ db[w].logins[x] = new.logins[p]
        \/ \E x \in Providers \ {p} :
              /\ PutsLogin(old, new, db[u], x)
              /\ new.logins[x] = new.logins[p]

(* Fault: no Unique(userId, channelId). *)
VerifConflictById(old, new, cur) ==
    \E v \in NewVerifs(old, new) : v.id \in Ids(cur.verifs)

(* verification_id is the primary key, (user_id, channel_id) is unique      *)
VerifConflict(old, new, cur) ==
    \E v \in NewVerifs(old, new) :
        \/ v.id \in Ids(cur.verifs)
        \/ \E w \in cur.verifs \cup NewVerifs(old, new) :
              w # v /\ w.channel = v.channel

(* user_id is the primary key of the 2FA row and verification_id a foreign  *)
(* key.  A copy without 2FA does not delete the row: TypeORM sets its       *)
(* user_id to NULL, which the primary key refuses.                          *)
TfaConflict(old, new, cur) ==
    /\ new.tfa # old.tfa
    /\ \/ old.tfa = None /\ cur.tfa # None
       \/ new.tfa = None /\ cur.tfa # None
       \/ /\ new.tfa # None
          /\ old.tfa = None \/ cur.tfa # None
          /\ new.tfa \notin Ids(cur.verifs \cup NewVerifs(old, new))

Conflict(u, old, new) ==
    \/ EmailConflict(old, new)
    \/ LoginConflict(u, old, new)
    \/ VerifConflict(old, new, db[u])
    \/ TfaConflict(old, new, db[u])

(* createUser has saved: the handler goes on and saves the same copy again. *)
AfterSave(q) ==
    IF q.kind = "createOAuth"
    THEN [q EXCEPT !.kind = "loginOAuth", !.phase = "save", !.loaded = NoRow]
    ELSE Idle

(* The handlers that hand out tokens, which they do after their last save.  *)
TokenKinds == {"register", "login", "confirm2FA", "refresh", "loginOAuth", "link"}

Write(r, old) ==
    LET q == reqs[r]
        u == q.user
    IN  IF Conflict(u, old, q.agg)
        THEN /\ reqs' = [reqs EXCEPT ![r] = Idle]    \* the promise rejects
             /\ UNCHANGED <<db, signedIn>>
        ELSE /\ db' = [db EXCEPT ![u] = Written(old, q.agg, db[u])]
             /\ reqs' = [reqs EXCEPT ![r] = AfterSave(q)]
             /\ signedIn' = IF q.kind \in TokenKinds
                            THEN signedIn \cup {u} ELSE signedIn

Save(r) ==
    /\ AtomicSave
    /\ Busy(r)
    /\ reqs[r].phase = "save"
    /\ Write(r, db[reqs[r].user])

LoadForSave(r) ==
    /\ ~AtomicSave
    /\ Busy(r)
    /\ reqs[r].phase = "save"
    /\ reqs' = [reqs EXCEPT ![r].phase = "write", ![r].loaded = db[reqs[r].user]]
    /\ UNCHANGED <<db, signedIn>>

WriteDifference(r) ==
    /\ Busy(r)
    /\ reqs[r].phase = "write"
    /\ Write(r, reqs[r].loaded)

(* An exception, a lost connection or a crash of the server ends a handler  *)
(* anywhere; what it has not written is gone.                               *)
Abort(r) ==
    /\ Busy(r)
    /\ reqs' = [reqs EXCEPT ![r] = Idle]
    /\ UNCHANGED <<db, signedIn>>

-----------------------------------------------------------------------------
(* A request of user u comes in. *)
Arrive(r, u) ==
    \/ \E e \in Emails : Register(r, u, e)
    \/ CompleteLogin(r, u)
    \/ Confirm2FA(r, u)
    \/ RefreshAccessToken(r, u)
    \/ \E p \in Providers, pid \in ProviderIds :
        \/ LoginOAuth(r, u, p, pid)
        \/ CreateOAuthUser(r, u, p, pid)
        \/ LinkOAuth(r, u, p, pid)
    \/ \E p \in Providers : UnlinkOAuth(r, u, p)
    \/ \E s \in Secrets : SetupTotp(r, u, s)
    \/ \E id \in VerificationIds, c \in Channels, d \in BOOLEAN :
        ConfirmRegistration(r, u, id, c, d)
    \/ \E id \in VerificationIds : Enable2FA(r, u, id)
    \/ Disable2FA(r, u)
    \/ \E v \in db[u].verifs : RemoveVerification(r, u, v)

(* A request goes on. *)
Proceed(r) ==
    \/ Abort(r)
    \/ CheckLink(r)
    \/ DeleteTfaRow(r)
    \/ Save(r)
    \/ LoadForSave(r)
    \/ WriteDifference(r)

Next ==
    \E r \in Requests :
        \/ Proceed(r)
        \/ \E u \in Users : Arrive(r, u)

Spec == Init /\ [][Next]_vars

(* One request at a time for each user: what a lock on the user, or a client*)
(* that waits for each answer, would add.  The users' requests interleave.  *)
NextInTurns ==
    \E r \in Requests :
        \/ Proceed(r)
        \/ \E u \in Users : Unserved(u) /\ Arrive(r, u)

TurnsSpec == Init /\ [][NextInTurns]_vars

-----------------------------------------------------------------------------
(* Properties                                                               *)

(* Every row has its type, and so has what the requests hold.               *)
TypeOK ==
    /\ db \in [Users -> Row]
    /\ reqs \in [Requests -> Request \cup {Idle}]
    /\ signedIn \subseteq Users

(* No e-mail address and no provider's account belongs to two users,        *)
(* however registrations, OAuth logins and links race: the lookup of a      *)
(* handler is stale when it saves, and the unique columns are what holds.   *)
AccountsDistinct ==
    \A u, w \in Users :
        /\ u # w /\ db[u].email # None => db[u].email # db[w].email
        /\ \A p, x \in Providers :
            <<u, p>> # <<w, x>> /\ db[u].logins[p] # None
              => db[u].logins[p] # db[w].logins[x]

(* "User must have at least one login method": no unlinking, alone or in a  *)
(* race, leaves an account nobody can log in to.                            *)
CanLogIn(row) ==
    row.email # None \/ \E p \in Providers : row.logins[p] # None
HasLoginMethod == \A u \in Users : db[u].created => CanLogIn(db[u])

(* Two-factor authentication always names a verification its user still     *)
(* has; otherwise every later login ends in VerificationNotFound.           *)
TfaHasVerification ==
    \A u \in Users : db[u].tfa # None => db[u].tfa \in Ids(db[u].verifs)

(* A user verifies a channel once, although the handler that adds a         *)
(* verification does not ask whether the channel has one.                   *)
OneVerificationPerChannel ==
    \A u \in Users : \A v, w \in db[u].verifs :
        v.channel = w.channel => v = w

(* The secret codes are checked with is the one the user's authenticator    *)
(* app was confirmed with: setting TOTP up again, removing it and stale     *)
(* saves never leave a TOTP verification whose codes are all refused.       *)
KeyStored(row) ==
    \A v \in row.verifs :
        v.channel = Authenticator => v.key # None /\ row.secret = v.key
TotpKeyStored == \A u \in Users : KeyStored(db[u])

(* The kinds of the requests of user u that a step completes or advances.   *)
KindsOfStep(u) ==
    {reqs[r].kind : r \in {x \in Requests :
        Busy(x) /\ reqs[x].user = u /\ reqs'[x] # reqs[x]}}

(* A verification appears only by the request that confirms it and goes     *)
(* only by the one that removes it: no login, refresh or link brings back   *)
(* what its user removed or drops what its user added.                      *)
VerificationsChangeByOwner ==
    [][\A u \in Users :
        /\ ~(db'[u].verifs \subseteq db[u].verifs)
              => KindsOfStep(u) = {"confirm"}
        /\ ~(db[u].verifs \subseteq db'[u].verifs)
              => KindsOfStep(u) = {"remove"}]_vars

(* 2FA goes on, or to another verification, only by the requests that       *)
(* enable it, and off only by those that disable it or remove what it uses. *)
TfaChangesByOwner ==
    [][\A u \in Users : db'[u].tfa # db[u].tfa =>
          KindsOfStep(u) \in IF db'[u].tfa = None
                             THEN {{"disable"}, {"remove"}}
                             ELSE {{"confirm"}, {"enable"}}]_vars

(* A provider's account is attached to a user only by a link or when the    *)
(* user is created, and detached only by an unlink.                         *)
LinksChangeByOwner ==
    [][\A u \in Users, p \in Providers :
        /\ db[u].logins[p] # db'[u].logins[p] /\ db'[u].logins[p] # None
              => KindsOfStep(u) \in {{"link"}, {"createOAuth"}}
        /\ db[u].logins[p] # None /\ db'[u].logins[p] = None
              => KindsOfStep(u) = {"unlink"}]_vars

-----------------------------------------------------------------------------
(* What the rows mean to those who only ask how one can log in and with what*)
(* second factor.                                                           *)

LoginsOf(row) ==
    {<<p, row.logins[p]>> : p \in {x \in Providers : row.logins[x] # None}}
      \cup {<<None, e>> : e \in {row.email} \ {None}}
AllLogins == (Providers \X ProviderIds) \cup ({None} \X Emails)

ChannelsOf(verifs) == {v.channel : v \in verifs}

UserLogins == [u \in Users |-> LoginsOf(db[u])]
Verified == [u \in Users |-> ChannelsOf(db[u].verifs)]
Factors ==
    [u \in Users |-> ChannelsOf({v \in db[u].verifs : v.id = db[u].tfa})]

LM == INSTANCE LoginMethods WITH
    Logins    <- AllLogins,
    Provider  <- [l \in AllLogins |-> l[1]],
    Permanent <- None,
    logins    <- UserLogins

SF == INSTANCE SecondFactors WITH
    Accounts  <- Users,
    verified  <- Verified,
    factor    <- Factors

(* While no two requests are of the same user, the saves of whole aggregates*)
(* add up to logins that come and go one by one: TypeORM's two steps, the   *)
(* check for another owner long before them and the second save of a new    *)
(* user are not seen, and a save of one user never touches another's.       *)
ImplementsLoginMethods == LM!Spec

(* ... and to one second factor, which is a verified channel, goes with it  *)
(* and changes by nothing else.                                             *)
ImplementsSecondFactors == SF!Spec
=============================================================================
