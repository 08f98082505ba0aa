------------------------- MODULE UserAccountsProofs -------------------------
(***************************************************************************)
(* Theorems about UserAccounts, for any number of users, e-mail addresses, *)
(* providers, channels and requests in flight.                             *)
(***************************************************************************)
EXTENDS UserAccounts, TLAPS

(* The row a save writes has the type of a row.                             *)
LEMMA WrittenType ==
    ASSUME NEW old \in Row, NEW new \in Row, NEW cur \in Row
    PROVE  Written(old, new, cur) \in Row
<1>1. \A p \in Providers : WrittenLogin(old, new, cur, p) \in ProviderIds \cup {None}
  BY DEF WrittenLogin, Row
<1>2. WrittenVerifs(old, new, cur) \in SUBSET Verification
  BY DEF WrittenVerifs, NewVerifs, LostVerifs, Row
<1>3. WrittenTfa(old, new, cur) \in VerificationIds \cup {None}
  BY DEF WrittenTfa, Row
<1>4. [p \in Providers |-> WrittenLogin(old, new, cur, p)]
        \in [Providers -> ProviderIds \cup {None}]
  BY <1>1
<1>5. /\ new.email \in Emails \cup {None}
      /\ cur.email \in Emails \cup {None}
      /\ new.secret \in Secrets \cup {None}
      /\ cur.secret \in Secrets \cup {None}
  BY DEF Row
<1> QED
  BY <1>2, <1>3, <1>4, <1>5 DEF Written, Row

LEMMA NoRowType == NoRow \in Row
BY DEF NoRow, Row

(* A handler that has read a typed row and holds a typed copy keeps the     *)
(* types.                                                                   *)
LEMMA BeginType ==
    ASSUME TypeOK, NEW r \in Requests, NEW kind \in Kinds,
           NEW phase \in {"check", "save", "write", "delete"}, NEW u \in Users,
           NEW p \in Providers \cup {None}, NEW agg \in Row,
           Begin(r, kind, phase, u, p, agg)
    PROVE  TypeOK'
<1>1. [kind |-> kind, phase |-> phase, user |-> u, provider |-> p,
       agg |-> agg, loaded |-> NoRow] \in Request
  BY NoRowType DEF Request
<1> QED
  BY <1>1 DEF TypeOK, Begin

LEMMA WriteType ==
    ASSUME TypeOK, NEW r \in Requests, Busy(r), NEW old \in Row, Write(r, old)
    PROVE  TypeOK'
<1> DEFINE q == reqs[r]
<1>1. q \in Request /\ q.user \in Users /\ q.agg \in Row
  BY DEF TypeOK, Busy, Request
<1>2. AfterSave(q) \in Request \cup {Idle}
  BY <1>1, NoRowType DEF AfterSave, Request, Kinds
<1>3. Written(old, q.agg, db[q.user]) \in Row
  BY <1>1, WrittenType DEF TypeOK
<1> QED
  BY <1>1, <1>2, <1>3 DEF Write, TypeOK

(* Changing one field of a row keeps its type. *)
LEMMA RowUpdates ==
    ASSUME NEW row \in Row
    PROVE  /\ \A p \in Providers, pid \in ProviderIds \cup {None} :
                [row EXCEPT !.logins[p] = pid] \in Row
           /\ \A s \in Secrets : [row EXCEPT !.secret = s] \in Row
           /\ \A id \in VerificationIds : [row EXCEPT !.tfa = id] \in Row
           /\ [row EXCEPT !.tfa = None] \in Row
           /\ \A V \in SUBSET Verification : \A t \in VerificationIds \cup {None} :
                [row EXCEPT !.verifs = V, !.tfa = t] \in Row
           /\ \A V \in SUBSET Verification : \A s \in Secrets \cup {None} :
                [row EXCEPT !.verifs = V, !.secret = s] \in Row
BY DEF Row

LEMMA NewRows ==
    /\ \A e \in Emails : [NoRow EXCEPT !.created = TRUE, !.email = e] \in Row
    /\ \A p \in Providers, pid \in ProviderIds :
        [NoRow EXCEPT !.created = TRUE, !.logins[p] = pid] \in Row
BY DEF NoRow, Row

(* Every step keeps the types.                                              *)
LEMMA NextType == TypeOK /\ [Next]_vars => TypeOK'
<1> SUFFICES ASSUME TypeOK, [Next]_vars PROVE TypeOK'
  OBVIOUS
<1> USE DEF Kinds
<1>0. \A u \in Users : db[u] \in Row
  BY DEF TypeOK
<1>1. ASSUME NEW r \in Requests, Abort(r) PROVE TypeOK'
  BY <1>1 DEF Abort, TypeOK
<1>2. ASSUME NEW r \in Requests, CheckLink(r) PROVE TypeOK'
  <2>1. reqs[r] \in Request
    BY <1>2 DEF CheckLink, TypeOK, Busy
  <2>2. [reqs[r] EXCEPT !.phase = "save"] \in Request
    BY <2>1 DEF Request
  <2> QED
    BY <1>2, <2>2 DEF CheckLink, TypeOK
<1>3. ASSUME NEW r \in Requests, DeleteTfaRow(r) PROVE TypeOK'
  <2>1. reqs[r].user \in Users
    BY <1>3 DEF DeleteTfaRow, TypeOK, Busy, Request
  <2>2. [db[reqs[r].user] EXCEPT !.tfa = None] \in Row
    BY <2>1, <1>0, RowUpdates
  <2> QED
    BY <1>3, <2>1, <2>2 DEF DeleteTfaRow, TypeOK
<1>4. ASSUME NEW r \in Requests, Save(r) PROVE TypeOK'
  <2>1. db[reqs[r].user] \in Row
    BY <1>0, <1>4 DEF Save, TypeOK, Busy, Request
  <2> QED
    BY <1>4, <2>1, WriteType DEF Save
<1>5. ASSUME NEW r \in Requests, LoadForSave(r) PROVE TypeOK'
  <2>1. reqs[r] \in Request /\ db[reqs[r].user] \in Row
    BY <1>0, <1>5 DEF LoadForSave, TypeOK, Busy, Request
  <2>2. [reqs[r] EXCEPT !.phase = "write", !.loaded = db[reqs[r].user]] \in Request
    BY <2>1 DEF Request
  <2> QED
    BY <1>5, <2>2 DEF LoadForSave, TypeOK
<1>6. ASSUME NEW r \in Requests, WriteDifference(r) PROVE TypeOK'
  <2>1. reqs[r].loaded \in Row
    BY <1>6 DEF WriteDifference, TypeOK, Busy, Request
  <2> QED
    BY <1>6, <2>1, WriteType DEF WriteDifference
<1>7. ASSUME NEW r \in Requests, NEW u \in Users, NEW e \in Emails,
             Register(r, u, e)
      PROVE  TypeOK'
  BY <1>7, NewRows, BeginType DEF Register
<1>8. ASSUME NEW r \in Requests, NEW u \in Users, CompleteLogin(r, u)
      PROVE  TypeOK'
  BY <1>8, <1>0, BeginType DEF CompleteLogin
<1>9. ASSUME NEW r \in Requests, NEW u \in Users, Confirm2FA(r, u)
      PROVE  TypeOK'
  BY <1>9, <1>0, BeginType DEF Confirm2FA
<1>10. ASSUME NEW r \in Requests, NEW u \in Users, RefreshAccessToken(r, u)
       PROVE  TypeOK'
  BY <1>10, <1>0, BeginType DEF RefreshAccessToken
<1>11. ASSUME NEW r \in Requests, NEW u \in Users, NEW p \in Providers,
              NEW pid \in ProviderIds, LoginOAuth(r, u, p, pid)
       PROVE  TypeOK'
  BY <1>11, <1>0, BeginType DEF LoginOAuth
<1>12. ASSUME NEW r \in Requests, NEW u \in Users, NEW p \in Providers,
              NEW pid \in ProviderIds, CreateOAuthUser(r, u, p, pid)
       PROVE  TypeOK'
  BY <1>12, NewRows, BeginType DEF CreateOAuthUser
<1>13. ASSUME NEW r \in Requests, NEW u \in Users, NEW p \in Providers,
              NEW pid \in ProviderIds, LinkOAuth(r, u, p, pid)
       PROVE  TypeOK'
  BY <1>13, <1>0, RowUpdates, BeginType DEF LinkOAuth
<1>14. ASSUME NEW r \in Requests, NEW u \in Users, NEW p \in Providers,
              UnlinkOAuth(r, u, p)
       PROVE  TypeOK'
  BY <1>14, <1>0, RowUpdates, BeginType DEF UnlinkOAuth
<1>15. ASSUME NEW r \in Requests, NEW u \in Users, NEW s \in Secrets,
              SetupTotp(r, u, s)
       PROVE  TypeOK'
  BY <1>15, <1>0, RowUpdates, BeginType DEF SetupTotp
<1>16. ASSUME NEW r \in Requests, NEW u \in Users, NEW id \in VerificationIds,
              NEW c \in Channels, NEW d \in BOOLEAN,
              ConfirmRegistration(r, u, id, c, d)
       PROVE  TypeOK'
  <2> DEFINE key == IF c = Authenticator THEN db[u].secret ELSE None
             v == [id |-> id, channel |-> c, key |-> key]
             tfa == IF d THEN id ELSE db[u].tfa
             agg == [db[u] EXCEPT !.verifs = db[u].verifs \cup {v}, !.tfa = tfa]
  <2>1. v \in Verification /\ tfa \in VerificationIds \cup {None}
    BY <1>0 DEF Verification, Row
  <2>2. db[u].verifs \cup {v} \in SUBSET Verification
    BY <1>0, <2>1 DEF Row
  <2>3. agg \in Row
    BY <1>0, <2>1, <2>2, RowUpdates
  <2>4. Begin(r, "confirm", "save", u, None, agg)
    BY <1>16 DEF ConfirmRegistration
  <2> QED
    BY <2>3, <2>4, BeginType
<1>17. ASSUME NEW r \in Requests, NEW u \in Users, NEW id \in VerificationIds,
              Enable2FA(r, u, id)
       PROVE  TypeOK'
  BY <1>17, <1>0, RowUpdates, BeginType DEF Enable2FA
<1>18. ASSUME NEW r \in Requests, NEW u \in Users, Disable2FA(r, u)
       PROVE  TypeOK'
  BY <1>18, <1>0, BeginType DEF Disable2FA
<1>19. ASSUME NEW r \in Requests, NEW u \in Users, NEW v \in db[u].verifs,
              RemoveVerification(r, u, v)
       PROVE  TypeOK'
  <2> DEFINE V == db[u].verifs \ {v}
             s == IF v.channel = Authenticator THEN None ELSE db[u].secret
  <2>1. V \in SUBSET Verification /\ s \in Secrets \cup {None}
    BY <1>0 DEF Row
  <2>2. [db[u] EXCEPT !.verifs = V, !.secret = s] \in Row
    BY <1>0, <2>1, RowUpdates
  <2>3. Begin(r, "remove", "save", u, None,
              [db[u] EXCEPT !.verifs = V, !.secret = s])
    BY <1>19 DEF RemoveVerification
  <2> QED
    BY <2>2, <2>3, BeginType
<1>20. CASE UNCHANGED vars
  BY <1>20 DEF vars, TypeOK
<1> QED
  BY <1>1, <1>2, <1>3, <1>4, <1>5, <1>6, <1>7, <1>8, <1>9, <1>10, <1>11,
     <1>12, <1>13, <1>14, <1>15, <1>16, <1>17, <1>18, <1>19, <1>20 DEF Next, Arrive, Proceed

(* The database and what the requests hold always have their types.         *)
THEOREM TypeCorrect == Spec => []TypeOK
<1>1. Init => TypeOK
  BY NoRowType DEF Init, TypeOK
<1> QED
  BY <1>1, NextType, PTL DEF Spec

-----------------------------------------------------------------------------
(* A step leaves the database alone, deletes a 2FA row or is a save.        *)
LEMMA DatabaseChanges ==
    ASSUME [Next]_vars, db' # db
    PROVE  \E r \in Requests : DeleteTfaRow(r) \/ Save(r) \/ WriteDifference(r)
<1>1. \A r \in Requests : Abort(r) \/ CheckLink(r) \/ LoadForSave(r) => db' = db
  BY DEF Abort, CheckLink, LoadForSave
<1>2. \A r, kind, phase, u, p, agg : Begin(r, kind, phase, u, p, agg) => db' = db
  BY DEF Begin
<1>3. \A r \in Requests, u \in Users :
        \/ \E e \in Emails : Register(r, u, e)
        \/ CompleteLogin(r, u)
        \/ Confirm2FA(r, u)
        \/ RefreshAccessToken(r, u)
        => db' = db
  BY <1>2 DEF Register, CompleteLogin, Confirm2FA, RefreshAccessToken
<1>4. \A r \in Requests, u \in Users, p \in Providers :
        \/ \E pid \in ProviderIds :
              \/ LoginOAuth(r, u, p, pid)
              \/ CreateOAuthUser(r, u, p, pid)
              \/ LinkOAuth(r, u, p, pid)
        \/ UnlinkOAuth(r, u, p)
        => db' = db
  BY <1>2 DEF LoginOAuth, CreateOAuthUser, LinkOAuth, UnlinkOAuth
<1>5. \A r \in Requests, u \in Users :
        \/ \E s \in Secrets : SetupTotp(r, u, s)
        \/ \E id \in VerificationIds : Enable2FA(r, u, id)
        \/ Disable2FA(r, u)
        \/ \E v \in db[u].verifs : RemoveVerification(r, u, v)
        => db' = db
  BY <1>2 DEF SetupTotp, Enable2FA, Disable2FA, RemoveVerification
<1>6. \A r \in Requests, u \in Users, id \in VerificationIds, c \in Channels,
         d \in BOOLEAN : ConfirmRegistration(r, u, id, c, d) => db' = db
  BY <1>2, Zenon DEF ConfirmRegistration
<1>7. UNCHANGED vars => db' = db
  BY DEF vars
<1> QED
  BY <1>1, <1>3, <1>4, <1>5, <1>6, <1>7 DEF Next, Arrive, Proceed

LEMMA DatabaseSteps ==
    ASSUME TypeOK, [Next]_vars
    PROVE  \/ db' = db
           \/ \E r \in Requests : DeleteTfaRow(r)
           \/ \E r \in Requests : \E old \in Row : Busy(r) /\ Write(r, old)
<1>1. ASSUME NEW r \in Requests, Save(r)
      PROVE  \E old \in Row : Busy(r) /\ Write(r, old)
  <2>1. db[reqs[r].user] \in Row
    BY <1>1 DEF Save, TypeOK, Busy, Request
  <2> QED
    BY <1>1, <2>1 DEF Save
<1>2. ASSUME NEW r \in Requests, WriteDifference(r)
      PROVE  \E old \in Row : Busy(r) /\ Write(r, old)
  <2>1. reqs[r].loaded \in Row
    BY <1>2 DEF WriteDifference, TypeOK, Busy, Request
  <2> QED
    BY <1>2, <2>1 DEF WriteDifference
<1> QED
  BY <1>1, <1>2, DatabaseChanges

(* What a save that is not refused does to the database.                    *)
LEMMA WriteEffect ==
    ASSUME TypeOK, NEW r \in Requests, Busy(r), NEW old \in Row, Write(r, old)
    PROVE  \/ db' = db
           \/ LET u == reqs[r].user
                  new == reqs[r].agg
              IN  /\ u \in Users /\ new \in Row /\ db[u] \in Row
                  /\ ~Conflict(u, old, new)
                  /\ db' = [db EXCEPT ![u] = Written(old, new, db[u])]
BY DEF Write, TypeOK, Busy, Request

(* However the requests interleave and whatever they saw, no two users      *)
(* share an e-mail address or a provider's account.                         *)
LEMMA DistinctStep ==
    TypeOK /\ AccountsDistinct /\ [Next]_vars => AccountsDistinct'
<1> SUFFICES ASSUME TypeOK, AccountsDistinct, [Next]_vars
             PROVE  AccountsDistinct'
  OBVIOUS
<1>1. CASE db' = db
  BY <1>1 DEF AccountsDistinct
<1>2. ASSUME NEW r \in Requests, DeleteTfaRow(r) PROVE AccountsDistinct'
  <2>1. \A u \in Users : db'[u].email = db[u].email /\ db'[u].logins = db[u].logins
    BY <1>2 DEF DeleteTfaRow, TypeOK, Row
  <2> QED
    BY <2>1 DEF AccountsDistinct
<1>3. ASSUME NEW r \in Requests, NEW old \in Row, Busy(r), Write(r, old), db' # db
      PROVE  AccountsDistinct'
  <2> DEFINE u == reqs[r].user
             new == reqs[r].agg
             row == Written(old, new, db[u])
  <2>1. /\ u \in Users /\ new \in Row /\ db[u] \in Row
        /\ ~Conflict(u, old, new)
        /\ db' = [db EXCEPT ![u] = row]
    BY <1>3, WriteEffect
  <2>2. db'[u] = row /\ \A w \in Users \ {u} : db'[w] = db[w]
    BY <2>1 DEF TypeOK
  <2>3. \A w \in Users \ {u} : row.email # None => row.email # db[w].email
    BY <2>1 DEF Written, Conflict, EmailConflict, OwnersOfEmail, AccountsDistinct
  <2>4. \A p \in Providers : row.logins[p] = WrittenLogin(old, new, db[u], p)
    BY DEF Written
  <2>5. \A p \in Providers : PutsLogin(old, new, db[u], p) =>
          /\ row.logins[p] = new.logins[p]
          /\ \A w \in Users, x \in Providers :
                <<w, x>> # <<u, p>> => db[w].logins[x] # new.logins[p]
          /\ \A x \in Providers \ {p} :
                PutsLogin(old, new, db[u], x) => new.logins[x] # new.logins[p]
    BY <2>1, <2>4 DEF Conflict, LoginConflict, WrittenLogin
  <2>6. \A p \in Providers : ~PutsLogin(old, new, db[u], p) =>
          row.logins[p] \in {None, db[u].logins[p]}
    BY <2>4 DEF WrittenLogin
  <2>7. \A p, x \in Providers, w \in Users \ {u} :
          row.logins[p] # None => row.logins[p] # db[w].logins[x]
    BY <2>1, <2>5, <2>6 DEF AccountsDistinct
  <2>8. \A p, x \in Providers :
          p # x /\ row.logins[p] # None => row.logins[p] # row.logins[x]
    BY <2>1, <2>5, <2>6 DEF AccountsDistinct
  <2> QED
    BY <2>1, <2>2, <2>3, <2>7, <2>8 DEF AccountsDistinct
<1> QED
  BY <1>1, <1>2, <1>3, DatabaseSteps

THEOREM AccountsStayDistinct == Spec => []AccountsDistinct
<1>1. Init => AccountsDistinct
  BY DEF Init, AccountsDistinct, NoRow
<1> QED
  BY <1>1, DistinctStep, TypeCorrect, PTL DEF Spec

-----------------------------------------------------------------------------
(* What a save does to the verifications and the 2FA row holds under any    *)
(* interleaving: the constraints of the two tables carry it.                *)
LEMMA VerifsOfRow ==
    ASSUME NEW old \in Row, NEW new \in Row, NEW cur \in Row,
           ~VerifConflict(old, new, cur),
           \A v, w \in cur.verifs : v.channel = w.channel => v = w
    PROVE  \A v, w \in WrittenVerifs(old, new, cur) :
              v.channel = w.channel => v = w
<1>1. \A v \in NewVerifs(old, new), w \in cur.verifs \cup NewVerifs(old, new) :
        v.channel = w.channel => v = w
  BY DEF VerifConflict
<1> QED
  BY <1>1 DEF WrittenVerifs

LEMMA ChannelStep ==
    TypeOK /\ OneVerificationPerChannel /\ [Next]_vars
      => OneVerificationPerChannel'
<1> SUFFICES ASSUME TypeOK, OneVerificationPerChannel, [Next]_vars
             PROVE  OneVerificationPerChannel'
  OBVIOUS
<1>1. CASE db' = db
  BY <1>1 DEF OneVerificationPerChannel
<1>2. ASSUME NEW r \in Requests, DeleteTfaRow(r) PROVE OneVerificationPerChannel'
  <2>1. \A u \in Users : db'[u].verifs = db[u].verifs
    BY <1>2 DEF DeleteTfaRow, TypeOK, Row
  <2> QED
    BY <2>1 DEF OneVerificationPerChannel
<1>3. ASSUME NEW r \in Requests, NEW old \in Row, Busy(r), Write(r, old), db' # db
      PROVE  OneVerificationPerChannel'
  <2> DEFINE u == reqs[r].user
             new == reqs[r].agg
  <2>1. /\ u \in Users /\ new \in Row /\ db[u] \in Row
        /\ ~Conflict(u, old, new)
        /\ db' = [db EXCEPT ![u] = Written(old, new, db[u])]
    BY <1>3, WriteEffect
  <2>2. db'[u].verifs = WrittenVerifs(old, new, db[u])
    BY <2>1 DEF TypeOK, Written
  <2>3. \A w \in Users \ {u} : db'[w] = db[w]
    BY <2>1 DEF TypeOK
  <2>4. ~VerifConflict(old, new, db[u])
    BY <2>1 DEF Conflict
  <2>5. \A v, w \in db[u].verifs : v.channel = w.channel => v = w
    BY <2>1 DEF OneVerificationPerChannel
  <2>6. \A v, w \in db'[u].verifs : v.channel = w.channel => v = w
    BY <2>1, <2>2, <2>4, <2>5, VerifsOfRow
  <2> QED
    BY <2>3, <2>6 DEF OneVerificationPerChannel
<1> QED
  BY <1>1, <1>2, <1>3, DatabaseSteps

(* No interleaving verifies a channel twice.                                *)
THEOREM ChannelVerifiedOnce == Spec => []OneVerificationPerChannel
<1>1. Init => OneVerificationPerChannel
  BY DEF Init, OneVerificationPerChannel, NoRow
<1> QED
  BY <1>1, ChannelStep, TypeCorrect, PTL DEF Spec

LEMMA TfaStep ==
    TypeOK /\ TfaHasVerification /\ [Next]_vars => TfaHasVerification'
<1> SUFFICES ASSUME TypeOK, TfaHasVerification, [Next]_vars
             PROVE  TfaHasVerification'
  OBVIOUS
<1>1. CASE db' = db
  BY <1>1 DEF TfaHasVerification
<1>2. ASSUME NEW r \in Requests, DeleteTfaRow(r) PROVE TfaHasVerification'
  <2>1. \A u \in Users : /\ db'[u].verifs = db[u].verifs
                        /\ db'[u].tfa \in {None, db[u].tfa}
    BY <1>2 DEF DeleteTfaRow, TypeOK, Row
  <2> QED
    BY <2>1 DEF TfaHasVerification
<1>3. ASSUME NEW r \in Requests, NEW old \in Row, Busy(r), Write(r, old), db' # db
      PROVE  TfaHasVerification'
  <2> DEFINE u == reqs[r].user
             new == reqs[r].agg
  <2>1. /\ u \in Users
        /\ db' = [db EXCEPT ![u] = Written(old, new, db[u])]
    BY <1>3, WriteEffect
  <2>2. /\ db'[u].verifs = WrittenVerifs(old, new, db[u])
        /\ db'[u].tfa = WrittenTfa(old, new, db[u])
    BY <2>1 DEF TypeOK, Written
  <2>3. \A w \in Users \ {u} : db'[w] = db[w]
    BY <2>1 DEF TypeOK
  <2>4. db'[u].tfa # None => db'[u].tfa \in Ids(db'[u].verifs)
    BY <2>2 DEF WrittenTfa
  <2> QED
    BY <2>3, <2>4 DEF TfaHasVerification
<1> QED
  BY <1>1, <1>2, <1>3, DatabaseSteps

(* No interleaving leaves 2FA on without the verification it uses.          *)
THEOREM TfaAlwaysHasVerification == Spec => []TfaHasVerification
<1>1. Init => TfaHasVerification
  BY DEF Init, TfaHasVerification, NoRow
<1> QED
  BY <1>1, TfaStep, TypeCorrect, PTL DEF Spec

-----------------------------------------------------------------------------
(* With an atomic save the rows a save leaves are the aggregate's.  What a  *)
(* handler must then guarantee is that its copy is sound, whatever it read  *)
(* and however long ago.                                                    *)

Sound(row) == CanLogIn(row) /\ KeyStored(row)

CopiesSound ==
    /\ \A u \in Users : KeyStored(db[u])
    /\ \A u \in Users : db[u].created \/ u \in signedIn => CanLogIn(db[u])
    /\ \A r \in Requests : Busy(r) => Sound(reqs[r].agg) /\ reqs[r].phase # "write"

LEMMA AtomicSaveWritesCopy ==
    ASSUME NEW new \in Row, NEW cur \in Row, Sound(new)
    PROVE  Sound(Written(cur, new, cur))
<1> DEFINE row == Written(cur, new, cur)
<1>1. row.email = new.email /\ row.secret = new.secret
  BY DEF Written
<1>2. row.verifs = new.verifs
  BY DEF Written, WrittenVerifs, NewVerifs, LostVerifs
<1>3. \A p \in Providers : row.logins[p] = new.logins[p]
  BY DEF Written, WrittenLogin, PutsLogin
<1> QED
  BY <1>1, <1>2, <1>3 DEF Sound, CanLogIn, KeyStored

LEMMA BeginSound ==
    ASSUME TypeOK, CopiesSound, NEW r \in Requests, NEW kind \in Kinds,
           NEW phase \in {"check", "save", "delete"}, NEW u \in Users,
           NEW p \in Providers \cup {None}, NEW agg \in Row, Sound(agg), Begin(r, kind, phase, u, p, agg)
    PROVE  CopiesSound'
BY DEF CopiesSound, Begin, TypeOK, Busy, Idle, Sound, CanLogIn, KeyStored

LEMMA SaveSound ==
    ASSUME TypeOK, CopiesSound, NEW r \in Requests, Save(r)
    PROVE  CopiesSound'
<1> DEFINE q == reqs[r]
           u == q.user
<1>1. /\ Busy(r) /\ q \in Request /\ u \in Users
      /\ db[u] \in Row /\ q.agg \in Row /\ Sound(q.agg)
  BY DEF Save, TypeOK, Busy, Request, CopiesSound
<1>2. Write(r, db[u])
  BY DEF Save
<1>3. CASE Conflict(u, db[u], q.agg)
  <2>1. reqs' = [reqs EXCEPT ![r] = Idle] /\ db' = db /\ signedIn' = signedIn
    BY <1>2, <1>3 DEF Write
  <2> QED
    BY <2>1 DEF CopiesSound, TypeOK, Busy, Sound, CanLogIn, KeyStored
<1>4. CASE ~Conflict(u, db[u], q.agg)
  <2>1. /\ db' = [db EXCEPT ![u] = Written(db[u], q.agg, db[u])]
        /\ reqs' = [reqs EXCEPT ![r] = AfterSave(q)]
        /\ signedIn' \subseteq signedIn \cup {u}
    BY <1>2, <1>4 DEF Write
  <2>2. Sound(db'[u]) /\ \A w \in Users \ {u} : db'[w] = db[w]
    BY <1>1, <2>1, AtomicSaveWritesCopy DEF TypeOK
  <2>3. AfterSave(q) # Idle => /\ AfterSave(q).agg = q.agg
                              /\ AfterSave(q).phase = "save"
    BY <1>1 DEF AfterSave, Request
  <2>4. \A w \in Users : KeyStored(db'[w])
    BY <2>2 DEF CopiesSound, Sound
  <2>5. \A w \in Users : db'[w].created \/ w \in signedIn' => CanLogIn(db'[w])
    BY <2>1, <2>2 DEF CopiesSound, Sound
  <2>6. \A x \in Requests : reqs'[x] # Idle =>
          Sound(reqs'[x].agg) /\ reqs'[x].phase # "write"
    BY <1>1, <2>1, <2>3 DEF CopiesSound, TypeOK, Busy
  <2> QED
    BY <2>4, <2>5, <2>6 DEF CopiesSound, Busy, Sound, CanLogIn, KeyStored
<1> QED
  BY <1>3, <1>4

LEMMA SoundStep ==
    AtomicSave /\ TypeOK /\ OneVerificationPerChannel /\ CopiesSound /\ [Next]_vars
      => CopiesSound'
<1> SUFFICES ASSUME AtomicSave, TypeOK, OneVerificationPerChannel, CopiesSound,
                    [Next]_vars
             PROVE  CopiesSound'
  OBVIOUS
<1> USE DEF Kinds
<1>0. \A u \in Users : db[u] \in Row
  BY DEF TypeOK
<1>a. \A u \in Users : KeyStored(db[u])
  BY DEF CopiesSound
<1>b. \A u \in Users : db[u].email # None \/ u \in signedIn => Sound(db[u])
  BY <1>a DEF CopiesSound, Sound, CanLogIn
<1>1. ASSUME NEW r \in Requests, Abort(r) PROVE CopiesSound'
  BY <1>1 DEF Abort, CopiesSound, TypeOK, Busy, Sound, CanLogIn, KeyStored
<1>2. ASSUME NEW r \in Requests, CheckLink(r) PROVE CopiesSound'
  <2>1. reqs[r] \in Request /\ Busy(r) /\ db' = db /\ signedIn' = signedIn
    BY <1>2 DEF CheckLink, TypeOK, Busy
  <2>2. \/ reqs' = [reqs EXCEPT ![r] = Idle]
        \/ reqs' = [reqs EXCEPT ![r] = [reqs[r] EXCEPT !.phase = "save"]]
    BY <1>2 DEF CheckLink
  <2>3. [reqs[r] EXCEPT !.phase = "save"].agg = reqs[r].agg
    BY <2>1 DEF Request
  <2>4. [reqs[r] EXCEPT !.phase = "save"].phase = "save"
    BY <2>1 DEF Request
  <2>5. \A x \in Requests : reqs'[x] # Idle =>
          /\ reqs[x] # Idle /\ reqs'[x].agg = reqs[x].agg
          /\ reqs'[x].phase \in {"save", reqs[x].phase}
    BY <2>1, <2>2, <2>3, <2>4 DEF TypeOK, Busy
  <2> QED
    BY <2>1, <2>5 DEF CopiesSound, Busy, Sound, CanLogIn, KeyStored
<1>3. ASSUME NEW r \in Requests, DeleteTfaRow(r) PROVE CopiesSound'
  <2>1. /\ reqs' = [reqs EXCEPT ![r] = Idle] /\ signedIn' = signedIn
        /\ \A u \in Users : /\ db'[u].created = db[u].created
                            /\ db'[u].email = db[u].email
                            /\ db'[u].logins = db[u].logins
                            /\ db'[u].verifs = db[u].verifs
                            /\ db'[u].secret = db[u].secret
    BY <1>3 DEF DeleteTfaRow, TypeOK, Row
  <2> QED
    BY <2>1 DEF CopiesSound, TypeOK, Busy, Sound, CanLogIn, KeyStored
<1>4. ASSUME NEW r \in Requests, Save(r) PROVE CopiesSound'
  BY <1>4, SaveSound
<1>5. ASSUME NEW r \in Requests, LoadForSave(r) PROVE FALSE
  BY <1>5 DEF LoadForSave
<1>6. ASSUME NEW r \in Requests, WriteDifference(r) PROVE FALSE
  BY <1>6 DEF WriteDifference, CopiesSound
<1>7. ASSUME NEW r \in Requests, NEW u \in Users, NEW e \in Emails,
             Register(r, u, e)
      PROVE  CopiesSound'
  <2>1. Sound([NoRow EXCEPT !.created = TRUE, !.email = e])
    BY NoneAssumption DEF NoRow, Sound, CanLogIn, KeyStored
  <2> QED
    BY <1>7, <2>1, NewRows, BeginSound DEF Register
<1>8. ASSUME NEW r \in Requests, NEW u \in Users, CompleteLogin(r, u)
      PROVE  CopiesSound'
  BY <1>8, <1>0, <1>b, BeginSound DEF CompleteLogin
<1>9. ASSUME NEW r \in Requests, NEW u \in Users, Confirm2FA(r, u)
      PROVE  CopiesSound'
  BY <1>9, <1>0, <1>b, BeginSound DEF Confirm2FA
<1>10. ASSUME NEW r \in Requests, NEW u \in Users, RefreshAccessToken(r, u)
       PROVE  CopiesSound'
  BY <1>10, <1>0, <1>b, BeginSound DEF RefreshAccessToken
<1>11. ASSUME NEW r \in Requests, NEW u \in Users, NEW p \in Providers,
              NEW pid \in ProviderIds, LoginOAuth(r, u, p, pid)
       PROVE  CopiesSound'
  <2>1. db[u].logins[p] # None
    BY <1>11, NoneAssumption DEF LoginOAuth, OwnersOf
  <2>2. Sound(db[u])
    BY <2>1, <1>a DEF Sound, CanLogIn
  <2> QED
    BY <1>11, <2>2, <1>0, BeginSound DEF LoginOAuth
<1>12. ASSUME NEW r \in Requests, NEW u \in Users, NEW p \in Providers,
              NEW pid \in ProviderIds, CreateOAuthUser(r, u, p, pid)
       PROVE  CopiesSound'
  <2>1. Sound([NoRow EXCEPT !.created = TRUE, !.logins[p] = pid])
    BY NoneAssumption DEF NoRow, Sound, CanLogIn, KeyStored
  <2> QED
    BY <1>12, <2>1, NewRows, BeginSound DEF CreateOAuthUser
<1>13. ASSUME NEW r \in Requests, NEW u \in Users, NEW p \in Providers,
              NEW pid \in ProviderIds, LinkOAuth(r, u, p, pid)
       PROVE  CopiesSound'
  <2>1. Sound([db[u] EXCEPT !.logins[p] = pid])
    BY <1>0, <1>a, NoneAssumption DEF Sound, CanLogIn, KeyStored, Row
  <2> QED
    BY <1>13, <2>1, <1>0, RowUpdates, BeginSound DEF LinkOAuth
<1>14. ASSUME NEW r \in Requests, NEW u \in Users, NEW p \in Providers,
              UnlinkOAuth(r, u, p)
       PROVE  CopiesSound'
  <2>1. Sound([db[u] EXCEPT !.logins[p] = None])
    BY <1>14, <1>0, <1>a DEF UnlinkOAuth, MayUnlink, Sound, CanLogIn, KeyStored, Row
  <2> QED
    BY <1>14, <2>1, <1>0, RowUpdates, BeginSound DEF UnlinkOAuth
<1>15. ASSUME NEW r \in Requests, NEW u \in Users, NEW s \in Secrets,
              SetupTotp(r, u, s)
       PROVE  CopiesSound'
  <2>1. Sound([db[u] EXCEPT !.secret = s])
    BY <1>15, <1>0, <1>a DEF SetupTotp, Sound, CanLogIn, KeyStored, Row
  <2> QED
    BY <1>15, <2>1, <1>0, RowUpdates, BeginSound DEF SetupTotp
<1>16. ASSUME NEW r \in Requests, NEW u \in Users, NEW id \in VerificationIds,
              NEW c \in Channels, NEW d \in BOOLEAN,
              ConfirmRegistration(r, u, id, c, d)
       PROVE  CopiesSound'
  <2> DEFINE key == IF c = Authenticator THEN db[u].secret ELSE None
             v == [id |-> id, channel |-> c, key |-> key]
             tfa == IF d THEN id ELSE db[u].tfa
             agg == [db[u] EXCEPT !.verifs = db[u].verifs \cup {v}, !.tfa = tfa]
  <2>1. /\ Begin(r, "confirm", "save", u, None, agg)
        /\ db[u].email # None
        /\ c = Authenticator => db[u].secret # None
    BY <1>16 DEF ConfirmRegistration
  <2>2. /\ agg.email = db[u].email
        /\ agg.verifs = db[u].verifs \cup {v}
        /\ agg.secret = db[u].secret
    BY <1>0 DEF Row
  <2>3. v.channel = Authenticator => v.key # None /\ v.key = db[u].secret
    BY <2>1
  <2>4. Sound(agg)
    BY <1>a, <2>1, <2>2, <2>3 DEF Sound, CanLogIn, KeyStored
  <2>5. agg \in Row
    <3>1. v \in Verification /\ tfa \in VerificationIds \cup {None}
      BY <1>0 DEF Verification, Row
    <3>2. db[u].verifs \cup {v} \in SUBSET Verification
      BY <1>0, <3>1 DEF Row
    <3> QED
      BY <1>0, <3>1, <3>2, RowUpdates
  <2> QED
    BY <2>1, <2>4, <2>5, BeginSound
<1>17. ASSUME NEW r \in Requests, NEW u \in Users, NEW id \in VerificationIds,
              Enable2FA(r, u, id)
       PROVE  CopiesSound'
  <2>1. Sound([db[u] EXCEPT !.tfa = id])
    BY <1>17, <1>0, <1>a DEF Enable2FA, Sound, CanLogIn, KeyStored, Row
  <2> QED
    BY <1>17, <2>1, <1>0, RowUpdates, BeginSound DEF Enable2FA
<1>18. ASSUME NEW r \in Requests, NEW u \in Users, Disable2FA(r, u)
       PROVE  CopiesSound'
  BY <1>18, <1>0, <1>b, BeginSound DEF Disable2FA
<1>19. ASSUME NEW r \in Requests, NEW u \in Users, NEW v \in db[u].verifs,
              RemoveVerification(r, u, v)
       PROVE  CopiesSound'
  <2> DEFINE s == IF v.channel = Authenticator THEN None ELSE db[u].secret
             agg == [db[u] EXCEPT !.verifs = db[u].verifs \ {v}, !.secret = s]
  <2>1. Begin(r, "remove", "save", u, None, agg) /\ db[u].email # None
    BY <1>19 DEF RemoveVerification
  <2>2. /\ agg.email = db[u].email
        /\ agg.verifs = db[u].verifs \ {v}
        /\ agg.secret = s
    BY <1>0 DEF Row
  <2>3. \A w \in agg.verifs : w.channel = Authenticator =>
          v.channel # Authenticator
    BY <2>2 DEF OneVerificationPerChannel
  <2>4. Sound(agg)
    BY <1>a, <2>1, <2>2, <2>3 DEF Sound, CanLogIn, KeyStored
  <2>5. agg \in Row
    <3>1. /\ db[u].verifs \ {v} \in SUBSET Verification
          /\ s \in Secrets \cup {None}
      BY <1>0 DEF Row
    <3> QED
      BY <1>0, <3>1, RowUpdates
  <2> QED
    BY <2>1, <2>4, <2>5, BeginSound
<1>20. CASE UNCHANGED vars
  BY <1>20 DEF vars, CopiesSound, Busy, Sound, CanLogIn, KeyStored
<1> QED
  BY <1>1, <1>2, <1>3, <1>4, <1>5, <1>6, <1>7, <1>8, <1>9, <1>10, <1>11,
     <1>12, <1>13, <1>14, <1>15, <1>16, <1>17, <1>18, <1>19, <1>20 DEF Next, Arrive, Proceed

LEMMA CopiesAlwaysSound == AtomicSave => (Spec => []CopiesSound)
<1> SUFFICES ASSUME AtomicSave PROVE Spec => []CopiesSound
  OBVIOUS
<1>1. Init => CopiesSound
  BY DEF Init, CopiesSound, NoRow, KeyStored, Busy
<1> QED
  BY <1>1, SoundStep, TypeCorrect, ChannelVerifiedOnce, PTL DEF Spec

(* When a save is atomic, no race of unlinks, links and stale saves takes   *)
(* the last login method of a user.                                         *)
THEOREM LoginMethodRemains == AtomicSave => (Spec => []HasLoginMethod)
<1> SUFFICES ASSUME AtomicSave PROVE Spec => []HasLoginMethod
  OBVIOUS
<1>1. CopiesSound => HasLoginMethod
  BY DEF CopiesSound, HasLoginMethod
<1> QED
  BY <1>1, CopiesAlwaysSound, PTL

(* When a save is atomic, a confirmed authenticator app always computes its *)
(* codes from the secret they are checked with.                             *)
THEOREM TotpKeyRemains == AtomicSave => (Spec => []TotpKeyStored)
<1> SUFFICES ASSUME AtomicSave PROVE Spec => []TotpKeyStored
  OBVIOUS
<1>1. CopiesSound => TotpKeyStored
  BY DEF CopiesSound, TotpKeyStored
<1> QED
  BY <1>1, CopiesAlwaysSound, PTL
=====
