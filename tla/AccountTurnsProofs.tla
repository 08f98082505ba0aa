------------------------- MODULE AccountTurnsProofs -------------------------
(***************************************************************************)
(* What holds of UserAccounts while every user has one request at a time,  *)
(* with saves of either kind: for any number of users whose requests       *)
(* interleave, e-mail addresses, providers, channels and requests.         *)
(***************************************************************************)
EXTENDS UserAccountsProofs

(* The requests that save the row they read, and the one that does not save.*)
Reads == {"login", "confirm2FA", "refresh", "loginOAuth", "disable"}

(* What a request's copy makes of its user's row, by the request's kind.    *)
Registers(agg, row) ==
    /\ row = NoRow
    /\ \E e \in Emails : agg = [NoRow EXCEPT !.created = TRUE, !.email = e]
CreatesFrom(agg, row) ==
    /\ row = NoRow
    /\ \E p \in Providers, pid \in ProviderIds :
          agg = [NoRow EXCEPT !.created = TRUE, !.logins[p] = pid]
Links(agg, row, p) ==
    /\ row.created
    /\ p \in Providers
    /\ row.logins[p] = None
    /\ \E pid \in ProviderIds : agg = [row EXCEPT !.logins[p] = pid]
Unlinks(agg, row, p) ==
    /\ row.created
    /\ p \in Providers
    /\ row.logins[p] # None
    /\ MayUnlink(row, p)
    /\ agg = [row EXCEPT !.logins[p] = None]
SetsUp(agg, row) ==
    /\ row.created
    /\ \A v \in row.verifs : v.channel # Authenticator
    /\ \E s \in Secrets : agg = [row EXCEPT !.secret = s]
Adds(agg, row) ==
    /\ row.created
    /\ \E v \in Verification, tfa \in {agg.tfa} :
          /\ v.id \notin Ids(row.verifs)
          /\ v.channel = Authenticator => v.key # None /\ v.key = row.secret
          /\ tfa \in {row.tfa, v.id}
          /\ agg = [row EXCEPT !.verifs = row.verifs \cup {v}, !.tfa = tfa]
Enables(agg, row) ==
    /\ row.created
    /\ \E id \in Ids(row.verifs) : agg = [row EXCEPT !.tfa = id]
Removes(agg, row) ==
    /\ row.created
    /\ \E v \in row.verifs :
          agg = [row EXCEPT !.verifs = row.verifs \ {v},
                            !.secret = IF v.channel = Authenticator
                                       THEN None ELSE row.secret]

Meant(q, row) ==
    \/ q.kind \in Reads /\ row.created /\ q.agg = row
    \/ q.kind = "register" /\ Registers(q.agg, row)
    \/ q.kind = "createOAuth" /\ CreatesFrom(q.agg, row)
    \/ q.kind = "link" /\ Links(q.agg, row, q.provider)
    \/ q.kind = "unlink" /\ Unlinks(q.agg, row, q.provider)
    \/ q.kind = "setup" /\ SetsUp(q.agg, row)
    \/ q.kind = "confirm" /\ Adds(q.agg, row)
    \/ q.kind = "enable" /\ Enables(q.agg, row)
    \/ q.kind = "remove" /\ Removes(q.agg, row)

(* A request holds a copy that is its user's row but for what it changes,   *)
(* and what it loaded for its save is that row.                             *)
Holds(q, row) ==
    /\ Meant(q, row)
    /\ q.phase = "write" => q.loaded = row
    /\ q.phase = "delete" <=> q.kind = "disable"

RowSound(row) ==
    /\ ~row.created => row = NoRow
    /\ row.created => CanLogIn(row)
    /\ KeyStored(row)
    /\ \A v, w \in row.verifs : v.id = w.id => v = w

Undisturbed ==
    /\ \A u \in Users : RowSound(db[u])
    /\ \A u \in signedIn : db[u].created
    /\ \A r \in Requests : Busy(r) => Holds(reqs[r], db[reqs[r].user])

OneRequestPerUser ==
    \A r, x \in Requests :
        Busy(r) /\ Busy(x) /\ reqs[r].user = reqs[x].user => r = x

TurnInv ==
    /\ TypeOK
    /\ OneVerificationPerChannel
    /\ TfaHasVerification
    /\ OneRequestPerUser
    /\ Undisturbed

-----------------------------------------------------------------------------
(* The row a save leaves when nobody else wrote it since it was loaded: the *)
(* copy, but that the second factor goes with its verification.             *)
Landed(agg) ==
    [created |-> TRUE, email |-> agg.email, logins |-> agg.logins,
     verifs |-> agg.verifs, secret |-> agg.secret,
     tfa |-> IF agg.tfa \in Ids(agg.verifs) THEN agg.tfa ELSE None]

LEMMA SavesCopy ==
    ASSUME NEW row \in Row, NEW agg \in Row
    PROVE  Written(row, agg, row) = Landed(agg)
<1>1. WrittenVerifs(row, agg, row) = agg.verifs
  BY DEF WrittenVerifs, NewVerifs, LostVerifs
<1>2. \A p \in Providers : WrittenLogin(row, agg, row, p) = agg.logins[p]
  BY DEF WrittenLogin, PutsLogin
<1>3. [p \in Providers |-> WrittenLogin(row, agg, row, p)] = agg.logins
  BY <1>2 DEF Row
<1>4. WrittenTfa(row, agg, row) = IF agg.tfa \in Ids(agg.verifs) THEN agg.tfa ELSE None
  BY <1>1 DEF WrittenTfa
<1>5. /\ (IF agg.email = row.email THEN row.email ELSE agg.email) = agg.email
      /\ (IF agg.secret = row.secret THEN row.secret ELSE agg.secret) = agg.secret
  OBVIOUS
<1> QED
  BY <1>1, <1>3, <1>4, <1>5 DEF Written, Landed

(* A row in which the second factor has its verification is left as it is.  *)
LEMMA LandsUnchanged ==
    ASSUME NEW agg \in Row, agg.created, agg.tfa # None => agg.tfa \in Ids(agg.verifs)
    PROVE  Landed(agg) = agg
<1>1. (IF agg.tfa \in Ids(agg.verifs) THEN agg.tfa ELSE None) = agg.tfa
  OBVIOUS
<1> QED
  BY <1>1 DEF Landed, Row

(* What a handler makes of a sound row is sound.                            *)
LEMMA CopiesOfSoundRows ==
    ASSUME NEW q \in Request, NEW row \in Row, RowSound(row), Meant(q, row),
           \A v, w \in row.verifs : v.channel = w.channel => v = w
    PROVE  RowSound(q.agg) /\ q.agg.created
<1> DEFINE agg == q.agg
<1>0. agg \in Row /\ q.provider \in Providers \cup {None}
  BY DEF Request
<1>1. CASE q.kind \in Reads /\ row.created /\ agg = row
  BY <1>1
<1>2. CASE Registers(agg, row)
  BY <1>2, NoneAssumption DEF Registers, NoRow, RowSound, CanLogIn, KeyStored
<1>3. CASE CreatesFrom(agg, row)
  BY <1>3, NoneAssumption DEF CreatesFrom, NoRow, RowSound, CanLogIn, KeyStored
<1>4. CASE Links(agg, row, q.provider)
  <2>1. PICK pid \in ProviderIds : agg = [row EXCEPT !.logins[q.provider] = pid]
    BY <1>4 DEF Links
  <2>2. /\ agg.created /\ agg.verifs = row.verifs /\ agg.secret = row.secret
        /\ q.provider \in Providers /\ agg.logins[q.provider] = pid
    BY <1>4, <2>1 DEF Links, Row
  <2> QED
    BY <2>2, NoneAssumption DEF RowSound, CanLogIn, KeyStored
<1>5. CASE Unlinks(agg, row, q.provider)
  <2>1. /\ agg.created /\ agg.verifs = row.verifs /\ agg.secret = row.secret
        /\ agg.email = row.email
        /\ \A p \in Providers \ {q.provider} : agg.logins[p] = row.logins[p]
    BY <1>5 DEF Unlinks, Row
  <2>2. CanLogIn(agg)
    BY <1>5, <2>1 DEF Unlinks, MayUnlink, CanLogIn
  <2> QED
    BY <2>1, <2>2 DEF RowSound, KeyStored
<1>6. CASE SetsUp(agg, row)
  <2>1. /\ agg.created /\ agg.verifs = row.verifs /\ agg.email = row.email
        /\ agg.logins = row.logins
    BY <1>6 DEF SetsUp, Row
  <2> QED
    BY <1>6, <2>1 DEF SetsUp, RowSound, CanLogIn, KeyStored
<1>7. CASE Adds(agg, row)
  <2>1. PICK v \in Verification :
          /\ v.id \notin Ids(row.verifs)
          /\ v.channel = Authenticator => v.key # None /\ v.key = row.secret
          /\ agg = [row EXCEPT !.verifs = row.verifs \cup {v}, !.tfa = agg.tfa]
    BY <1>7 DEF Adds
  <2>2. /\ row.created /\ agg.created /\ agg.verifs = row.verifs \cup {v}
        /\ agg.secret = row.secret /\ agg.email = row.email
        /\ agg.logins = row.logins
    BY <1>7, <2>1 DEF Adds, Row
  <2> QED
    BY <2>1, <2>2 DEF RowSound, CanLogIn, KeyStored, Ids
<1>8. CASE Enables(agg, row)
  <2>1. /\ row.created /\ agg.created /\ agg.verifs = row.verifs
        /\ agg.email = row.email /\ agg.logins = row.logins /\ agg.secret = row.secret
    BY <1>8 DEF Enables, Row
  <2> QED
    BY <2>1 DEF RowSound, CanLogIn, KeyStored
<1>9. CASE Removes(agg, row)
  <2> DEFINE Kept(v) == IF v.channel = Authenticator THEN None ELSE row.secret
  <2>1. PICK v \in row.verifs :
          agg = [row EXCEPT !.verifs = row.verifs \ {v}, !.secret = Kept(v)]
    BY <1>9 DEF Removes
  <2>2. /\ row.created /\ agg.created /\ agg.verifs = row.verifs \ {v}
        /\ agg.secret = Kept(v) /\ agg.email = row.email
        /\ agg.logins = row.logins
    BY <1>9, <2>1 DEF Removes, Row
  <2>3. \A w \in agg.verifs : w.channel = Authenticator => v.channel # Authenticator
    BY <2>2
  <2> QED
    BY <2>2, <2>3 DEF RowSound, CanLogIn, KeyStored
<1> QED
  BY <1>1, <1>2, <1>3, <1>4, <1>5, <1>6, <1>7, <1>8, <1>9 DEF Meant

(* What lands differs from the copy in the second factor alone.             *)
LEMMA LandedSound ==
    ASSUME NEW agg \in Row, RowSound(agg), agg.created
    PROVE  RowSound(Landed(agg))
BY DEF Landed, RowSound, CanLogIn, KeyStored

-----------------------------------------------------------------------------
(* A handler that has read its user's row holds what it makes of it.        *)
LEMMA BeginUndisturbed ==
    ASSUME TypeOK, Undisturbed, NEW r \in Requests, NEW kind, NEW phase,
           NEW u \in Users, NEW p, NEW agg, Begin(r, kind, phase, u, p, agg),
           Holds([kind |-> kind, phase |-> phase, user |-> u, provider |-> p,
                  agg |-> agg, loaded |-> NoRow], db[u])
    PROVE  Undisturbed'
<1> DEFINE q == [kind |-> kind, phase |-> phase, user |-> u, provider |-> p,
                 agg |-> agg, loaded |-> NoRow]
<1>1. /\ db' = db /\ signedIn' = signedIn
      /\ reqs' = [reqs EXCEPT ![r] = q]
  BY DEF Begin
<1>2. \A x \in Requests : reqs'[x] # Idle => Holds(reqs'[x], db[reqs'[x].user])
  <2> SUFFICES ASSUME NEW x \in Requests, reqs'[x] # Idle
               PROVE  Holds(reqs'[x], db[reqs'[x].user])
    OBVIOUS
  <2>1. CASE x = r
    <3>1. reqs'[x] = q
      BY <1>1, <2>1 DEF TypeOK
    <3>2. q.user = u
      OBVIOUS
    <3> QED
      BY <3>1, <3>2
  <2>2. CASE x # r
    BY <1>1, <2>2 DEF TypeOK, Undisturbed, Busy
  <2> QED
    BY <2>1, <2>2
<1> QED
  BY <1>1, <1>2 DEF Undisturbed, Busy

(* What the invariant says of the user of a request in flight.              *)
LEMMA HeldRequest ==
    ASSUME TurnInv, NEW r \in Requests, Busy(r)
    PROVE  /\ reqs[r] \in Request
           /\ reqs[r].user \in Users /\ reqs[r].agg \in Row
           /\ db[reqs[r].user] \in Row /\ RowSound(db[reqs[r].user])
           /\ Holds(reqs[r], db[reqs[r].user])
           /\ \A v, w \in db[reqs[r].user].verifs : v.channel = w.channel => v = w
           /\ db[reqs[r].user].tfa # None
                => db[reqs[r].user].tfa \in Ids(db[reqs[r].user].verifs)
           /\ \A x \in Requests \ {r} : Busy(x) => reqs[x].user # reqs[r].user
<1>1. reqs[r] \in Request
  BY DEF TurnInv, TypeOK, Busy
<1>2. reqs[r].user \in Users /\ reqs[r].agg \in Row
  BY <1>1 DEF Request
<1>3. db[reqs[r].user] \in Row
  BY <1>2 DEF TurnInv, TypeOK
<1> QED
  BY <1>1, <1>2, <1>3
  DEF TurnInv, Undisturbed, OneVerificationPerChannel, TfaHasVerification,
      OneRequestPerUser

(* A save from a row nobody has written since is refused, or leaves the row *)
(* that the copy stands for and everything else as it was.                  *)
LEMMA WriteInTurn ==
    ASSUME TurnInv, NEW r \in Requests, Busy(r), Write(r, db[reqs[r].user])
    PROVE  LET q == reqs[r]
               u == q.user
           IN  /\ \A x \in Requests \ {r} : reqs'[x] = reqs[x]
               /\ \A w \in Users \ {u} : db'[w] = db[w]
               /\ \/ /\ reqs'[r] = Idle /\ db' = db /\ signedIn' = signedIn
                  \/ /\ reqs'[r] = AfterSave(q)
                     /\ ~Conflict(u, db[u], q.agg)
                     /\ db'[u] = Landed(q.agg)
                     /\ signedIn' \in {signedIn, signedIn \cup {u}}
<1> DEFINE q == reqs[r]
           u == q.user
<1>1. q \in Request /\ u \in Users /\ q.agg \in Row /\ db[u] \in Row
  BY HeldRequest
<1>2. Written(db[u], q.agg, db[u]) = Landed(q.agg)
  BY <1>1, SavesCopy
<1>3. CASE Conflict(u, db[u], q.agg)
  BY <1>3 DEF Write, TurnInv, TypeOK
<1>4. CASE ~Conflict(u, db[u], q.agg)
  <2>1. /\ db' = [db EXCEPT ![u] = Landed(q.agg)]
        /\ reqs' = [reqs EXCEPT ![r] = AfterSave(q)]
        /\ signedIn' \in {signedIn, signedIn \cup {u}}
    BY <1>2, <1>4 DEF Write
  <2> QED
    BY <1>1, <1>4, <2>1 DEF TurnInv, TypeOK
<1> QED
  BY <1>3, <1>4

(* After its first save the handler that created a user holds the row.      *)
LEMMA SecondSave ==
    ASSUME NEW q \in Request, NEW row \in Row, Meant(q, row), AfterSave(q) # Idle
    PROVE  /\ Holds(AfterSave(q), Landed(q.agg))
           /\ AfterSave(q).user = q.user
<1>1. q.kind = "createOAuth" /\ CreatesFrom(q.agg, row)
  BY DEF AfterSave, Meant, Reads
<1>2. q.agg \in Row /\ q.agg.created /\ q.agg.tfa = None
  BY <1>1 DEF Request, CreatesFrom, NoRow
<1>3. Landed(q.agg) = q.agg
  BY <1>2, LandsUnchanged
<1>4. /\ AfterSave(q).kind = "loginOAuth" /\ AfterSave(q).phase = "save"
      /\ AfterSave(q).agg = q.agg /\ AfterSave(q).user = q.user
  BY <1>1 DEF AfterSave, Request
<1> QED
  BY <1>2, <1>3, <1>4 DEF Holds, Meant, Reads

LEMMA WriteUndisturbed ==
    ASSUME TurnInv, NEW r \in Requests, Busy(r), Write(r, db[reqs[r].user])
    PROVE  Undisturbed'
<1> DEFINE q == reqs[r]
           u == q.user
<1>1. /\ q \in Request /\ u \in Users /\ q.agg \in Row /\ db[u] \in Row
      /\ RowSound(db[u]) /\ Meant(q, db[u])
      /\ \A v, w \in db[u].verifs : v.channel = w.channel => v = w
      /\ \A x \in Requests \ {r} : Busy(x) => reqs[x].user # u
  BY HeldRequest DEF Holds
<1>2. /\ \A x \in Requests \ {r} : reqs'[x] = reqs[x]
      /\ \A w \in Users \ {u} : db'[w] = db[w]
  BY WriteInTurn
<1>3. /\ \A w \in Users : RowSound(db[w])
      /\ \A w \in signedIn : db[w].created
      /\ \A x \in Requests : Busy(x) =>
            reqs[x].user \in Users /\ Holds(reqs[x], db[reqs[x].user])
  BY HeldRequest DEF TurnInv, Undisturbed
<1>4. CASE reqs'[r] = Idle /\ db' = db /\ signedIn' = signedIn
  BY <1>2, <1>3, <1>4 DEF Undisturbed, Busy
<1>5. CASE /\ reqs'[r] = AfterSave(q)
           /\ db'[u] = Landed(q.agg)
           /\ signedIn' \in {signedIn, signedIn \cup {u}}
  <2>1. RowSound(q.agg) /\ q.agg.created
    BY <1>1, CopiesOfSoundRows
  <2>2. RowSound(db'[u]) /\ db'[u].created
    BY <1>1, <1>5, <2>1, LandedSound DEF Landed
  <2>3. \A w \in Users : RowSound(db'[w])
    BY <1>2, <1>3, <2>2
  <2>4. \A w \in signedIn' : db'[w].created
    BY <1>2, <1>3, <1>5, <2>2 DEF TurnInv, TypeOK
  <2>5. reqs'[r] # Idle => Holds(reqs'[r], db'[reqs'[r].user])
    BY <1>1, <1>5, SecondSave
  <2>6. \A x \in Requests \ {r} :
          reqs'[x] # Idle => Holds(reqs'[x], db'[reqs'[x].user])
    BY <1>1, <1>2, <1>3 DEF Busy
  <2> QED
    BY <2>3, <2>4, <2>5, <2>6 DEF Undisturbed, Busy
<1> QED
  BY <1>4, <1>5, WriteInTurn

LEMMA DeleteInTurn ==
    ASSUME TurnInv, NEW r \in Requests, DeleteTfaRow(r)
    PROVE  LET u == reqs[r].user
           IN  /\ reqs[r].kind = "disable" /\ db[u].created
               /\ reqs'[r] = Idle /\ signedIn' = signedIn
               /\ \A x \in Requests \ {r} : reqs'[x] = reqs[x]
               /\ \A w \in Users \ {u} : db'[w] = db[w]
               /\ db'[u] = [db[u] EXCEPT !.tfa = None]
<1>1. Busy(r) /\ reqs[r].phase = "delete"
  BY DEF DeleteTfaRow
<1>2. reqs[r].kind = "disable" /\ db[reqs[r].user].created
  BY <1>1, HeldRequest DEF Holds, Meant
<1> QED
  BY <1>1, <1>2, HeldRequest DEF DeleteTfaRow, TurnInv, TypeOK

LEMMA DeleteUndisturbed ==
    ASSUME TurnInv, NEW r \in Requests, DeleteTfaRow(r)
    PROVE  Undisturbed'
<1> DEFINE u == reqs[r].user
<1>1. Busy(r)
  BY DEF DeleteTfaRow
<1>2. /\ u \in Users /\ db[u] \in Row /\ RowSound(db[u])
      /\ \A x \in Requests \ {r} : Busy(x) => reqs[x].user # u
  BY <1>1, HeldRequest
<1>3. /\ \A w \in Users : RowSound(db[w])
      /\ \A w \in signedIn : w \in Users /\ db[w].created
      /\ \A x \in Requests : Busy(x) =>
            reqs[x].user \in Users /\ Holds(reqs[x], db[reqs[x].user])
  BY HeldRequest DEF TurnInv, Undisturbed, TypeOK
<1>4. db[u].created /\ db'[u] = [db[u] EXCEPT !.tfa = None]
  BY DeleteInTurn
<1>5. RowSound(db'[u]) /\ db'[u].created
  BY <1>2, <1>4 DEF Row, RowSound, CanLogIn, KeyStored
<1>6. /\ reqs'[r] = Idle /\ signedIn' = signedIn
      /\ \A x \in Requests \ {r} : reqs'[x] = reqs[x]
      /\ \A w \in Users \ {u} : db'[w] = db[w]
  BY DeleteInTurn
<1>7. \A w \in Users : RowSound(db'[w])
  BY <1>3, <1>5, <1>6
<1>8. \A w \in signedIn' : db'[w].created
  BY <1>3, <1>5, <1>6
<1>9. \A x \in Requests : reqs'[x] # Idle => Holds(reqs'[x], db'[reqs'[x].user])
  BY <1>2, <1>3, <1>6 DEF Busy
<1> QED
  BY <1>7, <1>8, <1>9 DEF Undisturbed, Busy

-----------------------------------------------------------------------------
(* What each handler makes of the row it reads.                             *)
LEMMA NextUndisturbed == TurnInv /\ [Next]_vars => Undisturbed'
<1> SUFFICES ASSUME TurnInv, [Next]_vars PROVE Undisturbed'
  OBVIOUS
<1>0. /\ TypeOK /\ Undisturbed
      /\ \A u \in Users : db[u] \in Row /\ RowSound(db[u])
      /\ \A u \in Users : u \in signedIn => db[u].created
  BY DEF TurnInv, Undisturbed, TypeOK
<1>a. \A u \in Users : db[u].email # None => db[u].created
  BY <1>0 DEF RowSound, NoRow
<1>b. \A u \in Users, p \in Providers : db[u].logins[p] # None => db[u].created
  BY <1>0 DEF RowSound, NoRow
<1>c. \A u \in Users : FreshUser(u) => db[u] = NoRow
  BY <1>0 DEF RowSound, FreshUser
<1>1. ASSUME NEW r \in Requests, Abort(r) PROVE Undisturbed'
  BY <1>0, <1>1 DEF Abort, TypeOK, Undisturbed, Busy
<1>2. ASSUME NEW r \in Requests, CheckLink(r) PROVE Undisturbed'
  <2>1. /\ Busy(r) /\ reqs[r].phase = "check" /\ db' = db /\ signedIn' = signedIn
        /\ \A x \in Requests \ {r} : reqs'[x] = reqs[x]
        /\ reqs'[r] \in {Idle, [reqs[r] EXCEPT !.phase = "save"]}
    BY <1>0, <1>2 DEF CheckLink, TypeOK
  <2>2. reqs[r] \in Request /\ Holds(reqs[r], db[reqs[r].user])
    BY <2>1, HeldRequest
  <2>3. Holds([reqs[r] EXCEPT !.phase = "save"], db[reqs[r].user])
    BY <2>1, <2>2 DEF Holds, Meant, Request
  <2>4. [reqs[r] EXCEPT !.phase = "save"].user = reqs[r].user
    BY <2>2 DEF Request
  <2>5. reqs'[r] # Idle => Holds(reqs'[r], db'[reqs'[r].user])
    BY <2>1, <2>3, <2>4
  <2> QED
    BY <1>0, <2>1, <2>5 DEF Undisturbed, Busy
<1>3. ASSUME NEW r \in Requests, DeleteTfaRow(r) PROVE Undisturbed'
  BY <1>3, DeleteUndisturbed
<1>4. ASSUME NEW r \in Requests, Save(r) PROVE Undisturbed'
  BY <1>4, WriteUndisturbed DEF Save
<1>5. ASSUME NEW r \in Requests, LoadForSave(r) PROVE Undisturbed'
  <2> DEFINE q == reqs[r]
             loaded == [q EXCEPT !.phase = "write", !.loaded = db[q.user]]
  <2>1. /\ Busy(r) /\ q.phase = "save" /\ db' = db /\ signedIn' = signedIn
        /\ \A x \in Requests \ {r} : reqs'[x] = reqs[x]
        /\ reqs'[r] = loaded
    BY <1>0, <1>5 DEF LoadForSave, TypeOK
  <2>2. q \in Request /\ Holds(q, db[q.user])
    BY <2>1, HeldRequest
  <2>3. /\ loaded.user = q.user /\ loaded.kind = q.kind /\ loaded.agg = q.agg
        /\ loaded.provider = q.provider /\ loaded.phase = "write"
        /\ loaded.loaded = db[q.user]
    BY <2>2 DEF Request
  <2>4. Holds(loaded, db[loaded.user])
    BY <2>1, <2>2, <2>3 DEF Holds, Meant
  <2>5. reqs'[r] # Idle => Holds(reqs'[r], db'[reqs'[r].user])
    BY <2>1, <2>4
  <2> QED
    BY <1>0, <2>1, <2>5 DEF Undisturbed, Busy
<1>6. ASSUME NEW r \in Requests, WriteDifference(r) PROVE Undisturbed'
  <2>1. Busy(r) /\ reqs[r].phase = "write" /\ Write(r, reqs[r].loaded)
    BY <1>6 DEF WriteDifference
  <2>2. reqs[r].loaded = db[reqs[r].user]
    BY <2>1, HeldRequest DEF Holds
  <2> QED
    BY <2>1, <2>2, WriteUndisturbed
<1>7. ASSUME NEW r \in Requests, NEW u \in Users, NEW e \in Emails,
             Register(r, u, e)
      PROVE  Undisturbed'
  BY <1>0, <1>c, <1>7, BeginUndisturbed DEF Register, Holds, Meant, Registers
<1>8. ASSUME NEW r \in Requests, NEW u \in Users,
             CompleteLogin(r, u) \/ Confirm2FA(r, u) \/ RefreshAccessToken(r, u)
      PROVE  Undisturbed'
  <2>1. db[u].created
    BY <1>0, <1>a, <1>8 DEF CompleteLogin, Confirm2FA, RefreshAccessToken
  <2>2. PICK kind \in {"login", "confirm2FA", "refresh"} :
          Begin(r, kind, "save", u, None, db[u])
    BY <1>8 DEF CompleteLogin, Confirm2FA, RefreshAccessToken
  <2> QED
    BY <1>0, <2>1, <2>2, BeginUndisturbed DEF Holds, Meant, Reads
<1>9. ASSUME NEW r \in Requests, NEW u \in Users, NEW p \in Providers,
             NEW pid \in ProviderIds, LoginOAuth(r, u, p, pid)
      PROVE  Undisturbed'
  <2>1. db[u].created /\ Begin(r, "loginOAuth", "save", u, None, db[u])
    BY <1>b, <1>9, NoneAssumption DEF LoginOAuth, OwnersOf
  <2> QED
    BY <1>0, <2>1, BeginUndisturbed DEF Holds, Meant, Reads
<1>10. ASSUME NEW r \in Requests, NEW u \in Users, NEW p \in Providers,
              NEW pid \in ProviderIds, CreateOAuthUser(r, u, p, pid)
       PROVE  Undisturbed'
  BY <1>0, <1>c, <1>10, BeginUndisturbed
  DEF CreateOAuthUser, Holds, Meant, CreatesFrom
<1>11. ASSUME NEW r \in Requests, NEW u \in Users, NEW p \in Providers,
              NEW pid \in ProviderIds, LinkOAuth(r, u, p, pid)
       PROVE  Undisturbed'
  BY <1>0, <1>11, BeginUndisturbed DEF LinkOAuth, Holds, Meant, Links
<1>12. ASSUME NEW r \in Requests, NEW u \in Users, NEW p \in Providers,
              UnlinkOAuth(r, u, p)
       PROVE  Undisturbed'
  BY <1>0, <1>12, BeginUndisturbed DEF UnlinkOAuth, Holds, Meant, Unlinks
<1>13. ASSUME NEW r \in Requests, NEW u \in Users, NEW s \in Secrets,
              SetupTotp(r, u, s)
       PROVE  Undisturbed'
  BY <1>0, <1>13, BeginUndisturbed DEF SetupTotp, Holds, Meant, SetsUp
<1>14. ASSUME NEW r \in Requests, NEW u \in Users, NEW id \in VerificationIds,
              NEW c \in Channels, NEW d \in BOOLEAN,
              ConfirmRegistration(r, u, id, c, d)
       PROVE  Undisturbed'
  <2> DEFINE key == IF c = Authenticator THEN db[u].secret ELSE None
             v == [id |-> id, channel |-> c, key |-> key]
             tfa == IF d THEN id ELSE db[u].tfa
             agg == [db[u] EXCEPT !.verifs = db[u].verifs \cup {v}, !.tfa = tfa]
  <2>1. /\ Begin(r, "confirm", "save", u, None, agg)
        /\ u \in signedIn
        /\ c = Authenticator => db[u].secret # None
        /\ FreshId(id)
    BY <1>14 DEF ConfirmRegistration
  <2>2. v \in Verification /\ agg.tfa = tfa
    BY <1>0 DEF Verification, Row
  <2>3. v.id \notin Ids(db[u].verifs)
    BY <2>1 DEF FreshId, HeldRows
  <2>4. v.channel = Authenticator => v.key # None /\ v.key = db[u].secret
    BY <2>1
  <2>5. tfa \in {db[u].tfa, v.id}
    OBVIOUS
  <2> HIDE DEF v
  <2>6. Adds(agg, db[u])
    BY <1>0, <2>1, <2>2, <2>3, <2>4, <2>5 DEF Adds
  <2> HIDE DEF agg
  <2> QED
    BY <1>0, <2>1, <2>6, BeginUndisturbed DEF Holds, Meant
<1>15. ASSUME NEW r \in Requests, NEW u \in Users, NEW id \in VerificationIds,
              Enable2FA(r, u, id)
       PROVE  Undisturbed'
  BY <1>0, <1>15, BeginUndisturbed DEF Enable2FA, Holds, Meant, Enables
<1>16. ASSUME NEW r \in Requests, NEW u \in Users, Disable2FA(r, u)
       PROVE  Undisturbed'
  BY <1>0, <1>16, BeginUndisturbed DEF Disable2FA, Holds, Meant, Reads
<1>17. ASSUME NEW r \in Requests, NEW u \in Users, NEW v \in db[u].verifs,
              RemoveVerification(r, u, v)
       PROVE  Undisturbed'
  BY <1>0, <1>17, BeginUndisturbed DEF RemoveVerification, Holds, Meant, Removes
<1>18. CASE UNCHANGED vars
  BY <1>0, <1>18 DEF vars, Undisturbed, Busy
<1> QED
  BY <1>1, <1>2, <1>3, <1>4, <1>5, <1>6, <1>7, <1>8, <1>9, <1>10, <1>11,
     <1>12, <1>13, <1>14, <1>15, <1>16, <1>17, <1>18 DEF Next, Arrive, Proceed

-----------------------------------------------------------------------------
(* A request keeps its user until it is done.                               *)
LEMMA ProceedKeepsUser ==
    ASSUME TypeOK, NEW r \in Requests, Proceed(r)
    PROVE  /\ Busy(r)
           /\ \A x \in Requests \ {r} : reqs'[x] = reqs[x]
           /\ reqs'[r] # Idle => reqs'[r].user = reqs[r].user
<1>1. Busy(r)
  BY DEF Proceed, Abort, CheckLink, DeleteTfaRow, Save, LoadForSave, WriteDifference
<1> DEFINE q == reqs[r]
<1>2. q \in Request
  BY <1>1 DEF TypeOK, Busy
<1>3. \E new \in {Idle, AfterSave(q), [q EXCEPT !.phase = "save"],
                [q EXCEPT !.phase = "write", !.loaded = db[q.user]]} :
        reqs' = [reqs EXCEPT ![r] = new]
  <2>1. CASE Abort(r) \/ DeleteTfaRow(r)
    BY <2>1 DEF Abort, DeleteTfaRow
  <2>2. CASE CheckLink(r)
    BY <2>2 DEF CheckLink
  <2>3. CASE LoadForSave(r)
    BY <2>3 DEF LoadForSave
  <2>4. CASE Save(r) \/ WriteDifference(r)
    BY <2>4 DEF Save, WriteDifference, Write
  <2> QED
    BY <2>1, <2>2, <2>3, <2>4 DEF Proceed
<1>4. /\ [q EXCEPT !.phase = "save"].user = q.user
      /\ [q EXCEPT !.phase = "write", !.loaded = db[q.user]].user = q.user
      /\ AfterSave(q) # Idle => AfterSave(q).user = q.user
  BY <1>2 DEF Request, AfterSave
<1> QED
  BY <1>1, <1>3, <1>4 DEF TypeOK

(* A request that comes in is its user's, in a slot that was free.          *)
LEMMA ArriveBegins ==
    ASSUME NEW r \in Requests, NEW u \in Users, Arrive(r, u)
    PROVE  \E kind, phase, p, agg : Begin(r, kind, phase, u, p, agg)
<1>1. CASE \E e \in Emails : Register(r, u, e)
  BY <1>1, Zenon DEF Register
<1>2. CASE CompleteLogin(r, u) \/ Confirm2FA(r, u) \/ RefreshAccessToken(r, u)
  BY <1>2, Zenon DEF CompleteLogin, Confirm2FA, RefreshAccessToken
<1>3. CASE \E p \in Providers, pid \in ProviderIds :
              \/ LoginOAuth(r, u, p, pid)
              \/ CreateOAuthUser(r, u, p, pid)
              \/ LinkOAuth(r, u, p, pid)
  BY <1>3, Zenon DEF LoginOAuth, CreateOAuthUser, LinkOAuth
<1>4. CASE \E p \in Providers : UnlinkOAuth(r, u, p)
  BY <1>4, Zenon DEF UnlinkOAuth
<1>5. CASE \E s \in Secrets : SetupTotp(r, u, s)
  BY <1>5, Zenon DEF SetupTotp
<1>6. CASE \E id \in VerificationIds, c \in Channels, d \in BOOLEAN :
              ConfirmRegistration(r, u, id, c, d)
  BY <1>6, Zenon DEF ConfirmRegistration
<1>7. CASE Disable2FA(r, u) \/ \E id \in VerificationIds : Enable2FA(r, u, id)
  BY <1>7, Zenon DEF Enable2FA, Disable2FA
<1>8. CASE \E v \in db[u].verifs : RemoveVerification(r, u, v)
  BY <1>8, Zenon DEF RemoveVerification
<1> QED
  BY <1>1, <1>2, <1>3, <1>4, <1>5, <1>6, <1>7, <1>8, Zenon DEF Arrive

LEMMA TurnsNext ==
    ASSUME TypeOK, OneRequestPerUser, [NextInTurns]_vars
    PROVE  [Next]_vars /\ OneRequestPerUser'
<1>1. CASE UNCHANGED vars
  BY <1>1 DEF vars, OneRequestPerUser, Busy
<1>2. ASSUME NEW r \in Requests, Proceed(r)
      PROVE  Next /\ OneRequestPerUser'
  <2>1. Next
    BY <1>2 DEF Next
  <2>2. /\ Busy(r)
        /\ \A x \in Requests \ {r} : reqs'[x] = reqs[x]
        /\ reqs'[r] # Idle => reqs'[r].user = reqs[r].user
    BY <1>2, ProceedKeepsUser
  <2> QED
    BY <2>1, <2>2 DEF OneRequestPerUser, Busy
<1>3. ASSUME NEW r \in Requests, NEW u \in Users, Unserved(u), Arrive(r, u)
      PROVE  Next /\ OneRequestPerUser'
  <2>1. Next
    BY <1>3 DEF Next
  <2>2. PICK kind, phase, p, agg : Begin(r, kind, phase, u, p, agg)
    BY <1>3, ArriveBegins
  <2>3. /\ \A x \in Requests \ {r} : reqs'[x] = reqs[x]
        /\ reqs'[r].user = u
    BY <2>2 DEF Begin, TypeOK
  <2> QED
    BY <1>3, <2>1, <2>3 DEF OneRequestPerUser, Unserved, Busy
<1> QED
  BY <1>1, <1>2, <1>3 DEF NextInTurns

(* While every user has one request at a time, nothing is written between a *)
(* handler's read of its user and its save.                                 *)
LEMMA AlwaysInTurn == TurnsSpec => []TurnInv
<1>1. Init => TurnInv
  <2> SUFFICES ASSUME Init PROVE TurnInv
    OBVIOUS
  <2>1. /\ db = [u \in Users |-> NoRow] /\ signedIn = {}
        /\ \A r \in Requests : ~Busy(r)
    BY DEF Init, Busy
  <2>2. TypeOK
    BY NoRowType DEF Init, TypeOK
  <2>3. RowSound(NoRow)
    BY DEF RowSound, NoRow, KeyStored
  <2>4. Undisturbed /\ OneRequestPerUser
    BY <2>1, <2>3 DEF Undisturbed, OneRequestPerUser
  <2>5. OneVerificationPerChannel /\ TfaHasVerification
    BY <2>1 DEF OneVerificationPerChannel, TfaHasVerification, NoRow
  <2> QED
    BY <2>2, <2>4, <2>5 DEF TurnInv
<1>2. TurnInv /\ [NextInTurns]_vars => TurnInv'
  <2> SUFFICES ASSUME TurnInv, [NextInTurns]_vars PROVE TurnInv'
    OBVIOUS
  <2>1. [Next]_vars /\ OneRequestPerUser'
    BY TurnsNext DEF TurnInv
  <2> QED
    BY <2>1, NextType, ChannelStep, TfaStep, NextUndisturbed DEF TurnInv
<1> QED
  BY <1>1, <1>2, PTL DEF TurnsSpec

-----------------------------------------------------------------------------
(* A step that changes the rows is one request's of one user, whose row it  *)
(* takes to what the request means.                                         *)
TurnStep(r) ==
    LET q == reqs[r]
        u == q.user
    IN  /\ Busy(r)
        /\ Meant(q, db[u])
        /\ KindsOfStep(u) = {q.kind}
        /\ \A w \in Users \ {u} : db'[w] = db[w]
        /\ \/ q.kind = "disable" /\ db'[u] = [db[u] EXCEPT !.tfa = None]
           \/ /\ q.kind # "disable"
              /\ db'[u] = Landed(q.agg)
              /\ ~Conflict(u, db[u], q.agg)

LEMMA TurnSteps ==
    ASSUME TurnInv, [Next]_vars, db' # db
    PROVE  \E r \in Requests : TurnStep(r)
<1>1. PICK r \in Requests : DeleteTfaRow(r) \/ Save(r) \/ WriteDifference(r)
  BY DatabaseChanges
<1> DEFINE q == reqs[r]
           u == q.user
<1>2. Busy(r)
  BY <1>1 DEF DeleteTfaRow, Save, WriteDifference
<1>3. q \in Request /\ u \in Users /\ Holds(q, db[u])
  BY <1>2, HeldRequest
<1>4. CASE DeleteTfaRow(r)
  <2>1. /\ q.kind = "disable" /\ reqs'[r] # q
        /\ \A x \in Requests \ {r} : reqs'[x] = reqs[x]
        /\ \A w \in Users \ {u} : db'[w] = db[w]
        /\ db'[u] = [db[u] EXCEPT !.tfa = None]
    BY <1>2, <1>4, DeleteInTurn DEF Busy
  <2>2. KindsOfStep(u) = {q.kind}
    BY <1>2, <2>1 DEF KindsOfStep
  <2> QED
    BY <1>2, <1>3, <2>1, <2>2 DEF TurnStep, Holds
<1>5. CASE Save(r) \/ WriteDifference(r)
  <2>1. q.phase \in {"save", "write"} /\ Write(r, db[u])
    BY <1>3, <1>5 DEF Save, WriteDifference, Holds
  <2>2. db' = [db EXCEPT ![u] = Written(db[u], q.agg, db[u])]
    BY <2>1 DEF Write
  <2>3. /\ \A x \in Requests \ {r} : reqs'[x] = reqs[x]
        /\ \A w \in Users \ {u} : db'[w] = db[w]
        /\ reqs'[r] = AfterSave(q) /\ db'[u] = Landed(q.agg)
        /\ ~Conflict(u, db[u], q.agg)
    BY <1>2, <2>1, WriteInTurn
  <2>4. AfterSave(q) # q
    BY <1>2, <1>3 DEF AfterSave, Busy, Request
  <2>5. KindsOfStep(u) = {q.kind}
    BY <1>2, <2>3, <2>4 DEF KindsOfStep
  <2> QED
    BY <1>2, <1>3, <2>1, <2>3, <2>5 DEF TurnStep, Holds
<1> QED
  BY <1>1, <1>4, <1>5

(* What the request of each kind changes of its user's row.                 *)
LEMMA WhatChanges ==
    ASSUME NEW q \in Request, NEW row \in Row, RowSound(row), Meant(q, row),
           row.tfa # None => row.tfa \in Ids(row.verifs), NEW new,
           \/ q.kind = "disable" /\ new = [row EXCEPT !.tfa = None]
           \/ q.kind # "disable" /\ new = Landed(q.agg)
    PROVE  /\ ~(new.verifs \subseteq row.verifs) => q.kind = "confirm"
           /\ ~(row.verifs \subseteq new.verifs) => q.kind = "remove"
           /\ new.tfa # row.tfa =>
                q.kind \in IF new.tfa = None THEN {"disable", "remove"}
                           ELSE {"confirm", "enable"}
           /\ \A p \in Providers :
                /\ row.logins[p] # new.logins[p] /\ new.logins[p] # None
                      => q.kind \in {"link", "createOAuth"}
                /\ row.logins[p] # None /\ new.logins[p] = None
                      => q.kind = "unlink"
<1> DEFINE agg == q.agg
<1>0. agg \in Row
  BY DEF Request
<1>1. CASE q.kind = "disable"
  BY <1>1 DEF Row
<1>a. q.kind # "disable" =>
        /\ new.verifs = agg.verifs /\ new.logins = agg.logins
        /\ new.tfa = IF agg.tfa \in Ids(agg.verifs) THEN agg.tfa ELSE None
  BY DEF Landed
<1>b. Ids(row.verifs) \subseteq VerificationIds /\ None \notin VerificationIds
  BY NoneAssumption DEF Row, Ids, Verification
<1>2. CASE q.kind \in Reads \ {"disable"} /\ agg = row
  BY <1>a, <1>2
<1>3. CASE q.kind = "register" /\ Registers(agg, row)
  <2>1. /\ agg.verifs = row.verifs /\ agg.logins = row.logins /\ agg.tfa = row.tfa
    BY <1>3 DEF Registers, NoRow
  <2> QED
    BY <1>3, <1>a, <2>1
<1>4. CASE q.kind = "createOAuth" /\ CreatesFrom(agg, row)
  <2>1. /\ agg.verifs = row.verifs /\ agg.tfa = row.tfa
        /\ \A p \in Providers : row.logins[p] = None
    BY <1>4 DEF CreatesFrom, NoRow
  <2> QED
    BY <1>4, <1>a, <2>1
<1>5. CASE q.kind = "link" /\ Links(agg, row, q.provider)
  <2>1. /\ agg.verifs = row.verifs /\ agg.tfa = row.tfa
        /\ \A p \in Providers : row.logins[p] \in {None, agg.logins[p]}
    BY <1>5 DEF Links, Row
  <2> QED
    BY <1>5, <1>a, <2>1
<1>6. CASE q.kind = "unlink" /\ Unlinks(agg, row, q.provider)
  <2>1. /\ agg.verifs = row.verifs /\ agg.tfa = row.tfa
        /\ \A p \in Providers : agg.logins[p] \in {None, row.logins[p]}
    BY <1>6 DEF Unlinks, Row
  <2> QED
    BY <1>6, <1>a, <2>1
<1>7. CASE q.kind = "setup" /\ SetsUp(agg, row)
  <2>1. /\ agg.verifs = row.verifs /\ agg.tfa = row.tfa /\ agg.logins = row.logins
    BY <1>7 DEF SetsUp, Row
  <2> QED
    BY <1>7, <1>a, <2>1
<1>8. CASE q.kind = "confirm" /\ Adds(agg, row)
  <2>1. PICK v \in Verification :
          /\ agg.tfa \in {row.tfa, v.id}
          /\ agg = [row EXCEPT !.verifs = row.verifs \cup {v}, !.tfa = agg.tfa]
    BY <1>8 DEF Adds
  <2>2. agg.verifs = row.verifs \cup {v} /\ agg.logins = row.logins
    BY <2>1 DEF Row
  <2>3. Ids(row.verifs) \subseteq Ids(agg.verifs) /\ v.id \in Ids(agg.verifs)
    BY <2>2 DEF Ids
  <2>4. agg.tfa \in Ids(agg.verifs) \/ (agg.tfa = None /\ row.tfa = None)
    BY <2>1, <2>3
  <2>5. v.id # None
    BY <1>b DEF Verification
  <2> QED
    BY <1>8, <1>a, <2>1, <2>2, <2>4, <2>5
<1>9. CASE q.kind = "enable" /\ Enables(agg, row)
  <2>1. /\ agg.verifs = row.verifs /\ agg.logins = row.logins
        /\ agg.tfa \in Ids(row.verifs)
    BY <1>9 DEF Enables, Row
  <2> QED
    BY <1>9, <1>a, <1>b, <2>1
<1>10. CASE q.kind = "remove" /\ Removes(agg, row)
  <2>1. /\ agg.verifs \subseteq row.verifs /\ agg.logins = row.logins
        /\ agg.tfa = row.tfa
    BY <1>10 DEF Removes, Row
  <2> QED
    BY <1>10, <1>a, <2>1
<1> QED
  BY <1>1, <1>2, <1>3, <1>4, <1>5, <1>6, <1>7, <1>8, <1>9, <1>10 DEF Meant

LEMMA ChangesInTurn ==
    ASSUME TurnInv, [Next]_vars, NEW u \in Users
    PROVE  /\ ~(db'[u].verifs \subseteq db[u].verifs) => KindsOfStep(u) = {"confirm"}
           /\ ~(db[u].verifs \subseteq db'[u].verifs) => KindsOfStep(u) = {"remove"}
           /\ db'[u].tfa # db[u].tfa =>
                KindsOfStep(u) \in IF db'[u].tfa = None
                                   THEN {{"disable"}, {"remove"}}
                                   ELSE {{"confirm"}, {"enable"}}
           /\ \A p \in Providers :
                /\ db[u].logins[p] # db'[u].logins[p] /\ db'[u].logins[p] # None
                      => KindsOfStep(u) \in {{"link"}, {"createOAuth"}}
                /\ db[u].logins[p] # None /\ db'[u].logins[p] = None
                      => KindsOfStep(u) = {"unlink"}
<1>1. CASE db'[u] = db[u]
  BY <1>1
<1>2. CASE db'[u] # db[u]
  <2>1. PICK r \in Requests : TurnStep(r)
    BY <1>2, TurnSteps
  <2>2. u = reqs[r].user /\ KindsOfStep(u) = {reqs[r].kind}
    BY <1>2, <2>1 DEF TurnStep
  <2>3. /\ reqs[r] \in Request /\ db[u] \in Row /\ RowSound(db[u])
        /\ Meant(reqs[r], db[u])
        /\ db[u].tfa # None => db[u].tfa \in Ids(db[u].verifs)
        /\ \/ reqs[r].kind = "disable" /\ db'[u] = [db[u] EXCEPT !.tfa = None]
           \/ reqs[r].kind # "disable" /\ db'[u] = Landed(reqs[r].agg)
    BY <2>1, <2>2, HeldRequest DEF TurnStep
  <2> DEFINE kind == reqs[r].kind
             new == db'[u]
             row == db[u]
  <2>4. /\ ~(new.verifs \subseteq row.verifs) => kind = "confirm"
        /\ ~(row.verifs \subseteq new.verifs) => kind = "remove"
        /\ new.tfa # row.tfa =>
             kind \in IF new.tfa = None THEN {"disable", "remove"}
                      ELSE {"confirm", "enable"}
        /\ \A p \in Providers :
             /\ row.logins[p] # new.logins[p] /\ new.logins[p] # None
                   => kind \in {"link", "createOAuth"}
             /\ row.logins[p] # None /\ new.logins[p] = None
                   => kind = "unlink"
    BY <2>3, WhatChanges
  <2> QED
    BY <2>2, <2>4
<1> QED
  BY <1>1, <1>2

(* In turns, no login, refresh or link brings back a verification its user  *)
(* removed or drops one its user added, in whichever order the requests of  *)
(* all the users interleave.                                                *)
THEOREM VerificationsOwned == TurnsSpec => VerificationsChangeByOwner
<1>1. TurnInv /\ [NextInTurns]_vars =>
        [\A u \in Users :
            /\ ~(db'[u].verifs \subseteq db[u].verifs)
                  => KindsOfStep(u) = {"confirm"}
            /\ ~(db[u].verifs \subseteq db'[u].verifs)
                  => KindsOfStep(u) = {"remove"}]_vars
  BY ChangesInTurn, TurnsNext DEF TurnInv
<1> QED
  BY <1>1, AlwaysInTurn, PTL DEF TurnsSpec, VerificationsChangeByOwner

(* In turns, 2FA goes on, off or elsewhere only by who asked for that.      *)
THEOREM TfaOwned == TurnsSpec => TfaChangesByOwner
<1>1. TurnInv /\ [NextInTurns]_vars =>
        [\A u \in Users : db'[u].tfa # db[u].tfa =>
          KindsOfStep(u) \in IF db'[u].tfa = None
                             THEN {{"disable"}, {"remove"}}
                             ELSE {{"confirm"}, {"enable"}}]_vars
  BY ChangesInTurn, TurnsNext DEF TurnInv
<1> QED
  BY <1>1, AlwaysInTurn, PTL DEF TurnsSpec, TfaChangesByOwner

(* In turns, a provider's account comes by a link or with its user and goes *)
(* by an unlink: a save never restores or drops another request's link.     *)
THEOREM LinksOwned == TurnsSpec => LinksChangeByOwner
<1>1. TurnInv /\ [NextInTurns]_vars =>
        [\A u \in Users, p \in Providers :
        /\ db[u].logins[p] # db'[u].logins[p] /\ db'[u].logins[p] # None
              => KindsOfStep(u) \in {{"link"}, {"createOAuth"}}
        /\ db[u].logins[p] # None /\ db'[u].logins[p] = None
              => KindsOfStep(u) = {"unlink"}]_vars
  BY ChangesInTurn, TurnsNext DEF TurnInv
<1> QED
  BY <1>1, AlwaysInTurn, PTL DEF TurnsSpec, LinksChangeByOwner

(* In turns, the two steps of TypeORM's save do not matter: the last login  *)
(* method stays, without a serializable transaction.                        *)
THEOREM LoginMethodRemainsInTurns == TurnsSpec => []HasLoginMethod
<1>1. TurnInv => HasLoginMethod
  BY DEF TurnInv, Undisturbed, RowSound, HasLoginMethod
<1> QED
  BY <1>1, AlwaysInTurn, PTL

(* ... and neither do they to the secret of a confirmed authenticator app.  *)
THEOREM TotpKeyRemainsInTurns == TurnsSpec => []TotpKeyStored
<1>1. TurnInv => TotpKeyStored
  BY DEF TurnInv, Undisturbed, RowSound, TotpKeyStored
<1> QED
  BY <1>1, AlwaysInTurn, PTL

-----------------------------------------------------------------------------
(* The rows and the ways to log in.                                         *)
LEMMA LoginsAre ==
    ASSUME NEW row \in Row
    PROVE  /\ LoginsOf(row) \subseteq AllLogins
           /\ \A p \in Providers : \A pid :
                <<p, pid>> \in LoginsOf(row) <=> row.logins[p] = pid /\ pid # None
           /\ \A e : <<None, e>> \in LoginsOf(row) <=> row.email = e /\ e # None
           /\ CanLogIn(row) <=> LoginsOf(row) # {}
<1>1. \A p \in Providers : row.logins[p] \in ProviderIds \cup {None}
  BY DEF Row
<1>2. row.email \in Emails \cup {None}
  BY DEF Row
<1>3. LoginsOf(row) \subseteq AllLogins
  BY <1>1, <1>2 DEF LoginsOf, AllLogins
<1>4. \A p \in Providers : \A pid :
        <<p, pid>> \in LoginsOf(row) <=> row.logins[p] = pid /\ pid # None
  BY NoneAssumption DEF LoginsOf
<1>5. \A e : <<None, e>> \in LoginsOf(row) <=> row.email = e /\ e # None
  BY NoneAssumption DEF LoginsOf
<1>6. CanLogIn(row) => LoginsOf(row) # {}
  <2>1. row.email # None => <<None, row.email>> \in LoginsOf(row)
    BY <1>5
  <2>2. \A p \in Providers :
          row.logins[p] # None => <<p, row.logins[p]>> \in LoginsOf(row)
    BY <1>4
  <2> QED
    BY <2>1, <2>2 DEF CanLogIn
<1>7. LoginsOf(row) # {} => CanLogIn(row)
  BY DEF CanLogIn, LoginsOf
<1> QED
  BY <1>3, <1>4, <1>5, <1>6, <1>7

(* Rows with the same addresses and provider ids have the same logins, and  *)
(* rows that differ in one differ in that login.                            *)
LEMMA LoginsSame ==
    ASSUME NEW row, NEW new, new.email = row.email,
           \A p \in Providers : new.logins[p] = row.logins[p]
    PROVE  LoginsOf(new) = LoginsOf(row)
BY DEF LoginsOf

LEMMA LoginAdded ==
    ASSUME NEW row, NEW new, NEW p \in Providers, new.email = row.email,
           row.logins[p] = None, new.logins[p] # None,
           \A x \in Providers \ {p} : new.logins[x] = row.logins[x]
    PROVE  LoginsOf(new) = LoginsOf(row) \cup {<<p, new.logins[p]>>}
BY DEF LoginsOf

LEMMA LoginTaken ==
    ASSUME NEW row, NEW new, NEW p \in Providers, new.email = row.email,
           row.logins[p] # None, new.logins[p] = None,
           \A x \in Providers \ {p} : new.logins[x] = row.logins[x]
    PROVE  LoginsOf(new) = LoginsOf(row) \ {<<p, row.logins[p]>>}
BY NoneAssumption DEF LoginsOf

(* What the unique columns say of an address or a provider's account that a *)
(* save puts into a row.                                                    *)
LEMMA PutsFreeLogin ==
    ASSUME TypeOK, NEW u \in Users, NEW new, NEW p \in Providers,
           ~Conflict(u, db[u], new), db[u].logins[p] = None,
           new.logins[p] \in ProviderIds
    PROVE  LM!Free(<<p, new.logins[p]>>)
<1> DEFINE pid == new.logins[p]
<1>0. \A w \in Users : db[w] \in Row
  BY DEF TypeOK
<1>1. PutsLogin(db[u], new, db[u], p)
  BY NoneAssumption DEF PutsLogin
<1>2. \A w \in Users \ {u} : db[w].logins[p] # pid
  BY <1>1 DEF Conflict, LoginConflict
<1>3. db[u].logins[p] # pid
  BY NoneAssumption
<1>4. \A w \in Users : <<p, pid>> \notin LoginsOf(db[w])
  BY <1>0, <1>2, <1>3, LoginsAre
<1> QED
  BY <1>4 DEF LM!Free, UserLogins

LEMMA PutsFreeEmail ==
    ASSUME TypeOK, NEW u \in Users, NEW new,
           ~Conflict(u, db[u], new), db[u].email = None, new.email \in Emails
    PROVE  LM!Free(<<None, new.email>>)
<1>0. \A w \in Users : db[w] \in Row
  BY DEF TypeOK
<1>1. \A w \in Users : db[w].email # new.email
  BY NoneAssumption DEF Conflict, EmailConflict, OwnersOfEmail
<1>2. \A w \in Users : <<None, new.email>> \notin LoginsOf(db[w])
  BY <1>0, <1>1, LoginsAre
<1> QED
  BY <1>2 DEF LM!Free, UserLogins

(* What the request of each kind changes of its user's logins.              *)
LEMMA WhatLoginsChange ==
    ASSUME NEW q \in Request, NEW row \in Row, RowSound(row), Meant(q, row),
           NEW new,
           \/ q.kind = "disable" /\ new = [row EXCEPT !.tfa = None]
           \/ q.kind # "disable" /\ new = Landed(q.agg)
    PROVE  \/ LoginsOf(new) = LoginsOf(row)
           \/ /\ row = NoRow /\ q.agg.email \in Emails
              /\ LoginsOf(new) = {<<None, q.agg.email>>}
           \/ \E p \in Providers :
                /\ row.logins[p] = None /\ q.agg.logins[p] \in ProviderIds
                /\ \/ row = NoRow /\ LoginsOf(new) = {<<p, q.agg.logins[p]>>}
                   \/ /\ row.created
                      /\ LoginsOf(new) = LoginsOf(row) \cup {<<p, q.agg.logins[p]>>}
           \/ \E p \in Providers :
                /\ row.logins[p] # None
                /\ MayUnlink(row, p)
                /\ LoginsOf(new) = LoginsOf(row) \ {<<p, row.logins[p]>>}
<1> DEFINE agg == q.agg
<1>0. LoginsOf(NoRow) = {}
  BY DEF LoginsOf, NoRow
<1>1. CASE q.kind = "disable"
  <2>1. new.email = row.email /\ new.logins = row.logins
    BY <1>1 DEF Row
  <2> QED
    BY <2>1, LoginsSame
<1>a. q.kind # "disable" => new.email = agg.email /\ new.logins = agg.logins
  BY DEF Landed
<1>2. CASE /\ q.kind # "disable" /\ agg.email = row.email
           /\ agg.logins = row.logins
  BY <1>a, <1>2, LoginsSame
<1>3. CASE q.kind \in Reads \ {"disable"} /\ agg = row
  BY <1>2, <1>3
<1>4. CASE q.kind = "register" /\ Registers(agg, row)
  <2>1. /\ row = NoRow /\ agg.email \in Emails
        /\ \A p \in Providers : agg.logins[p] = None
    BY <1>4 DEF Registers, NoRow
  <2>2. LoginsOf(new) = {<<None, agg.email>>}
    BY <1>4, <1>a, <2>1, NoneAssumption DEF LoginsOf
  <2> QED
    BY <2>1, <2>2
<1>5. CASE q.kind = "createOAuth" /\ CreatesFrom(agg, row)
  <2>1. PICK p \in Providers, pid \in ProviderIds :
          agg = [NoRow EXCEPT !.created = TRUE, !.logins[p] = pid]
    BY <1>5 DEF CreatesFrom
  <2>2. /\ row = NoRow /\ row.email = None /\ row.logins[p] = None
        /\ agg.email = None /\ agg.logins[p] = pid
        /\ \A x \in Providers \ {p} : agg.logins[x] = row.logins[x]
    <3>1. row = NoRow
      BY <1>5 DEF CreatesFrom
    <3>2. row.email = None /\ \A x \in Providers : row.logins[x] = None
      BY <3>1 DEF NoRow
    <3>3. agg.email = None /\ agg.logins = [NoRow.logins EXCEPT ![p] = pid]
      BY <2>1 DEF NoRow
    <3>4. agg.logins[p] = pid /\ \A x \in Providers \ {p} : agg.logins[x] = None
      BY <3>3 DEF NoRow
    <3> QED
      BY <3>1, <3>2, <3>3, <3>4
  <2>3. new.email = agg.email /\ new.logins = agg.logins
    BY <1>5, <1>a
  <2>4. LoginsOf(new) = LoginsOf(row) \cup {<<p, new.logins[p]>>}
    BY <2>2, <2>3, LoginAdded, NoneAssumption
  <2>5. LoginsOf(new) = {<<p, agg.logins[p]>>}
    BY <1>0, <2>2, <2>3, <2>4
  <2> QED
    BY <2>2, <2>5
<1>6. CASE q.kind = "link" /\ Links(agg, row, q.provider)
  <2> DEFINE p == q.provider
  <2>1. PICK pid \in ProviderIds : agg = [row EXCEPT !.logins[p] = pid]
    BY <1>6 DEF Links
  <2>2. /\ p \in Providers /\ row.created /\ row.logins[p] = None
        /\ agg.email = row.email /\ agg.logins[p] = pid
        /\ \A x \in Providers \ {p} : agg.logins[x] = row.logins[x]
    BY <1>6, <2>1 DEF Links, Row
  <2>3. new.email = agg.email /\ new.logins = agg.logins
    BY <1>6, <1>a
  <2>4. LoginsOf(new) = LoginsOf(row) \cup {<<p, new.logins[p]>>}
    BY <2>2, <2>3, LoginAdded, NoneAssumption
  <2> QED
    BY <2>2, <2>3, <2>4
<1>7. CASE q.kind = "unlink" /\ Unlinks(agg, row, q.provider)
  <2> DEFINE p == q.provider
  <2>1. /\ p \in Providers /\ row.logins[p] # None /\ MayUnlink(row, p)
        /\ agg.email = row.email /\ agg.logins[p] = None
        /\ \A x \in Providers \ {p} : agg.logins[x] = row.logins[x]
    BY <1>7 DEF Unlinks, Row
  <2>2. new.email = agg.email /\ new.logins = agg.logins
    BY <1>7, <1>a
  <2>3. LoginsOf(new) = LoginsOf(row) \ {<<p, row.logins[p]>>}
    BY <2>1, <2>2, LoginTaken
  <2> QED
    BY <2>1, <2>3
<1>8. CASE q.kind = "setup" /\ SetsUp(agg, row)
  BY <1>2, <1>8 DEF SetsUp, Row
<1>9. CASE q.kind = "confirm" /\ Adds(agg, row)
  BY <1>2, <1>9 DEF Adds, Row
<1>10. CASE q.kind = "enable" /\ Enables(agg, row)
  BY <1>2, <1>10 DEF Enables, Row
<1>11. CASE q.kind = "remove" /\ Removes(agg, row)
  BY <1>2, <1>11 DEF Removes, Row
<1> QED
  BY <1>1, <1>3, <1>4, <1>5, <1>6, <1>7, <1>8, <1>9, <1>10, <1>11 DEF Meant

LEMMA LoginsStep ==
    ASSUME TurnInv, [Next]_vars
    PROVE  [LM!Next]_UserLogins
<1>1. CASE db' = db
  BY <1>1 DEF UserLogins
<1>2. CASE db' # db
  <2>1. PICK r \in Requests : TurnStep(r)
    BY <1>2, TurnSteps
  <2> DEFINE q == reqs[r]
             u == q.user
             row == db[u]
             new == db'[u]
  <2>2. /\ u \in Users /\ q \in Request /\ row \in Row /\ RowSound(row)
        /\ TypeOK
    BY <2>1, HeldRequest DEF TurnStep, TurnInv
  <2>3. \/ LoginsOf(new) = LoginsOf(row)
        \/ /\ row = NoRow /\ q.agg.email \in Emails
           /\ LoginsOf(new) = {<<None, q.agg.email>>}
        \/ \E p \in Providers :
             /\ row.logins[p] = None /\ q.agg.logins[p] \in ProviderIds
             /\ \/ row = NoRow /\ LoginsOf(new) = {<<p, q.agg.logins[p]>>}
                \/ /\ row.created
                   /\ LoginsOf(new) = LoginsOf(row) \cup {<<p, q.agg.logins[p]>>}
        \/ \E p \in Providers :
             /\ row.logins[p] # None
             /\ MayUnlink(row, p)
             /\ LoginsOf(new) = LoginsOf(row) \ {<<p, row.logins[p]>>}
    BY <2>1, <2>2, WhatLoginsChange DEF TurnStep
  <2>4. LoginsOf(new) # LoginsOf(row) => ~Conflict(u, row, q.agg)
    <3>1. CASE q.kind = "disable"
      <4>1. new.email = row.email /\ new.logins = row.logins
        BY <2>1, <2>2, <3>1 DEF TurnStep, Row
      <4> QED
        BY <4>1, LoginsSame
    <3>2. CASE q.kind # "disable"
      BY <2>1, <3>2 DEF TurnStep
    <3> QED
      BY <3>1, <3>2
  <2>5. /\ UserLogins[u] = LoginsOf(row)
        /\ UserLogins' = [UserLogins EXCEPT ![u] = LoginsOf(new)]
    BY <2>1, <2>2 DEF UserLogins, TurnStep
  <2>6. row = NoRow => LoginsOf(row) = {}
    BY DEF LoginsOf, NoRow
  <2>7. row.created => LoginsOf(row) # {}
    BY <2>2, LoginsAre DEF RowSound
  <2>8. CASE LoginsOf(new) = LoginsOf(row)
    BY <2>2, <2>5, <2>8 DEF UserLogins
  <2>9. CASE /\ row = NoRow /\ q.agg.email \in Emails
             /\ LoginsOf(new) = {<<None, q.agg.email>>}
    <3> DEFINE l == <<None, q.agg.email>>
    <3>1. l \in AllLogins
      BY <2>9 DEF AllLogins
    <3>2. row.email = None /\ ~Conflict(u, row, q.agg)
      <4>1. row.email = None
        BY <2>9 DEF NoRow
      <4>2. LoginsOf(new) # LoginsOf(row)
        BY <2>6, <2>9
      <4> QED
        BY <2>4, <4>1, <4>2
    <3>3. LM!Free(l)
      BY <2>2, <2>9, <3>2, PutsFreeEmail
    <3>4. LM!Create(u, l)
      BY <2>5, <2>6, <2>9, <3>3 DEF LM!Create
    <3> QED
      BY <2>2, <3>1, <3>4 DEF LM!Next
  <2>10. ASSUME NEW p \in Providers, row.logins[p] = None,
               q.agg.logins[p] \in ProviderIds,
               \/ row = NoRow /\ LoginsOf(new) = {<<p, q.agg.logins[p]>>}
               \/ /\ row.created
                  /\ LoginsOf(new) = LoginsOf(row) \cup {<<p, q.agg.logins[p]>>}
        PROVE  [LM!Next]_UserLogins
    <3> DEFINE l == <<p, q.agg.logins[p]>>
    <3>1. l \in AllLogins /\ l[1] = p /\ p # None
      BY <2>10, NoneAssumption DEF AllLogins
    <3>2. ~Conflict(u, row, q.agg)
      <4>1. l \notin LoginsOf(row) /\ l \in LoginsOf(new)
        BY <2>2, <2>10, LoginsAre, NoneAssumption
      <4> QED
        BY <2>4, <4>1
    <3>3. LM!Free(l)
      BY <2>2, <2>10, <3>2, PutsFreeLogin
    <3>4. CASE row = NoRow /\ LoginsOf(new) = {l}
      <4>1. LM!Create(u, l)
        BY <2>5, <2>6, <3>3, <3>4 DEF LM!Create
      <4> QED
        BY <2>2, <3>1, <4>1 DEF LM!Next
    <3>5. CASE row.created /\ LoginsOf(new) = LoginsOf(row) \cup {l}
      <4>1. \A x \in LoginsOf(row) : x \in AllLogins /\ x[1] # p
        <5>1. LoginsOf(row) \subseteq AllLogins
          BY <2>2, LoginsAre
        <5>2. \A y \in Providers : row.logins[y] # None => y # p
          BY <2>10
        <5>3. \A x \in LoginsOf(row) : x[1] # p
          BY <3>1, <5>2 DEF LoginsOf
        <5> QED
          BY <5>1, <5>3
      <4>2. LM!Link(u, l)
        BY <2>5, <2>7, <3>1, <3>3, <3>5, <4>1 DEF LM!Link
      <4> QED
        BY <2>2, <3>1, <4>2 DEF LM!Next
    <3> QED
      BY <2>10, <3>4, <3>5
  <2>11. ASSUME NEW p \in Providers, row.logins[p] # None, MayUnlink(row, p),
                LoginsOf(new) = LoginsOf(row) \ {<<p, row.logins[p]>>}
         PROVE  [LM!Next]_UserLogins
    <3> DEFINE l == <<p, row.logins[p]>>
    <3>1. l \in LoginsOf(row) /\ l \in AllLogins /\ l[1] # None
      BY <2>2, <2>11, LoginsAre, NoneAssumption
    <3>2. LoginsOf(row) # {l}
      <4>1. row.email # None => <<None, row.email>> \in LoginsOf(row) \ {l}
        BY <2>2, <3>1, LoginsAre
      <4>2. \A x \in Providers \ {p} : row.logins[x] # None
              => <<x, row.logins[x]>> \in LoginsOf(row) \ {l}
        BY <2>2, LoginsAre
      <4> QED
        BY <2>11, <4>1, <4>2 DEF MayUnlink
    <3>3. LM!Unlink(u, l)
      BY <2>5, <2>11, <3>1, <3>2 DEF LM!Unlink
    <3> QED
      BY <2>2, <3>1, <3>3 DEF LM!Next
  <2> QED
    BY <2>3, <2>8, <2>9, <2>10, <2>11
<1> QED
  BY <1>1, <1>2

(* In turns, the saves of whole aggregates add up to logins that come and   *)
(* go one by one, each of one user only and never the last one.             *)
THEOREM AccountsImplementLoginMethods == TurnsSpec => ImplementsLoginMethods
<1>1. Init => LM!Init
  BY DEF Init, LM!Init, UserLogins, LoginsOf, NoRow
<1>2. TurnInv /\ [NextInTurns]_vars => [LM!Next]_UserLogins
  BY LoginsStep, TurnsNext DEF TurnInv
<1> QED
  BY <1>1, <1>2, AlwaysInTurn, PTL DEF TurnsSpec, ImplementsLoginMethods, LM!Spec

-----------------------------------------------------------------------------
(* The rows and the second factors.                                         *)
FactorOf(row) == ChannelsOf({v \in row.verifs : v.id = row.tfa})

KeepsChannels(row, new) ==
    /\ ChannelsOf(new.verifs) = ChannelsOf(row.verifs)
    /\ \/ FactorOf(new) \in {FactorOf(row), {}}
       \/ \E c \in ChannelsOf(row.verifs) : FactorOf(new) = {c}
GainsChannel(row, new, c) ==
    /\ ChannelsOf(new.verifs) = ChannelsOf(row.verifs) \cup {c}
    /\ FactorOf(new) \in {FactorOf(row), {c}}
LosesChannel(row, new, c) ==
    /\ ChannelsOf(new.verifs) = ChannelsOf(row.verifs) \ {c}
    /\ FactorOf(new) = FactorOf(row) \ {c}

LEMMA FactorIs ==
    ASSUME NEW row, \A v, w \in row.verifs : v.id = w.id => v = w
    PROVE  /\ \A v \in row.verifs : v.id = row.tfa => FactorOf(row) = {v.channel}
           /\ row.tfa \notin Ids(row.verifs) => FactorOf(row) = {}
<1>1. ASSUME NEW v \in row.verifs, v.id = row.tfa
      PROVE  FactorOf(row) = {v.channel}
  <2>1. {w \in row.verifs : w.id = row.tfa} = {v}
    BY <1>1
  <2> QED
    BY <2>1 DEF FactorOf, ChannelsOf
<1>2. ASSUME row.tfa \notin Ids(row.verifs) PROVE FactorOf(row) = {}
  <2>1. {w \in row.verifs : w.id = row.tfa} = {}
    BY <1>2 DEF Ids
  <2> QED
    BY <2>1 DEF FactorOf, ChannelsOf
<1> QED
  BY <1>1, <1>2

LEMMA FactorAdded ==
    ASSUME NEW row, NEW new, NEW v,
           \A x, y \in row.verifs : x.id = y.id => x = y,
           v.id \notin Ids(row.verifs), new.verifs = row.verifs \cup {v},
           new.tfa \in {row.tfa, v.id}, row.tfa # v.id
    PROVE  GainsChannel(row, new, v.channel)
<1> USE DEF GainsChannel
<1>1. ChannelsOf(new.verifs) = ChannelsOf(row.verifs) \cup {v.channel}
  BY DEF ChannelsOf
<1>2. \A x, y \in new.verifs : x.id = y.id => x = y
  BY DEF Ids
<1>3. CASE new.tfa = v.id
  <2>1. v \in new.verifs
    OBVIOUS
  <2>2. FactorOf(new) = {v.channel}
    BY <1>2, <1>3, <2>1, FactorIs
  <2> QED
    BY <1>1, <2>2
<1>4. CASE new.tfa = row.tfa
  <2>1. {w \in new.verifs : w.id = new.tfa} = {w \in row.verifs : w.id = row.tfa}
    BY <1>4 DEF Ids
  <2>2. FactorOf(new) = FactorOf(row)
    BY <2>1 DEF FactorOf
  <2> QED
    BY <1>1, <2>2
<1> QED
  BY <1>1, <1>3, <1>4

LEMMA FactorRemoved ==
    ASSUME NEW row, NEW new, NEW v \in row.verifs,
           \A x, y \in row.verifs : x.id = y.id => x = y,
           \A x, y \in row.verifs : x.channel = y.channel => x = y,
           row.tfa # None => row.tfa \in Ids(row.verifs),
           None \notin Ids(row.verifs),
           new.verifs = row.verifs \ {v},
           new.tfa = IF row.tfa \in Ids(new.verifs) THEN row.tfa ELSE None
    PROVE  LosesChannel(row, new, v.channel)
<1> USE DEF LosesChannel
<1>1. ChannelsOf(new.verifs) = ChannelsOf(row.verifs) \ {v.channel}
  BY DEF ChannelsOf
<1>2. \A x, y \in new.verifs : x.id = y.id => x = y
  OBVIOUS
<1>3. None \notin Ids(new.verifs)
  BY DEF Ids
<1>4. CASE row.tfa = v.id
  <2>1. FactorOf(row) = {v.channel}
    BY <1>4, FactorIs
  <2>2. new.tfa \notin Ids(new.verifs)
    BY <1>3, <1>4 DEF Ids
  <2> QED
    BY <1>1, <1>2, <2>1, <2>2, FactorIs
<1>5. CASE row.tfa = None
  BY <1>1, <1>2, <1>3, <1>5, FactorIs
<1>6. ASSUME NEW w \in row.verifs, row.tfa = w.id, w # v
      PROVE  FactorOf(new) = FactorOf(row) \ {v.channel}
  <2>1. w \in new.verifs /\ new.tfa = w.id
    BY <1>6 DEF Ids
  <2>2. FactorOf(row) = {w.channel} /\ FactorOf(new) = {w.channel}
    BY <1>2, <1>6, <2>1, FactorIs
  <2>3. w.channel # v.channel
    BY <1>6
  <2> QED
    BY <2>2, <2>3
<1> QED
  BY <1>1, <1>4, <1>5, <1>6 DEF Ids

(* What the request of each kind changes of its user's second factor.       *)
LEMMA WhatFactorsChange ==
    ASSUME NEW q \in Request, NEW row \in Row, RowSound(row), Meant(q, row),
           \A v, w \in row.verifs : v.channel = w.channel => v = w,
           row.tfa # None => row.tfa \in Ids(row.verifs), NEW new,
           \/ q.kind = "disable" /\ new = [row EXCEPT !.tfa = None]
           \/ /\ q.kind # "disable" /\ new = Landed(q.agg)
              /\ ~VerifConflict(row, q.agg, row)
    PROVE  \/ KeepsChannels(row, new)
           \/ \E c \in Channels \ ChannelsOf(row.verifs) : GainsChannel(row, new, c)
           \/ \E c \in ChannelsOf(row.verifs) : LosesChannel(row, new, c)
<1> DEFINE agg == q.agg
<1>0. /\ agg \in Row
      /\ \A v, w \in row.verifs : v.id = w.id => v = w
  BY DEF Request, RowSound
<1>a. q.kind # "disable" =>
        /\ new.verifs = agg.verifs
        /\ new.tfa = IF agg.tfa \in Ids(agg.verifs) THEN agg.tfa ELSE None
        /\ ~VerifConflict(row, agg, row)
  BY DEF Landed
<1>b. Ids(row.verifs) \subseteq VerificationIds /\ None \notin VerificationIds
  BY NoneAssumption DEF Row, Ids, Verification
<1>1. CASE q.kind = "disable"
  <2>1. new.verifs = row.verifs /\ new.tfa = None
    BY <1>1 DEF Row
  <2>2. FactorOf(new) = {}
    BY <1>0, <1>b, <2>1, FactorIs
  <2> QED
    BY <2>1, <2>2 DEF KeepsChannels
<1>2. CASE q.kind # "disable" /\ agg.verifs = row.verifs /\ agg.tfa = row.tfa
  BY <1>2, <1>a DEF FactorOf, KeepsChannels
<1>3. CASE q.kind \in Reads \ {"disable"} /\ agg = row
  BY <1>2, <1>3
<1>4. CASE q.kind = "register" /\ Registers(agg, row)
  BY <1>2, <1>4 DEF Registers, NoRow
<1>5. CASE q.kind = "createOAuth" /\ CreatesFrom(agg, row)
  BY <1>2, <1>5 DEF CreatesFrom, NoRow
<1>6. CASE q.kind = "link" /\ Links(agg, row, q.provider)
  BY <1>2, <1>6 DEF Links, Row
<1>7. CASE q.kind = "unlink" /\ Unlinks(agg, row, q.provider)
  BY <1>2, <1>7 DEF Unlinks, Row
<1>8. CASE q.kind = "setup" /\ SetsUp(agg, row)
  BY <1>2, <1>8 DEF SetsUp, Row
<1>9. CASE q.kind = "confirm" /\ Adds(agg, row)
  <2>1. PICK v \in Verification :
          /\ v.id \notin Ids(row.verifs)
          /\ agg.tfa \in {row.tfa, v.id}
          /\ agg = [row EXCEPT !.verifs = row.verifs \cup {v}, !.tfa = agg.tfa]
    BY <1>9 DEF Adds
  <2>2. agg.verifs = row.verifs \cup {v}
    BY <2>1 DEF Row
  <2>3. v \notin row.verifs /\ v.channel \in Channels /\ row.tfa # v.id
    BY <1>b, <2>1 DEF Ids, Verification
  <2>4. v \in NewVerifs(row, agg)
    BY <2>2, <2>3 DEF NewVerifs
  <2>5. \A w \in row.verifs : w.channel # v.channel
    BY <1>9, <1>a, <2>3, <2>4 DEF VerifConflict
  <2>6. v.channel \notin ChannelsOf(row.verifs)
    BY <2>5 DEF ChannelsOf
  <2>7. Ids(row.verifs) \subseteq Ids(agg.verifs) /\ v.id \in Ids(agg.verifs)
    BY <2>2 DEF Ids
  <2>8. new.verifs = row.verifs \cup {v} /\ new.tfa \in {row.tfa, v.id}
    BY <1>9, <1>a, <2>1, <2>2, <2>7
  <2>9. GainsChannel(row, new, v.channel)
    BY <1>0, <2>1, <2>3, <2>8, FactorAdded
  <2> QED
    BY <2>3, <2>6, <2>9
<1>10. CASE q.kind = "enable" /\ Enables(agg, row)
  <2>1. PICK v \in row.verifs : agg = [row EXCEPT !.tfa = v.id]
    BY <1>10 DEF Enables, Ids
  <2>2. agg.verifs = row.verifs /\ agg.tfa = v.id
    BY <2>1 DEF Row
  <2>3. v.id \in Ids(agg.verifs) /\ v.channel \in ChannelsOf(row.verifs)
    BY <2>2 DEF Ids, ChannelsOf
  <2>4. new.verifs = row.verifs /\ new.tfa = v.id
    BY <1>10, <1>a, <2>2, <2>3
  <2>5. FactorOf(new) = {v.channel}
    BY <1>0, <2>4, FactorIs
  <2> QED
    BY <2>3, <2>4, <2>5 DEF KeepsChannels
<1>11. CASE q.kind = "remove" /\ Removes(agg, row)
  <2> DEFINE Kept(v) == IF v.channel = Authenticator THEN None ELSE row.secret
  <2>1. PICK v \in row.verifs :
          agg = [row EXCEPT !.verifs = row.verifs \ {v}, !.secret = Kept(v)]
    BY <1>11 DEF Removes
  <2>2. agg.verifs = row.verifs \ {v} /\ agg.tfa = row.tfa
    BY <2>1 DEF Row
  <2>3. /\ new.verifs = row.verifs \ {v}
        /\ new.tfa = IF row.tfa \in Ids(new.verifs) THEN row.tfa ELSE None
    BY <1>11, <1>a, <2>2
  <2>4. LosesChannel(row, new, v.channel)
    <3>1. None \notin Ids(row.verifs)
      BY <1>b
    <3> QED
      BY <1>0, <2>3, <3>1, FactorRemoved
  <2>5. v.channel \in ChannelsOf(row.verifs)
    BY DEF ChannelsOf
  <2> QED
    BY <2>4, <2>5
<1> QED
  BY <1>1, <1>3, <1>4, <1>5, <1>6, <1>7, <1>8, <1>9, <1>10, <1>11 DEF Meant

LEMMA FactorsStep ==
    ASSUME TurnInv, [Next]_vars
    PROVE  [SF!Next]_<<Verified, Factors>>
<1>1. CASE db' = db
  BY <1>1 DEF Verified, Factors
<1>2. CASE db' # db
  <2>1. PICK r \in Requests : TurnStep(r)
    BY <1>2, TurnSteps
  <2> DEFINE q == reqs[r]
             u == q.user
             row == db[u]
             new == db'[u]
  <2>2. /\ u \in Users /\ q \in Request /\ row \in Row /\ RowSound(row)
        /\ \A v, w \in row.verifs : v.channel = w.channel => v = w
        /\ row.tfa # None => row.tfa \in Ids(row.verifs)
    BY <2>1, HeldRequest DEF TurnStep
  <2>3. \/ /\ q.kind = "disable"
            /\ new = [row EXCEPT !.tfa = None]
         \/ /\ q.kind # "disable" /\ new = Landed(q.agg)
            /\ ~VerifConflict(row, q.agg, row)
    BY <2>1 DEF TurnStep, Conflict
  <2>4. Meant(q, row)
    BY <2>1 DEF TurnStep
  <2>5. \/ KeepsChannels(row, new)
        \/ \E c \in Channels \ ChannelsOf(row.verifs) : GainsChannel(row, new, c)
        \/ \E c \in ChannelsOf(row.verifs) : LosesChannel(row, new, c)
    BY <2>2, <2>3, <2>4, WhatFactorsChange
  <2>6. /\ Verified[u] = ChannelsOf(row.verifs) /\ Factors[u] = FactorOf(row)
        /\ Verified' = [Verified EXCEPT ![u] = ChannelsOf(new.verifs)]
        /\ Factors' = [Factors EXCEPT ![u] = FactorOf(new)]
    BY <2>1, <2>2 DEF Verified, Factors, FactorOf, TurnStep
  <2>7. ChannelsOf(row.verifs) \subseteq Channels
    BY <2>2 DEF Row, Verification, ChannelsOf
  <2>8. /\ ChannelsOf(new.verifs) = ChannelsOf(row.verifs) => Verified' = Verified
        /\ FactorOf(new) = FactorOf(row) => Factors' = Factors
    BY <2>6 DEF Verified, Factors
  <2>9. CASE KeepsChannels(row, new)
    <3>1. Verified' = Verified
      BY <2>8, <2>9 DEF KeepsChannels
    <3>2. CASE FactorOf(new) = FactorOf(row)
      BY <2>8, <3>1, <3>2
    <3>3. CASE FactorOf(new) = {}
      <4>1. SF!Disable(u)
        BY <2>6, <3>1, <3>3 DEF SF!Disable
      <4> QED
        BY <2>2, <4>1 DEF SF!Next
    <3>4. ASSUME NEW c \in ChannelsOf(row.verifs), FactorOf(new) = {c}
          PROVE  SF!Next
      <4>1. SF!Enable(u, c)
        BY <2>6, <3>1, <3>4 DEF SF!Enable
      <4> QED
        BY <2>2, <2>7, <4>1 DEF SF!Next
    <3> QED
      BY <2>9, <3>2, <3>3, <3>4 DEF KeepsChannels
  <2>10. ASSUME NEW c \in Channels \ ChannelsOf(row.verifs), GainsChannel(row, new, c)
        PROVE  SF!Next
    <3>1. SF!Verify(u, c)
      BY <2>6, <2>8, <2>10 DEF SF!Verify, GainsChannel
    <3> QED
      BY <2>2, <3>1 DEF SF!Next
  <2>11. ASSUME NEW c \in ChannelsOf(row.verifs), LosesChannel(row, new, c)
        PROVE  SF!Next
    <3>1. SF!Remove(u, c)
      BY <2>6, <2>11 DEF SF!Remove, LosesChannel
    <3> QED
      BY <2>2, <2>7, <3>1 DEF SF!Next
  <2> QED
    BY <2>5, <2>9, <2>10, <2>11
<1> QED
  BY <1>1, <1>2

(* In turns, every user has one second factor at most, always a channel it  *)
(* has verified, that goes with the channel and changes by nothing else.    *)
THEOREM AccountsImplementSecondFactors == TurnsSpec => ImplementsSecondFactors
<1>1. Init => SF!Init
  BY DEF Init, SF!Init, Verified, Factors, ChannelsOf, NoRow
<1>2. TurnInv /\ [NextInTurns]_vars => [SF!Next]_<<Verified, Factors>>
  BY FactorsStep, TurnsNext DEF TurnInv
<1> QED
  BY <1>1, <1>2, AlwaysInTurn, PTL
  DEF TurnsSpec, ImplementsSecondFactors, SF!Spec
=============================================================================
