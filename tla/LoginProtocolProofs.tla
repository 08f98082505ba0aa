------------------------ MODULE LoginProtocolProofs -------------------------
(***************************************************************************)
(* TwoFactorLogin implements LoginProtocol while handlers do not overlap   *)
(* and the server is not restarted, for any number of browsers,            *)
(* confirmations and sends, whatever else fails or is late.                *)
(***************************************************************************)
EXTENDS TwoFactorLoginProofs

Running == Serial /\ "crash" \notin Faults

(* A client with the cookie can confirm the entry.                          *)
Of(cookie, entry) == entry # None /\ cookie # None /\ cookie.id = entry.id

(* What a confirmation has checked still holds.                             *)
Checked ==
    \A r \in Requests :
        /\ reqs[r].phase \in {"verify", "accept"} =>
              /\ Of(cookies["login"][reqs[r].client], cache["login"])
              /\ reqs[r].client \notin signedIn
        /\ reqs[r].phase = "accept" => reqs[r].tfa = tfa
        /\ reqs[r].phase \in {"count", "ttl", "set"} =>
              \E c \in Clients : Of(cookies["login"][c], cache["login"])

AttemptsLeft ==
    cache["login"] # None /\ ~Exceeded => cache["login"].attempts < MaxAttempts

(* A code on its way is of one login.                                       *)
AwaitedOnce ==
    \A s \in Sends, x \in Sends :
        Awaits(s) /\ Awaits(x) /\ sends[s].id = sends[x].id => s = x

ProtocolInv == SerialInv /\ Checked /\ AttemptsLeft /\ AwaitedOnce

-----------------------------------------------------------------------------
LEMMA LoginStore == "login" \in Stores
BY DEF Stores

(* A fresh id is that of no cookie, entry or code on its way.               *)
LEMMA FreshId ==
    ASSUME TypeOK, NEW id \in Ids, id \notin IdsInUse
    PROVE  /\ \A c \in Clients :
                 cookies["login"][c] # None => cookies["login"][c].id # id
           /\ cache["login"] # None => cache["login"].id # id
           /\ \A s \in Sends : sends[s].phase = "send" => sends[s].id # id
<1>1. id \notin IdsStored /\ id \notin IdsInFlight(sends)
  BY DEF IdsInUse
<1>2. id \notin IdsOfEntry(cache["login"]) /\ id \notin IdsOfCookies("login")
  <2>1. IdsOfEntry(cache["login"]) \cup IdsOfCookies("login")
          \in {IdsOfEntry(cache[k]) \cup IdsOfCookies(k) : k \in Stores}
    BY LoginStore
  <2> QED
    BY <1>1, <2>1 DEF IdsStored
<1>3. ASSUME NEW s \in Sends, sends[s].phase = "send" PROVE sends[s].id # id
  <2>1. IdsHeld(sends[s]) \in {IdsHeld(sends[x]) : x \in DOMAIN sends}
    BY DEF TypeOK
  <2>2. id \notin IdsHeld(sends[s])
    BY <1>1, <2>1 DEF IdsInFlight
  <2>3. "id" \in DOMAIN sends[s]
    BY <1>3, SendTypes
  <2> QED
    BY <2>2, <2>3 DEF IdsHeld
<1> QED
  BY <1>2, <1>3 DEF IdsOfEntry, IdsOfCookies

(* Steps taken when no handler is under way leave nothing checked, and with *)
(* the same codes on their way nothing to show but the attempts.            *)
LEMMA QuietProtocol ==
    ASSUME SerialInv', Quiet',
           cache'["login"] # None => cache'["login"].attempts < MaxAttempts,
           AwaitedOnce'
    PROVE  ProtocolInv'
<1>1. \A r \in Requests : reqs'[r].phase = "idle"
  BY PhaseOfIdle DEF Quiet
<1> QED
  BY <1>1 DEF ProtocolInv, Checked, AttemptsLeft

LEMMA AwaitedFewer ==
    ASSUME AwaitedOnce,
           \A s \in Sends : Awaits(s)' => Awaits(s) /\ sends'[s].id = sends[s].id
    PROVE  AwaitedOnce'
BY DEF AwaitedOnce

LEMMA NotExceeded ==
    ASSUME TypeOK, Quiet
    PROVE  ~Exceeded
BY PhaseOfIdle DEF Quiet, Exceeded

LEMMA EndProtocol ==
    ASSUME ProtocolInv, SerialInv', ~Exceeded, ProcessEnds, UNCHANGED cache
    PROVE  ProtocolInv'
<1>1. Quiet'
  BY EndQuiet
<1>2. AwaitedOnce'
  BY PhaseOfIdle DEF ProcessEnds, AwaitedOnce, Awaits
<1>3. cache'["login"] # None => cache'["login"].attempts < MaxAttempts
  BY DEF ProtocolInv, AttemptsLeft
<1> QED
  BY <1>1, <1>2, <1>3, QuietProtocol

LEMMA ProtocolSends ==
    ASSUME ProtocolInv, SerialInv', Running, NEW s \in Sends,
           SendCode(s) \/ SendFails(s) \/ ChangeGet(s) \/ ChangeTtl(s) \/ ChangeSet(s)
    PROVE  ProtocolInv'
<1> DEFINE q == sends[s]
<1>1. /\ TypeOK
      /\ sends \in [Sends -> Sending \cup {Idle}]
      /\ cache \in [Stores -> Entry \cup {None}]
      /\ Idle.phase = "idle"
      /\ SerialInv
      /\ "login" \in Stores
  BY PhaseOfIdle, LoginStore DEF ProtocolInv, SerialInv, TypeOK
<1>2. \A r \in Requests : reqs[r] = Idle
  <2>1. CASE SendCode(s) \/ SendFails(s)
    BY <2>1 DEF SendCode, SendFails, MayStart, Running, Serial, Quiet
  <2>2. CASE ChangeGet(s) \/ ChangeTtl(s) \/ ChangeSet(s)
    BY <1>1, <2>2 DEF SerialInv, OneAtATime, Between, ChangeGet, ChangeTtl, ChangeSet
  <2> QED
    BY <2>1, <2>2
<1>3. ~Exceeded
  BY <1>1, <1>2 DEF Exceeded
<1>4. ASSUME UNCHANGED reqs,
             \A x \in Sends : Awaits(x)' => Awaits(x) /\ sends'[x].id = sends[x].id,
             cache'["login"] # None =>
                \/ cache'["login"].attempts = 0
                \/ /\ cache["login"] # None
                   /\ cache'["login"].attempts = cache["login"].attempts
      PROVE  ProtocolInv'
  <2>1. AwaitedOnce'
    BY <1>4, AwaitedFewer DEF ProtocolInv
  <2>2. cache'["login"] # None => cache'["login"].attempts < MaxAttempts
    BY <1>3, <1>4, LoginAssumption DEF ProtocolInv, AttemptsLeft
  <2>3. \A r \in Requests : reqs'[r] = Idle
    BY <1>2, <1>4
  <2> QED
    BY <1>1, <2>1, <2>2, <2>3 DEF ProtocolInv, Checked, AttemptsLeft
<1>5. CASE SendCode(s)
  <2> DEFINE e == Created(q.store, q.id, VerificatorChannel(q.channel), q.id)
  <2>1. /\ UNCHANGED reqs
        /\ \A x \in Sends : x # s => sends'[x] = sends[x]
        /\ sends'[s].phase \in {"idle", "change"}
    BY <1>1, <1>5 DEF SendCode
  <2>2. cache'["login"] = cache["login"] \/ cache'["login"].attempts = 0
    <3>1. e.attempts = 0
      BY DEF Created
    <3> HIDE DEF e
    <3>2. cache' = cache \/ cache' = [cache EXCEPT ![q.store] = e]
      BY <1>5 DEF SendCode, e
    <3> QED
      BY <1>1, <3>1, <3>2
  <2> QED
    BY <1>4, <2>1, <2>2 DEF Awaits
<1>6. CASE SendFails(s)
  BY <1>3, <1>6, EndProtocol DEF SendFails
<1>7. CASE ChangeGet(s)
  <2>1. CASE cache[q.store] = None
    BY <1>3, <1>7, <2>1, EndProtocol DEF ChangeGet
  <2>2. CASE cache[q.store] # None
    <3>1. /\ UNCHANGED <<reqs, cache>>
          /\ \A x \in Sends : x # s => sends'[x] = sends[x]
          /\ sends'[s].phase = "ttl"
      BY <1>1, <1>7, <2>2 DEF ChangeGet
    <3> QED
      BY <1>4, <3>1 DEF Awaits
  <2> QED
    BY <2>1, <2>2
<1>8. CASE ChangeTtl(s)
  <2>1. /\ UNCHANGED <<reqs, cache>>
        /\ \A x \in Sends : x # s => sends'[x] = sends[x]
        /\ sends'[s].phase = "set"
    BY <1>1, <1>8 DEF ChangeTtl
  <2> QED
    BY <1>4, <2>1 DEF Awaits
<1>9. CASE ChangeSet(s)
  <2>1. CASE SetAccepts(q.ttl)
    <3> DEFINE e == Stored(q.entry, q.ttl)
    <3>1. /\ UNCHANGED reqs
          /\ \A x \in Sends : x # s => sends'[x] = sends[x]
          /\ sends'[s].phase = "idle"
          /\ cache' = [cache EXCEPT ![q.store] = e]
          /\ q.phase = "set"
      BY <1>1, <1>9, <2>1 DEF ChangeSet
    <3>2. e.attempts = q.entry.attempts
      BY <1>1, <2>1, <3>1, SendTypes, StoredType
    <3>3. /\ cache[q.store] # None
          /\ q.entry.attempts = cache[q.store].attempts
      BY <1>1, <3>1 DEF SerialInv, ChangesCached
    <3> HIDE DEF e
    <3>4. cache'["login"] # None =>
             /\ cache["login"] # None
             /\ cache'["login"].attempts = cache["login"].attempts
      BY <1>1, <3>1, <3>2, <3>3
    <3> QED
      BY <1>4, <3>1, <3>4 DEF Awaits
  <2>2. CASE ~SetAccepts(q.ttl)
    BY <1>3, <1>9, <2>2, EndProtocol DEF ChangeSet
  <2> QED
    BY <2>1, <2>2
<1> QED
  BY <1>5, <1>6, <1>7, <1>8, <1>9

LEMMA ProtocolRequests ==
    ASSUME ProtocolInv, SerialInv', NEW r \in Requests,
           \/ Verify(r) \/ VerifyFails(r) \/ IncrementGet(r) \/ IncrementTtl(r)
           \/ IncrementSet(r) \/ DropEntry(r) \/ Accept(r) \/ AcceptFails(r)
    PROVE  ProtocolInv'
<1> DEFINE q == reqs[r]
           entry == cache["login"]
<1>1. /\ TypeOK
      /\ reqs \in [Requests -> Confirmation \cup {Idle}]
      /\ cache \in [Stores -> Entry \cup {None}]
      /\ Idle.phase = "idle"
      /\ SerialInv
      /\ "login" \in Stores
  BY PhaseOfIdle, LoginStore DEF ProtocolInv, SerialInv, TypeOK
<1>2. q # Idle /\ UNCHANGED sends
  BY <1>1 DEF Verify, VerifyFails, IncrementGet, IncrementTtl, IncrementSet,
              DropEntry, Accept, AcceptFails
<1>3. \A x \in Requests : x # r => reqs[x] = Idle
  BY <1>1, <1>2 DEF SerialInv, OneAtATime
<1>4. \A x \in Requests : x # r => reqs'[x].phase = "idle"
  BY <1>1, <1>3 DEF Verify, VerifyFails, IncrementGet, IncrementTtl, IncrementSet,
                    DropEntry, Accept, AcceptFails
<1>5. AwaitedOnce'
  BY <1>2 DEF ProtocolInv, AwaitedOnce, Awaits
<1>6. ASSUME reqs'[r].phase \in {"verify", "accept"} =>
                /\ Of(cookies'["login"][reqs'[r].client], cache'["login"])
                /\ reqs'[r].client \notin signedIn',
             reqs'[r].phase = "accept" => reqs'[r].tfa = tfa',
             reqs'[r].phase \in {"count", "ttl", "set"} =>
                \E c \in Clients : Of(cookies'["login"][c], cache'["login"]),
             /\ cache'["login"] # None
             /\ reqs'[r].phase # "exceeded"
             => cache'["login"].attempts < MaxAttempts
      PROVE  ProtocolInv'
  <2>1. Checked'
    <3> SUFFICES ASSUME NEW x \in Requests
                 PROVE  (/\ reqs[x].phase \in {"verify", "accept"} =>
                              /\ Of(cookies["login"][reqs[x].client], cache["login"])
                              /\ reqs[x].client \notin signedIn
                         /\ reqs[x].phase = "accept" => reqs[x].tfa = tfa
                         /\ reqs[x].phase \in {"count", "ttl", "set"} =>
                              \E c \in Clients : Of(cookies["login"][c], cache["login"]))'
      BY DEF Checked
    <3>1. CASE x # r
      BY <1>4, <3>1
    <3>2. CASE x = r
      BY <1>6, <3>2
    <3> QED
      BY <3>1, <3>2
  <2>2. AttemptsLeft'
    BY <1>6 DEF AttemptsLeft, Exceeded
  <2> QED
    BY <1>5, <2>1, <2>2 DEF ProtocolInv
<1>7. ~Exceeded <=> q.phase # "exceeded"
  BY <1>1, <1>3 DEF Exceeded
<1>8. entry # None /\ q.phase # "exceeded" => entry.attempts < MaxAttempts
  BY <1>7 DEF ProtocolInv, AttemptsLeft
<1>9. CASE Verify(r)
  <2>1. /\ q.phase = "verify"
        /\ UNCHANGED <<tfa, cache, cookies, signedIn>>
        /\ \/ reqs'[r].phase \in {"cancel", "count"}
           \/ reqs'[r] = [phase |-> "accept", client |-> q.client, tfa |-> tfa]
    BY <1>1, <1>9 DEF Verify
  <2>2. /\ q.client \in Clients /\ q.client \notin signedIn
        /\ Of(cookies["login"][q.client], cache["login"])
    BY <1>1, <2>1, ReqTypes DEF ProtocolInv, Checked
  <2>3. Of(cookies'["login"][q.client], cache'["login"])
    BY <2>1, <2>2
  <2> QED
    BY <1>6, <1>8, <2>1, <2>2, <2>3
<1>10. CASE VerifyFails(r)
  BY <1>1, <1>6, <1>8, <1>10 DEF VerifyFails
<1>11. CASE IncrementGet(r)
  <2>1. /\ q.phase = "count"
        /\ UNCHANGED <<tfa, cache, cookies, signedIn>>
        /\ reqs'[r].phase \in {"idle", "ttl"}
    BY <1>1, <1>11 DEF IncrementGet
  <2>2. PICK c \in Clients : Of(cookies["login"][c], cache["login"])
    BY <2>1 DEF ProtocolInv, Checked
  <2>3. Of(cookies'["login"][c], cache'["login"])
    BY <2>1, <2>2
  <2> QED
    BY <1>6, <1>8, <2>1, <2>3
<1>12. CASE IncrementTtl(r)
  <2>1. /\ q.phase = "ttl"
        /\ UNCHANGED <<tfa, cache, cookies, signedIn>>
        /\ reqs'[r].phase = "set"
    BY <1>1, <1>12 DEF IncrementTtl
  <2>2. PICK c \in Clients : Of(cookies["login"][c], cache["login"])
    BY <2>1 DEF ProtocolInv, Checked
  <2>3. Of(cookies'["login"][c], cache'["login"])
    BY <2>1, <2>2
  <2> QED
    BY <1>6, <1>8, <2>1, <2>3
<1>13. CASE IncrementSet(r)
  <2>1. /\ q.phase = "set"
        /\ UNCHANGED <<tfa, cookies, signedIn>>
    BY <1>13 DEF IncrementSet
  <2>2. /\ entry # None /\ q.entry = [entry EXCEPT !.attempts = @ + 1]
        /\ q.entry \in Entry /\ q.ttl \in NoKey..SetupLifetime
    BY <1>1, <2>1, ReqTypes DEF SerialInv, CountsCached
  <2>3. q.entry.attempts = entry.attempts + 1 /\ entry.attempts \in Nat
    BY <1>1, <2>2, AttemptsType DEF Entry
  <2>4. CASE SetAccepts(q.ttl)
    <3>1. cache'["login"] = Stored(q.entry, q.ttl)
      BY <1>1, <1>13, <2>4 DEF IncrementSet
    <3>2. cache'["login"].attempts = entry.attempts + 1
      <4>1. Stored(q.entry, q.ttl).attempts = q.entry.attempts
        BY <2>2, <2>4, StoredType
      <4> QED
        BY <2>3, <3>1, <4>1
    <3>3. reqs'[r].phase = IF entry.attempts + 1 = MaxAttempts THEN "exceeded" ELSE "idle"
      BY <1>1, <1>13, <2>3, <2>4 DEF IncrementSet, Exceeds
    <3>4. entry.attempts < MaxAttempts
      BY <1>8, <2>1, <2>2
    <3>5. reqs'[r].phase # "exceeded" => entry.attempts + 1 < MaxAttempts
      BY <2>3, <3>3, <3>4, LoginAssumption
    <3> QED
      BY <1>6, <3>2, <3>3, <3>5
  <2>5. CASE ~SetAccepts(q.ttl)
    BY <1>1, <1>6, <1>8, <1>13, <2>1, <2>5 DEF IncrementSet
  <2> QED
    BY <2>4, <2>5
<1>14. CASE DropEntry(r) \/ Accept(r) \/ AcceptFails(r)
  <2>1. reqs'[r].phase = "idle" /\ cache'["login"] = None
    BY <1>1, <1>14 DEF DropEntry, Accept, AcceptFails
  <2> QED
    BY <1>6, <2>1
<1> QED
  BY <1>9, <1>10, <1>11, <1>12, <1>13, <1>14

LEMMA ProtocolNext == ProtocolInv /\ Running /\ [Next]_vars => ProtocolInv'
<1> SUFFICES ASSUME ProtocolInv, Running, [Next]_vars PROVE ProtocolInv'
  OBVIOUS
<1>1. SerialInv'
  BY SerialNext DEF ProtocolInv, Running
<1>2. /\ TypeOK
      /\ SerialInv
      /\ sends \in [Sends -> Sending \cup {Idle}]
      /\ reqs \in [Requests -> Confirmation \cup {Idle}]
      /\ cache \in [Stores -> Entry \cup {None}]
      /\ Idle.phase = "idle"
      /\ "login" \in Stores
  BY PhaseOfIdle, LoginStore DEF ProtocolInv, SerialInv, TypeOK
<1>3. MayStart <=> Quiet
  BY DEF MayStart, Running, Serial
<1>4. Quiet /\ cache["login"] # None => cache["login"].attempts < MaxAttempts
  BY <1>2, NotExceeded DEF ProtocolInv, AttemptsLeft
<1>5. ASSUME NEW c \in Clients, NEW id \in Ids, Login2FA(c, id) PROVE ProtocolInv'
  <2> DEFINE Q == [phase |-> "send", store |-> "login", id |-> id, channel |-> tfa,
                   resend |-> FALSE]
             e == Created("login", id, tfa, None)
  <2>1. Quiet /\ UNCHANGED reqs /\ id \notin IdsInUse
    BY <1>3, <1>5 DEF Login2FA
  <2>2. \/ UNCHANGED <<sends, cache>>
        \/ /\ UNCHANGED cache
           /\ \E s \in Sends : sends' = [sends EXCEPT ![s] = Q]
        \/ UNCHANGED sends /\ cache' = [cache EXCEPT !["login"] = e]
    BY <1>5 DEF Login2FA, Initiate, RequestCode
  <2>3. e.attempts = 0
    BY DEF Created
  <2>4. Q.phase = "send" /\ Q.id = id
    OBVIOUS
  <2> HIDE DEF Q, e
  <2>5. \A s \in Sends : sends'[s] = sends[s] \/ sends'[s] = Q
    BY <1>2, <2>2
  <2>6. Quiet'
    BY <2>1, <2>4, <2>5 DEF Quiet
  <2>7. cache'["login"] # None => cache'["login"].attempts < MaxAttempts
    BY <1>2, <1>4, <2>1, <2>2, <2>3, LoginAssumption
  <2>8. AwaitedOnce'
    <3>1. CASE UNCHANGED sends
      BY <3>1 DEF ProtocolInv, AwaitedOnce, Awaits
    <3>2. ASSUME NEW s \in Sends, sends' = [sends EXCEPT ![s] = Q] PROVE AwaitedOnce'
      <4>1. sends'[s] = Q /\ \A x \in Sends : x # s => sends'[x] = sends[x]
        BY <1>2, <3>2
      <4>2. \A x \in Sends : sends[x].phase = "send" => sends[x].id # id
        BY <1>2, <2>1, FreshId
      <4> QED
        BY <2>4, <4>1, <4>2 DEF ProtocolInv, AwaitedOnce, Awaits
    <3> QED
      BY <2>2, <3>1, <3>2
  <2> QED
    BY <1>1, <2>6, <2>7, <2>8, QuietProtocol
<1>6. ASSUME NEW c \in Clients, Resend(c) PROVE ProtocolInv'
  <2> DEFINE k == StoreOf(c)
             Q == [phase |-> "send", store |-> k, id |-> cache[k].id,
                   channel |-> cache[k].channel, resend |-> TRUE]
  <2>1. Quiet /\ UNCHANGED <<reqs, cache>>
    BY <1>3, <1>6 DEF Resend
  <2>2. UNCHANGED sends \/ \E s \in Sends : sends' = [sends EXCEPT ![s] = Q]
    BY <1>6 DEF Resend, RequestCode
  <2>3. Q.phase = "send" /\ Q.resend
    OBVIOUS
  <2> HIDE DEF Q
  <2>4. \A s \in Sends : sends'[s] = sends[s] \/ sends'[s] = Q
    BY <1>2, <2>2
  <2>5. Quiet'
    BY <2>1, <2>3, <2>4 DEF Quiet
  <2>6. \A s \in Sends : Awaits(s)' => Awaits(s) /\ sends'[s].id = sends[s].id
    BY <2>3, <2>4 DEF Awaits
  <2>7. AwaitedOnce'
    BY <2>6, AwaitedFewer DEF ProtocolInv
  <2> QED
    BY <1>1, <1>4, <2>1, <2>5, <2>7, QuietProtocol
<1>7. ASSUME NEW r \in Requests, NEW c \in Clients, NEW right \in BOOLEAN,
             Confirm(r, c, right)
      PROVE  ProtocolInv'
  <2>1. \A x \in Requests : reqs[x] = Idle
    BY <1>3, <1>7 DEF Confirm, Quiet
  <2>2. /\ UNCHANGED <<tfa, cache, cookies, signedIn, sends>>
        /\ \A x \in Requests : x # r => reqs'[x] = Idle
        /\ reqs'[r].phase = "verify" /\ reqs'[r].client = c
    BY <1>2, <1>7, <2>1 DEF Confirm
  <2>3. Of(cookies["login"][c], cache["login"]) /\ c \notin signedIn
    BY <1>7 DEF Confirm, Of, StoreOf
  <2>4. Checked'
    BY <1>2, <2>2, <2>3 DEF Checked
  <2>5. AttemptsLeft'
    BY <1>2, <1>4, <2>1, <2>2 DEF AttemptsLeft, Quiet, Exceeded, ProtocolInv
  <2>6. AwaitedOnce'
    BY <2>2 DEF ProtocolInv, AwaitedOnce, Awaits
  <2> QED
    BY <1>1, <2>4, <2>5, <2>6 DEF ProtocolInv
<1>8. ASSUME Quiet, UNCHANGED <<sends, reqs>>,
             cache'["login"] # None =>
                /\ cache["login"] # None
                /\ cache'["login"].attempts = cache["login"].attempts
      PROVE  ProtocolInv'
  <2>1. Quiet'
    BY <1>8 DEF Quiet
  <2>2. AwaitedOnce'
    BY <1>8 DEF ProtocolInv, AwaitedOnce, Awaits
  <2> QED
    BY <1>1, <1>4, <1>8, <2>1, <2>2, QuietProtocol
<1>9. ASSUME NEW c \in Clients, CompleteLogin(c) \/ \E k \in Stores : CookieExpires(k, c)
      PROVE  ProtocolInv'
  BY <1>3, <1>8, <1>9 DEF CompleteLogin, CookieExpires
<1>10. ASSUME NEW channel \in Channels \cup {None}, Set2FA(channel) PROVE ProtocolInv'
  BY <1>3, <1>8, <1>10 DEF Set2FA
<1>11. CASE Tick
  <2>1. cache'["login"] = Later(cache["login"]) /\ Quiet /\ UNCHANGED <<sends, reqs>>
    BY <1>2, <1>3, <1>11 DEF Tick
  <2> QED
    BY <1>2, <1>8, <2>1, LaterType
<1>12. ASSUME NEW c \in Clients, Logout(c) PROVE ProtocolInv'
  <2>1. /\ UNCHANGED <<tfa, cache, cookies, reqs, sends>>
        /\ signedIn' \subseteq signedIn
    BY <1>12 DEF Logout
  <2>2. Checked'
    BY <2>1 DEF ProtocolInv, Checked
  <2> QED
    BY <1>1, <2>1, <2>2 DEF ProtocolInv, AttemptsLeft, Exceeded, AwaitedOnce, Awaits
<1>13. CASE UNCHANGED vars
  <2>1. UNCHANGED <<tfa, cache, cookies, reqs, sends, signedIn>>
    BY <1>13 DEF vars
  <2>2. Checked'
    BY <2>1 DEF ProtocolInv, Checked
  <2> QED
    BY <1>1, <2>1, <2>2 DEF ProtocolInv, AttemptsLeft, Exceeded, AwaitedOnce, Awaits
<1>14. ~Restart
  BY DEF Restart, Running
<1> QED
  BY <1>1, <1>5, <1>6, <1>7, <1>9, <1>10, <1>11, <1>12, <1>13, <1>14, ProtocolSends,
     ProtocolRequests DEF Next

LEMMA ProtocolInit == Init => ProtocolInv
<1> SUFFICES ASSUME Init PROVE ProtocolInv
  OBVIOUS
<1>1. /\ \A s \in Sends : sends[s].phase = "idle"
      /\ \A r \in Requests : reqs[r].phase = "idle"
      /\ cache["login"] = None
  BY PhaseOfIdle, LoginStore DEF Init
<1> QED
  BY <1>1, SerialInit DEF ProtocolInv, Checked, AttemptsLeft, AwaitedOnce, Awaits

-----------------------------------------------------------------------------
(* The steps of LoginProtocol                                               *)

LEMMA AwaitedIs ==
    ASSUME NEW id
    PROVE  id \in Awaited <=> \E s \in Sends : Awaits(s) /\ sends[s].id = id
BY DEF Awaited

LEMMA AwaitedIsThen ==
    ASSUME NEW id
    PROVE  id \in Awaited' <=> \E s \in Sends : Awaits(s)' /\ sends'[s].id = id
BY DEF Awaited, Awaits

(* Sends that stay, or await nothing before and after.                      *)
LEMMA AwaitedSame ==
    ASSUME \A s \in Sends : sends'[s] = sends[s] \/ (~Awaits(s) /\ ~Awaits(s)')
    PROVE  Awaited' = Awaited
<1>1. \A s \in Sends : sends'[s] = sends[s] => (Awaits(s)' <=> Awaits(s))
  BY DEF Awaits
<1>2. \A id : id \in Awaited' <=> id \in Awaited
  BY <1>1, AwaitedIs, AwaitedIsThen
<1> QED
  BY <1>2

LEMMA PendingSame == UNCHANGED cookies => Pending' = Pending
BY DEF Pending

LEMMA LiveSame ==
    ASSUME UNCHANGED cache, Exceeded' <=> Exceeded
    PROVE  Live' = Live /\ Tries' = Tries
BY DEF Live, Tries, LiveEntry

LEMMA LiveIs ==
    ~Exceeded => /\ Live = IF cache["login"] = None THEN None ELSE cache["login"].id
                 /\ Tries = IF cache["login"] = None THEN 0 ELSE cache["login"].attempts
BY DEF Live, Tries, LiveEntry

LEMMA LiveIsThen ==
    ~Exceeded' =>
        /\ Live' = IF cache'["login"] = None THEN None ELSE cache'["login"].id
        /\ Tries' = IF cache'["login"] = None THEN 0 ELSE cache'["login"].attempts
BY DEF Live, Tries, LiveEntry

(* A step without a trace.                                                  *)
LEMMA Stutter ==
    ASSUME UNCHANGED <<tfa, cookies, signedIn>>, Awaited' = Awaited, Live' = Live,
           Tries' = Tries
    PROVE  UNCHANGED LP!vars
BY PendingSame DEF LP!vars

(* The process ends, and with it the codes on their way.                    *)
LEMMA EndStep ==
    ASSUME ProcessEnds, ~Exceeded, UNCHANGED <<tfa, cache, cookies, signedIn>>
    PROVE  LP!Next
<1>1. \A s \in Sends : ~Awaits(s)'
  BY PhaseOfIdle DEF ProcessEnds, Awaits
<1>2. \A id : id \notin Awaited'
  BY <1>1, AwaitedIsThen
<1>3. Awaited' \in SUBSET Awaited
  BY <1>2
<1>4. ~Exceeded'
  BY PhaseOfIdle DEF ProcessEnds, Exceeded
<1>5. Live' = Live /\ Tries' = Tries
  BY <1>4, LiveSame
<1>6. LP!LoseCodes
  BY <1>3, <1>5, PendingSame DEF LP!LoseCodes
<1> QED
  BY <1>6 DEF LP!Next

(* The entry that is cached when a code was sent.                           *)
LEMMA SentEntry ==
    ASSUME NEW k \in Stores, NEW id \in Ids, NEW channel \in OtpVerification
    PROVE  /\ Created(k, id, VerificatorChannel(channel), id) \in Entry
           /\ Created(k, id, VerificatorChannel(channel), id).id = id
           /\ Created(k, id, VerificatorChannel(channel), id).attempts = 0
<1>1. VerificatorChannel(channel) \in OTPChannel \cup {None}
  BY DEF VerificatorChannel, OtpVerification, OTPChannel
<1>2. id \in Ids \cup {None}
  OBVIOUS
<1> QED
  BY <1>1, <1>2, CreatedType

LEMMA SendSteps ==
    ASSUME ProtocolInv, Running, NEW s \in Sends,
           SendCode(s) \/ SendFails(s) \/ ChangeGet(s) \/ ChangeTtl(s) \/ ChangeSet(s)
    PROVE  LP!Next \/ UNCHANGED LP!vars
<1> DEFINE q == sends[s]
<1>1. /\ TypeOK
      /\ sends \in [Sends -> Sending \cup {Idle}]
      /\ cache \in [Stores -> Entry \cup {None}]
      /\ Idle.phase = "idle"
      /\ SerialInv
      /\ "login" \in Stores
  BY PhaseOfIdle, LoginStore DEF ProtocolInv, SerialInv, TypeOK
<1>2. \A r \in Requests : reqs[r].phase = "idle"
  <2>1. CASE SendCode(s) \/ SendFails(s)
    BY <1>1, <2>1 DEF SendCode, SendFails, MayStart, Running, Serial, Quiet
  <2>2. CASE ChangeGet(s) \/ ChangeTtl(s) \/ ChangeSet(s)
    BY <1>1, <2>2 DEF SerialInv, OneAtATime, Between, ChangeGet, ChangeTtl, ChangeSet
  <2> QED
    BY <2>1, <2>2
<1>3. ~Exceeded /\ (UNCHANGED reqs => ~Exceeded')
  BY <1>2 DEF Exceeded
<1>4. ASSUME UNCHANGED <<tfa, cookies, signedIn, reqs>>,
             \A x \in Sends : x # s => sends'[x] = sends[x],
             ~Awaits(s), ~Awaits(s)',
             cache'["login"] = cache["login"]
               \/ (/\ cache["login"] # None /\ cache'["login"] # None
                   /\ cache'["login"].id = cache["login"].id
                   /\ cache'["login"].attempts = cache["login"].attempts)
      PROVE  UNCHANGED LP!vars
  <2>1. Awaited' = Awaited
    BY <1>4, AwaitedSame
  <2>2. Live' = Live /\ Tries' = Tries
    BY <1>3, <1>4, LiveIs, LiveIsThen
  <2> QED
    BY <1>4, <2>1, <2>2, Stutter
<1>5. CASE SendCode(s)
  <2>1. /\ q.phase = "send"
        /\ q.store \in Stores /\ q.id \in Ids /\ q.channel \in OtpVerification
        /\ UNCHANGED <<tfa, cookies, signedIn, reqs>>
        /\ \A x \in Sends : x # s => sends'[x] = sends[x]
        /\ sends'[s].phase \in {"idle", "change"}
    BY <1>1, <1>5, SendTypes DEF SendCode
  <2>2. ~Awaits(s)'
    BY <2>1 DEF Awaits
  <2>3. CASE ~Awaits(s)
    <3>1. cache'["login"] = cache["login"]
      BY <1>1, <1>5, <2>1, <2>3 DEF SendCode, Awaits
    <3> QED
      BY <1>4, <2>1, <2>2, <2>3, <3>1
  <2>4. CASE Awaits(s)
    <3> DEFINE e == Created(q.store, q.id, VerificatorChannel(q.channel), q.id)
    <3>1. cache'["login"] = e
      BY <1>1, <1>5, <2>4 DEF SendCode, Awaits
    <3>2. e \in Entry /\ e.id = q.id /\ e.attempts = 0
      BY <2>1, SentEntry
    <3> HIDE DEF e
    <3>3. Live' = q.id /\ Tries' = 0
      BY <1>3, <2>1, <3>1, <3>2, LiveIsThen, NoneAssumption
    <3>4. q.id \in Awaited
      BY <2>4, AwaitedIs
    <3>5. Awaited' = Awaited \ {q.id}
      <4>1. \A x \in Sends : x # s => (Awaits(x)' <=> Awaits(x)) /\ sends'[x].id = sends[x].id
        BY <2>1 DEF Awaits
      <4>2. \A x \in Sends : x # s /\ Awaits(x) => sends[x].id # q.id
        BY <2>4 DEF ProtocolInv, AwaitedOnce
      <4>3. \A id : id \in Awaited' <=> id \in Awaited \ {q.id}
        BY <2>2, <4>1, <4>2, AwaitedIs, AwaitedIsThen
      <4> QED
        BY <4>3
    <3>6. LP!GoLive(q.id)
      BY <2>1, <3>3, <3>4, <3>5, PendingSame DEF LP!GoLive
    <3> QED
      BY <2>1, <3>6 DEF LP!Next
  <2> QED
    BY <2>3, <2>4
<1>6. CASE SendFails(s)
  BY <1>3, <1>6, EndStep DEF SendFails
<1>7. CASE ChangeGet(s)
  <2>1. CASE cache[q.store] = None
    BY <1>3, <1>7, <2>1, EndStep DEF ChangeGet
  <2>2. CASE cache[q.store] # None
    <3>1. /\ UNCHANGED <<tfa, cookies, signedIn, reqs, cache>>
          /\ \A x \in Sends : x # s => sends'[x] = sends[x]
          /\ sends'[s].phase = "ttl" /\ q.phase = "change"
      BY <1>1, <1>7, <2>2 DEF ChangeGet
    <3> QED
      BY <1>4, <3>1 DEF Awaits
  <2> QED
    BY <2>1, <2>2
<1>8. CASE ChangeTtl(s)
  <2>1. /\ UNCHANGED <<tfa, cookies, signedIn, reqs, cache>>
        /\ \A x \in Sends : x # s => sends'[x] = sends[x]
        /\ sends'[s].phase = "set" /\ q.phase = "ttl"
    BY <1>1, <1>8 DEF ChangeTtl
  <2> QED
    BY <1>4, <2>1 DEF Awaits
<1>9. CASE ChangeSet(s)
  <2>1. q.phase = "set"
    BY <1>9 DEF ChangeSet
  <2>2. CASE SetAccepts(q.ttl)
    <3> DEFINE e == Stored(q.entry, q.ttl)
    <3>1. /\ UNCHANGED <<tfa, cookies, signedIn, reqs>>
          /\ \A x \in Sends : x # s => sends'[x] = sends[x]
          /\ sends'[s].phase = "idle"
          /\ cache' = [cache EXCEPT ![q.store] = e]
      BY <1>1, <1>9, <2>2 DEF ChangeSet
    <3>2. e \in Entry /\ e.id = q.entry.id /\ e.attempts = q.entry.attempts
      BY <1>1, <2>1, <2>2, SendTypes, StoredType
    <3>3. /\ cache[q.store] # None
          /\ q.entry.id = cache[q.store].id
          /\ q.entry.attempts = cache[q.store].attempts
      BY <1>1, <2>1 DEF SerialInv, ChangesCached
    <3>4. e # None
      BY <3>2, NoneAssumption
    <3> HIDE DEF e
    <3>5. cache'["login"] = cache["login"] \/ (q.store = "login" /\ cache'["login"] = e)
      BY <1>1, <3>1
    <3> QED
      BY <1>4, <2>1, <3>1, <3>2, <3>3, <3>4, <3>5 DEF Awaits
  <2>3. CASE ~SetAccepts(q.ttl)
    BY <1>3, <1>9, <2>3, EndStep DEF ChangeSet
  <2> QED
    BY <2>2, <2>3
<1> QED
  BY <1>5, <1>6, <1>7, <1>8, <1>9

LEMMA BeginStep ==
    ASSUME ProtocolInv, Running, NEW c \in Clients, NEW id \in Ids, Login2FA(c, id)
    PROVE  LP!Begin(c, id)
<1> DEFINE cookie == [id |-> id, channel |-> tfa]
           Q == [phase |-> "send", store |-> "login", id |-> id, channel |-> tfa,
                 resend |-> FALSE]
           e == Created("login", id, tfa, None)
<1>1. /\ TypeOK
      /\ sends \in [Sends -> Sending \cup {Idle}]
      /\ cache \in [Stores -> Entry \cup {None}]
      /\ cookies \in [Stores -> [Clients -> Cookie \cup {None}]]
      /\ "login" \in Stores
      /\ id # None
  BY LoginStore, StoreAssumption DEF ProtocolInv, SerialInv, TypeOK
<1>2. /\ Quiet /\ id \notin IdsInUse /\ tfa # None
      /\ UNCHANGED <<tfa, signedIn, reqs>>
      /\ cookies' = [cookies EXCEPT !["login"][c] = cookie]
  BY DEF Login2FA, MayStart, Running, Serial
<1>3. ~Exceeded /\ ~Exceeded'
  BY <1>1, <1>2, NotExceeded DEF Exceeded
<1>4. tfa \in OTPChannel
  BY <1>1, <1>2, LoginAssumption DEF TypeOK
<1>5. cookie # None /\ cookie.id = id
  <2>1. cookie \in Cookie
    BY <1>4 DEF Cookie
  <2> QED
    BY <2>1, NoneAssumption
<1>6. e # None /\ e.id = id /\ e.attempts = 0
  BY <1>1, <1>4, CreatedType, NoneAssumption
<1>8. Q.phase = "send" /\ Q.store = "login" /\ ~Q.resend /\ Q.id = id
  OBVIOUS
<1>9. \/ UNCHANGED <<sends, cache>>
      \/ /\ UNCHANGED cache
         /\ \E s \in Sends : sends[s] = Idle /\ sends' = [sends EXCEPT ![s] = Q]
      \/ UNCHANGED sends /\ cache' = [cache EXCEPT !["login"] = e]
  BY DEF Login2FA, Initiate, RequestCode
<1> HIDE DEF cookie, Q, e
<1>10. Pending' = [Pending EXCEPT ![c] = id]
  <2>1. \A d \in Clients :
           cookies'["login"][d] = IF d = c THEN cookie ELSE cookies["login"][d]
    BY <1>1, <1>2
  <2> QED
    BY <1>5, <2>1 DEF Pending
<1>11. id \notin Awaited \cup {Live} \cup {Pending[d] : d \in Clients}
  <2>1. id \notin Awaited
    BY <1>1, <1>2, FreshId, AwaitedIs DEF Awaits
  <2>2. id # Live
    BY <1>1, <1>2, <1>3, FreshId, LiveIs
  <2>3. \A d \in Clients : Pending[d] # id
    BY <1>1, <1>2, FreshId DEF Pending
  <2> QED
    BY <2>1, <2>2, <2>3
<1>12. \/ Awaited' = Awaited \cup {id} /\ UNCHANGED <<Live, Tries>>
       \/ UNCHANGED <<Awaited, Live, Tries>>
       \/ Live' = id /\ Tries' = 0 /\ UNCHANGED Awaited
  <2>1. CASE UNCHANGED <<sends, cache>>
    BY <1>3, <2>1, AwaitedSame, LiveSame
  <2>2. ASSUME UNCHANGED cache, NEW s \in Sends, sends[s] = Idle,
               sends' = [sends EXCEPT ![s] = Q]
        PROVE  Awaited' = Awaited \cup {id} /\ UNCHANGED <<Live, Tries>>
    <3>1. sends'[s] = Q /\ \A x \in Sends : x # s => sends'[x] = sends[x]
      BY <1>1, <2>2
    <3>2. /\ Awaits(s)' /\ sends'[s].id = id /\ ~Awaits(s)
          /\ \A x \in Sends : x # s => (Awaits(x)' <=> Awaits(x)) /\ sends'[x].id = sends[x].id
      BY <1>8, <2>2, <3>1, PhaseOfIdle DEF Awaits
    <3>3. \A x : x \in Awaited' <=> x \in Awaited \cup {id}
      BY <3>2, AwaitedIs, AwaitedIsThen
    <3> QED
      BY <1>3, <2>2, <3>3, LiveSame
  <2>3. CASE UNCHANGED sends /\ cache' = [cache EXCEPT !["login"] = e]
    <3>1. cache'["login"] = e
      BY <1>1, <2>3
    <3> QED
      BY <1>3, <1>6, <2>3, <3>1, LiveIsThen, AwaitedSame
  <2> QED
    BY <1>9, <2>1, <2>2, <2>3
<1> QED
  BY <1>2, <1>10, <1>11, <1>12 DEF LP!Begin

LEMMA ConfirmationSteps ==
    ASSUME ProtocolInv, NEW r \in Requests,
           \/ Verify(r) \/ VerifyFails(r) \/ IncrementGet(r) \/ IncrementTtl(r)
           \/ IncrementSet(r) \/ DropEntry(r) \/ Accept(r) \/ AcceptFails(r)
    PROVE  LP!Next \/ UNCHANGED LP!vars
<1> DEFINE q == reqs[r]
           entry == cache["login"]
           c == q.client
<1>1. /\ TypeOK
      /\ reqs \in [Requests -> Confirmation \cup {Idle}]
      /\ cache \in [Stores -> Entry \cup {None}]
      /\ cookies \in [Stores -> [Clients -> Cookie \cup {None}]]
      /\ Idle.phase = "idle"
      /\ SerialInv
      /\ "login" \in Stores
  BY PhaseOfIdle, LoginStore DEF ProtocolInv, SerialInv, TypeOK
<1>2. q # Idle /\ UNCHANGED sends
  BY <1>1 DEF Verify, VerifyFails, IncrementGet, IncrementTtl, IncrementSet,
              DropEntry, Accept, AcceptFails
<1>3. Awaited' = Awaited
  BY <1>2, AwaitedSame
<1>4. /\ \A x \in Requests : x # r => reqs[x].phase = "idle"
      /\ \A x \in Requests : x # r => reqs'[x] = reqs[x]
  BY <1>1, <1>2 DEF SerialInv, OneAtATime, Verify, VerifyFails, IncrementGet,
     IncrementTtl, IncrementSet, DropEntry, Accept, AcceptFails
<1>5. /\ Exceeded <=> q.phase = "exceeded"
      /\ Exceeded' <=> reqs'[r].phase = "exceeded"
  BY <1>4 DEF Exceeded
<1>6. \A x : x \in Entry => x # None
  BY NoneAssumption
<1>7. CASE Verify(r) \/ VerifyFails(r) \/ IncrementGet(r) \/ IncrementTtl(r)
  <2>1. /\ UNCHANGED <<tfa, cookies, signedIn, cache>>
        /\ q.phase # "exceeded" /\ reqs'[r].phase # "exceeded"
    BY <1>1, <1>7 DEF Verify, VerifyFails, IncrementGet, IncrementTtl
  <2>2. Live' = Live /\ Tries' = Tries
    BY <1>5, <2>1, LiveSame
  <2> QED
    BY <1>3, <2>1, <2>2, Stutter
<1>8. CASE IncrementSet(r)
  <2>1. /\ UNCHANGED <<tfa, cookies, signedIn>>
        /\ q.phase = "set"
    BY <1>8 DEF IncrementSet
  <2>2. /\ q.entry \in Entry /\ q.ttl \in NoKey..SetupLifetime
        /\ entry # None /\ q.entry = [entry EXCEPT !.attempts = @ + 1]
    BY <1>1, <2>1, ReqTypes DEF SerialInv, CountsCached
  <2>3. q.entry.attempts = entry.attempts + 1 /\ q.entry.id = entry.id
    BY <1>1, <2>2, AttemptsType
  <2>4. Live = entry.id /\ Tries = entry.attempts
    BY <1>5, <2>1, <2>2, LiveIs
  <2>5. CASE SetAccepts(q.ttl)
    <3> DEFINE e == Stored(q.entry, q.ttl)
    <3>1. e \in Entry /\ e.id = entry.id /\ e.attempts = entry.attempts + 1
      <4>1. e \in Entry /\ e.id = q.entry.id /\ e.attempts = q.entry.attempts
        BY <2>2, <2>5, StoredType
      <4> QED
        BY <2>3, <4>1
    <3>2. cache'["login"] = e
      BY <1>1, <1>8, <2>5 DEF IncrementSet
    <3> HIDE DEF e
    <3>3. reqs'[r].phase = IF entry.attempts + 1 = MaxAttempts THEN "exceeded" ELSE "idle"
      BY <1>1, <1>8, <2>3, <2>5 DEF IncrementSet, Exceeds
    <3>4. entry.attempts < MaxAttempts /\ entry.attempts \in Nat
      BY <1>1, <1>5, <2>1, <2>2 DEF ProtocolInv, AttemptsLeft, Entry
    <3>5. Live # None /\ \E d \in Clients : Pending[d] = Live
      <4>1. PICK d \in Clients : Of(cookies["login"][d], entry)
        BY <2>1 DEF ProtocolInv, Checked
      <4>2. Pending[d] = entry.id
        BY <4>1 DEF Of, Pending
      <4>3. entry.id # None
        BY <1>1, <2>2, StoreAssumption DEF Entry
      <4> QED
        BY <2>4, <4>2, <4>3
    <3>6. \/ Tries + 1 < MaxAttempts /\ Tries' = Tries + 1 /\ UNCHANGED Live
          \/ Tries + 1 >= MaxAttempts /\ Tries' = 0 /\ Live' = None
      <4>1. CASE entry.attempts + 1 = MaxAttempts
        <5>1. Exceeded'
          BY <1>5, <3>3, <4>1
        <5>2. Live' = None /\ Tries' = 0
          BY <5>1 DEF Live, Tries, LiveEntry
        <5> QED
          BY <2>4, <3>4, <4>1, <5>2, LoginAssumption
      <4>2. CASE entry.attempts + 1 # MaxAttempts
        <5>1. ~Exceeded'
          BY <1>5, <3>3, <4>2
        <5>2. Live' = entry.id /\ Tries' = entry.attempts + 1
          BY <1>6, <3>1, <3>2, <5>1, LiveIsThen
        <5> QED
          BY <2>4, <3>4, <4>2, <5>2, LoginAssumption
      <4> QED
        BY <4>1, <4>2
    <3>7. LP!Mistype
      BY <1>3, <2>1, <3>5, <3>6, PendingSame DEF LP!Mistype
    <3> QED
      BY <3>7 DEF LP!Next
  <2>6. CASE ~SetAccepts(q.ttl)
    <3>1. UNCHANGED cache /\ reqs'[r].phase = "idle"
      BY <1>1, <1>8, <2>6 DEF IncrementSet
    <3>2. Live' = Live /\ Tries' = Tries
      BY <1>5, <2>1, <3>1, LiveSame
    <3> QED
      BY <1>3, <2>1, <3>2, Stutter
  <2> QED
    BY <2>5, <2>6
<1>9. CASE DropEntry(r) \/ AcceptFails(r)
  <2>1. /\ UNCHANGED <<tfa, cookies, signedIn>>
        /\ cache'["login"] = None /\ reqs'[r].phase = "idle"
    BY <1>1, <1>9 DEF DropEntry, AcceptFails
  <2>2. Live' = None /\ Tries' = 0
    BY <1>5, <2>1, LiveIsThen
  <2>3. LP!Expire
    BY <1>3, <2>1, <2>2, PendingSame DEF LP!Expire
  <2> QED
    BY <2>3 DEF LP!Next
<1>10. CASE Accept(r)
  <2>1. /\ q.phase = "accept"
        /\ cache'["login"] = None /\ reqs'[r].phase = "idle"
        /\ tfa' = q.tfa
        /\ signedIn' = signedIn \cup {c}
        /\ cookies' = [cookies EXCEPT !["login"][c] = None]
    BY <1>1, <1>10 DEF Accept
  <2>2. /\ c \in Clients /\ q.tfa \in Channels
        /\ Of(cookies["login"][c], entry) /\ c \notin signedIn
        /\ q.tfa = tfa
    BY <1>1, <2>1, ReqTypes DEF ProtocolInv, Checked
  <2>3. tfa # None
    BY <2>2, LoginAssumption
  <2>4. Live = entry.id /\ entry.id # None /\ Pending[c] = entry.id
    <3>1. entry # None /\ cookies["login"][c] # None /\ cookies["login"][c].id = entry.id
      BY <2>2 DEF Of
    <3>2. Live = entry.id
      BY <1>5, <2>1, <3>1, LiveIs
    <3>3. entry.id # None
      BY <1>1, <3>1, StoreAssumption DEF Entry
    <3> QED
      BY <2>2, <3>1, <3>2, <3>3 DEF Pending
  <2>5. Live' = None /\ Tries' = 0
    BY <1>5, <2>1, LiveIsThen
  <2>6. Pending' = [Pending EXCEPT ![c] = None]
    <3>1. \A d \in Clients :
             cookies'["login"][d] = IF d = c THEN None ELSE cookies["login"][d]
      BY <1>1, <2>1, <2>2
    <3> QED
      BY <2>2, <3>1 DEF Pending
  <2>7. LP!Confirm(c)
    BY <1>3, <2>1, <2>2, <2>3, <2>4, <2>5, <2>6 DEF LP!Confirm
  <2> QED
    BY <2>2, <2>7 DEF LP!Next
<1> QED
  BY <1>7, <1>8, <1>9, <1>10

LEMMA ProtocolStep ==
    ASSUME ProtocolInv, Running, [Next]_vars
    PROVE  LP!Next \/ UNCHANGED LP!vars
<1>1. /\ TypeOK
      /\ sends \in [Sends -> Sending \cup {Idle}]
      /\ reqs \in [Requests -> Confirmation \cup {Idle}]
      /\ cache \in [Stores -> Entry \cup {None}]
      /\ cookies \in [Stores -> [Clients -> Cookie \cup {None}]]
      /\ "login" \in Stores
  BY LoginStore DEF ProtocolInv, SerialInv, TypeOK
<1>2. MayStart <=> Quiet
  BY DEF MayStart, Running, Serial
<1>3. Quiet /\ UNCHANGED reqs => ~Exceeded /\ ~Exceeded'
  BY <1>1, NotExceeded DEF Exceeded
<1>4. UNCHANGED sends => Awaited' = Awaited
  BY AwaitedSame
<1>5. ASSUME NEW c \in Clients, NEW id \in Ids, Login2FA(c, id) PROVE LP!Next
  BY <1>5, BeginStep DEF LP!Next
<1>6. ASSUME NEW c \in Clients, CompleteLogin(c) PROVE LP!Next
  <2>1. Live' = Live /\ Tries' = Tries /\ Awaited' = Awaited /\ Pending' = Pending
    BY <1>4, <1>6, LiveSame, PendingSame DEF CompleteLogin, Exceeded
  <2>2. LP!Enter(c)
    BY <1>6, <2>1 DEF CompleteLogin, LP!Enter
  <2> QED
    BY <2>2 DEF LP!Next
<1>7. ASSUME NEW c \in Clients, Resend(c) PROVE UNCHANGED LP!vars
  <2> DEFINE k == StoreOf(c)
             Q == [phase |-> "send", store |-> k, id |-> cache[k].id,
                   channel |-> cache[k].channel, resend |-> TRUE]
  <2>1. UNCHANGED <<tfa, cache, cookies, signedIn, reqs>>
    BY <1>7 DEF Resend
  <2>2. \/ UNCHANGED sends
        \/ \E s \in Sends : sends[s] = Idle /\ sends' = [sends EXCEPT ![s] = Q]
    BY <1>7 DEF Resend, RequestCode
  <2>3. Q.resend
    OBVIOUS
  <2> HIDE DEF Q
  <2>4. \A s \in Sends : sends'[s] = sends[s] \/ (~Awaits(s) /\ ~Awaits(s)')
    BY <1>1, <2>2, <2>3, PhaseOfIdle DEF Awaits
  <2>5. Live' = Live /\ Tries' = Tries
    BY <2>1, LiveSame DEF Exceeded
  <2> QED
    BY <2>1, <2>4, <2>5, AwaitedSame, Stutter
<1>8. ASSUME NEW c \in Clients, Logout(c) PROVE LP!Next
  <2>1. Live' = Live /\ Tries' = Tries /\ Awaited' = Awaited /\ Pending' = Pending
    BY <1>4, <1>8, LiveSame, PendingSame DEF Logout, Exceeded
  <2>2. LP!Leave(c)
    BY <1>8, <2>1 DEF Logout, LP!Leave
  <2> QED
    BY <2>2 DEF LP!Next
<1>9. ASSUME NEW c \in Clients, NEW k \in Stores, CookieExpires(k, c)
      PROVE  LP!Next \/ UNCHANGED LP!vars
  <2>1. /\ UNCHANGED <<tfa, cache, sends, signedIn, reqs>>
        /\ cookies' = [cookies EXCEPT ![k][c] = None]
    BY <1>9 DEF CookieExpires
  <2>2. Live' = Live /\ Tries' = Tries /\ Awaited' = Awaited
    BY <1>4, <2>1, LiveSame DEF Exceeded
  <2>3. CASE k = "login"
    <3>1. \A d \in Clients :
             cookies'["login"][d] = IF d = c THEN None ELSE cookies["login"][d]
      BY <1>1, <2>1, <2>3
    <3>2. Pending' = [Pending EXCEPT ![c] = None]
      BY <3>1 DEF Pending
    <3>3. LP!GiveUp(c)
      BY <2>1, <2>2, <3>2 DEF LP!GiveUp
    <3> QED
      BY <3>3 DEF LP!Next
  <2>4. CASE k # "login"
    <3>1. cookies'["login"] = cookies["login"]
      BY <1>1, <2>1, <2>4
    <3>2. Pending' = Pending
      BY <3>1 DEF Pending
    <3> QED
      BY <2>1, <2>2, <3>2 DEF LP!vars
  <2> QED
    BY <2>3, <2>4
<1>10. ASSUME NEW r \in Requests, NEW c \in Clients, NEW right \in BOOLEAN,
              Confirm(r, c, right)
       PROVE  UNCHANGED LP!vars
  <2>1. /\ UNCHANGED <<tfa, cache, cookies, signedIn, sends>>
        /\ \A x \in Requests : reqs'[x] = reqs[x]
                                 \/ (reqs[x] = Idle /\ reqs'[x].phase = "verify")
    BY <1>1, <1>10 DEF Confirm
  <2>2. Exceeded' <=> Exceeded
    BY <2>1, PhaseOfIdle DEF Exceeded
  <2> QED
    BY <1>4, <2>1, <2>2, LiveSame, Stutter
<1>11. ASSUME NEW channel \in Channels \cup {None}, Set2FA(channel) PROVE LP!Next
  <2>1. Live' = Live /\ Tries' = Tries /\ Awaited' = Awaited /\ Pending' = Pending
    BY <1>4, <1>11, LiveSame, PendingSame DEF Set2FA, Exceeded
  <2>2. (tfa # None)' \in BOOLEAN
    OBVIOUS
  <2>3. LP!Switch
    BY <1>11, <2>1, <2>2 DEF Set2FA, LP!Switch
  <2> QED
    BY <2>3 DEF LP!Next
<1>12. CASE Tick
  <2>1. /\ Quiet /\ UNCHANGED <<tfa, sends, cookies, signedIn, reqs>>
        /\ cache'["login"] = Later(cache["login"])
    BY <1>1, <1>2, <1>12 DEF Tick
  <2>2. ~Exceeded /\ ~Exceeded'
    BY <1>3, <2>1
  <2>3. CASE cache'["login"] = None
    <3>1. Live' = None /\ Tries' = 0
      BY <2>2, <2>3, LiveIsThen
    <3>2. LP!Expire
      BY <1>4, <2>1, <3>1, PendingSame DEF LP!Expire
    <3> QED
      BY <3>2 DEF LP!Next
  <2>4. CASE cache'["login"] # None
    <3>1. /\ cache["login"] # None
          /\ cache'["login"].id = cache["login"].id
          /\ cache'["login"].attempts = cache["login"].attempts
      BY <1>1, <2>1, <2>4, LaterType
    <3>2. Live' = Live /\ Tries' = Tries
      BY <2>2, <2>4, <3>1, LiveIs, LiveIsThen
    <3> QED
      BY <1>4, <2>1, <3>2, Stutter
  <2> QED
    BY <2>3, <2>4
<1>13. CASE UNCHANGED vars
  <2>1. UNCHANGED <<tfa, cache, cookies, signedIn, reqs, sends>>
    BY <1>13 DEF vars
  <2>2. Live' = Live /\ Tries' = Tries
    BY <2>1, LiveSame DEF Exceeded
  <2> QED
    BY <1>4, <2>1, <2>2, Stutter
<1>14. ~Restart
  BY DEF Restart, Running
<1> QED
  BY <1>5, <1>6, <1>7, <1>8, <1>9, <1>10, <1>11, <1>12, <1>13, <1>14, SendSteps,
     ConfirmationSteps DEF Next

LEMMA ProtocolStart == Init => LP!Init
<1> SUFFICES ASSUME Init PROVE LP!Init
  OBVIOUS
<1>1. /\ tfa # None
      /\ cache["login"] = None
      /\ \A s \in Sends : sends[s].phase = "idle"
      /\ \A r \in Requests : reqs[r].phase = "idle"
      /\ \A c \in Clients : cookies["login"][c] = None
      /\ signedIn = {}
  BY LoginAssumption, PhaseOfIdle, LoginStore DEF Init
<1>2. Pending = [c \in Clients |-> None]
  BY <1>1 DEF Pending
<1>3. Awaited = {}
  <2>1. \A id : id \notin Awaited
    BY <1>1, AwaitedIs DEF Awaits
  <2> QED
    BY <2>1
<1>4. Live = None /\ Tries = 0
  BY <1>1, LiveIs DEF Exceeded
<1> QED
  BY <1>1, <1>2, <1>3, <1>4 DEF LP!Init

(* While handlers do not overlap and the server is not restarted, every     *)
(* step of cookies, entries, throttle and sends is one of the protocol or   *)
(* leaves no trace in it: only the client of the live login, without tokens *)
(* so far, is signed in by a code, and no login lives twice.                *)
THEOREM LoginImplementsProtocol == Running /\ Spec => ImplementsLoginProtocol
<1> SUFFICES ASSUME Running PROVE Spec => LP!Spec
  BY DEF ImplementsLoginProtocol
<1>1. Init => ProtocolInv /\ LP!Init
  BY ProtocolInit, ProtocolStart
<1>2. ProtocolInv /\ [Next]_vars => ProtocolInv'
  BY ProtocolNext
<1>3. ProtocolInv /\ [Next]_vars => [LP!Next]_(LP!vars)
  BY ProtocolStep
<1> QED
  BY <1>1, <1>2, <1>3, PTL DEF Spec, LP!Spec
=============================================================================
