---------------------------- MODULE SetupProofs -----------------------------
(***************************************************************************)
(* Theorems about SetupVerification: what is proved of the logins alone    *)
(* holds beside setups, and an owner with one browser confirms no setup    *)
(* that is not needed.                                                     *)
(***************************************************************************)
EXTENDS SetupVerification, LoginProtocolProofs

(* The steps SetupVerification adds.                                        *)
SetupStep ==
    \/ \E c \in Clients :
        \/ \E channel \in Channels, id \in Ids : Setup(c, channel, id)
        \/ \E r \in Requests : ConfirmRegistration(r, c)
    \/ \E r \in Requests :
        \/ \E setAsDefault2fa \in BOOLEAN : Register(r, setAsDefault2fa)
        \/ RegisterFails(r)
    \/ \E channel \in Channels : RemoveVerification(channel)

LEMMA SetupSteps ==
    ASSUME [SetupNext]_setupVars
    PROVE  SetupStep \/ ([Next]_vars /\ UNCHANGED verified)
<1>1. CASE SetupNext
  BY <1>1 DEF SetupNext, SetupStep, LoginNext
<1>2. CASE UNCHANGED setupVars
  BY <1>2 DEF setupVars, vars
<1> QED
  BY <1>1, <1>2

LEMMA SetupStore == "setup" \in Stores /\ "login" \in Stores
BY DEF Stores

-----------------------------------------------------------------------------
(* Type correctness                                                         *)

SetupCookies ==
    \A c \in Clients :
        cookies["setup"][c] # None => cookies["setup"][c].channel \in Channels
SetupTypes == SetupTypeOK /\ SetupCookies

LEMMA RegisterTypes ==
    ASSUME TypeOK, NEW r \in Requests, reqs[r].phase = "register"
    PROVE  /\ reqs[r].client \in Clients
           /\ reqs[r].channel \in Channels
           /\ reqs[r].tfa \in Channels \cup {None}
BY DEF TypeOK, Confirmation, Idle

(* Nothing but a setup gives a client a setup cookie.                       *)
LEMMA CookiesKept ==
    ASSUME TypeOK, [Next]_vars
    PROVE  \A c \in Clients : \/ cookies'["setup"][c] = cookies["setup"][c]
                              \/ cookies'["setup"][c] = None
<1>1. cookies \in [Stores -> [Clients -> Cookie \cup {None}]]
  BY DEF TypeOK
<1>2. ASSUME UNCHANGED cookies
      PROVE  \A c \in Clients : cookies'["setup"][c] = cookies["setup"][c]
  BY <1>2
<1>3. ASSUME NEW d \in Clients, NEW x, cookies' = [cookies EXCEPT !["login"][d] = x]
      PROVE  cookies'["setup"] = cookies["setup"]
  BY <1>1, <1>3, SetupStore
<1>4. ASSUME NEW d \in Clients, NEW id \in Ids, Login2FA(d, id)
      PROVE  cookies'["setup"] = cookies["setup"]
  BY <1>3, <1>4 DEF Login2FA
<1>5. ASSUME NEW d \in Clients, NEW k \in Stores, CookieExpires(k, d), NEW c \in Clients
      PROVE  cookies'["setup"][c] = cookies["setup"][c] \/ cookies'["setup"][c] = None
  BY <1>1, <1>5, SetupStore DEF CookieExpires
<1>6. ASSUME NEW r \in Requests, Accept(r)
      PROVE  cookies'["setup"] = cookies["setup"]
  <2>1. reqs[r].client \in Clients
    BY <1>6, ReqTypes DEF Accept
  <2> QED
    BY <1>3, <1>6, <2>1 DEF Accept
<1>7. \/ \E d \in Clients, id \in Ids : Login2FA(d, id)
      \/ \E d \in Clients, k \in Stores : CookieExpires(k, d)
      \/ \E r \in Requests : Accept(r)
      \/ UNCHANGED cookies
  BY DEF Next, vars, SendCode, SendFails, ChangeGet, ChangeTtl, ChangeSet, CompleteLogin,
         Resend, Logout, Confirm, Verify, VerifyFails, IncrementGet, IncrementTtl,
         IncrementSet, DropEntry, AcceptFails, Set2FA, Tick, Restart
<1> QED
  BY <1>2, <1>4, <1>5, <1>6, <1>7

LEMMA SetupStepTypes ==
    ASSUME SetupTypes, SetupStep
    PROVE  SetupTypes'
<1>1. /\ TypeOK /\ SetupCookies /\ verified \subseteq Channels
      /\ sends \in [Sends -> Sending \cup {Idle}]
      /\ reqs \in [Requests -> Confirmation \cup {Idle}]
      /\ cache \in [Stores -> Entry \cup {None}]
      /\ cookies \in [Stores -> [Clients -> Cookie \cup {None}]]
      /\ tfa \in Channels \cup {None}
  BY DEF SetupTypes, SetupTypeOK, TypeOK
<1>2. ASSUME NEW c \in Clients, NEW channel \in Channels, NEW id \in Ids,
             Setup(c, channel, id)
      PROVE  SetupTypes'
  <2> DEFINE cookie == [id |-> id, channel |-> channel]
  <2>1. channel \in OTPChannel
    BY LoginAssumption
  <2>2. cookie \in Cookie /\ cookie.channel = channel
    BY <2>1 DEF Cookie
  <2>3. /\ cookies' = [cookies EXCEPT !["setup"][c] = cookie]
        /\ Initiate("setup", id, channel)
        /\ UNCHANGED <<tfa, signedIn, reqs, wrong, verified>>
    BY <1>2 DEF Setup
  <2> HIDE DEF cookie
  <2>4. /\ cookies' \in [Stores -> [Clients -> Cookie \cup {None}]]
        /\ \A d \in Clients :
              cookies'["setup"][d] = IF d = c THEN cookie ELSE cookies["setup"][d]
    BY <1>1, <2>2, <2>3, SetupStore
  <2>5. /\ throttle' \in 0..Window
        /\ sends' \in [Sends -> Sending \cup {Idle}]
        /\ cache' \in [Stores -> Entry \cup {None}]
    BY <1>1, <2>1, <2>3, SetupStore, InitiateTypes
  <2>6. SetupCookies'
    BY <1>1, <2>2, <2>4 DEF SetupCookies
  <2>7. TypeOK'
    BY <1>1, <2>3, <2>4, <2>5 DEF TypeOK
  <2> QED
    BY <1>1, <2>3, <2>6, <2>7 DEF SetupTypes, SetupTypeOK
<1>3. ASSUME NEW c \in Clients, NEW r \in Requests, ConfirmRegistration(r, c)
      PROVE  SetupTypes'
  <2> DEFINE q == [phase |-> "register", client |-> c, channel |-> cache["setup"].channel,
                   tfa |-> tfa]
  <2>1. /\ reqs' = [reqs EXCEPT ![r] = q]
        /\ UNCHANGED <<tfa, cache, throttle, sends, cookies, signedIn, wrong, verified>>
    BY <1>3 DEF ConfirmRegistration
  <2>2. cache["setup"].channel \in Channels
    BY <1>1, <1>3 DEF ConfirmRegistration, SetupCookies
  <2>3. q \in Confirmation
    BY <1>1, <2>2 DEF Confirmation
  <2> HIDE DEF q
  <2> QED
    BY <1>1, <2>1, <2>3 DEF SetupTypes, SetupTypeOK, SetupCookies, TypeOK
<1>4. ASSUME NEW r \in Requests, NEW d \in BOOLEAN, Register(r, d)
      PROVE  SetupTypes'
  <2> DEFINE q == reqs[r]
  <2>1. q.client \in Clients /\ q.channel \in Channels /\ q.tfa \in Channels \cup {None}
    BY <1>1, <1>4, RegisterTypes DEF Register
  <2>2. /\ cache' = [cache EXCEPT !["setup"] = None]
        /\ verified' = verified \cup {q.channel}
        /\ tfa' = IF d THEN q.channel ELSE q.tfa
        /\ cookies' = [cookies EXCEPT !["setup"][q.client] = None]
        /\ reqs' = [reqs EXCEPT ![r] = Idle]
        /\ UNCHANGED <<throttle, sends, signedIn, wrong>>
    BY <1>4 DEF Register
  <2>3. /\ cookies' \in [Stores -> [Clients -> Cookie \cup {None}]]
        /\ \A c \in Clients : cookies'["setup"][c] = cookies["setup"][c]
                                \/ cookies'["setup"][c] = None
    BY <1>1, <2>1, <2>2, SetupStore
  <2>4. SetupCookies'
    BY <1>1, <2>3 DEF SetupCookies
  <2>5. TypeOK'
    BY <1>1, <2>1, <2>2, <2>3 DEF TypeOK
  <2> QED
    BY <1>1, <2>1, <2>2, <2>4, <2>5 DEF SetupTypes, SetupTypeOK
<1>5. ASSUME NEW r \in Requests, RegisterFails(r) PROVE SetupTypes'
  BY <1>1, <1>5 DEF RegisterFails, SetupTypes, SetupTypeOK, SetupCookies, TypeOK
<1>6. ASSUME NEW channel \in Channels, RemoveVerification(channel) PROVE SetupTypes'
  BY <1>1, <1>6 DEF RemoveVerification, SetupTypes, SetupTypeOK, SetupCookies, TypeOK
<1> QED
  BY <1>2, <1>3, <1>4, <1>5, <1>6 DEF SetupStep

LEMMA SetupTypeInit == SetupInit => SetupTypes
<1> SUFFICES ASSUME SetupInit PROVE SetupTypes
  OBVIOUS
<1>1. \A c \in Clients : cookies["setup"][c] = None
  BY SetupStore DEF SetupInit, Init
<1> QED
  BY <1>1, TypeInit DEF SetupInit, SetupTypes, SetupTypeOK, SetupCookies

LEMMA SetupTypeNext == SetupTypes /\ [SetupNext]_setupVars => SetupTypes'
<1> SUFFICES ASSUME SetupTypes, [SetupNext]_setupVars PROVE SetupTypes'
  OBVIOUS
<1>1. CASE SetupStep
  BY <1>1, SetupStepTypes
<1>2. CASE [Next]_vars /\ UNCHANGED verified
  <2>1. TypeOK'
    BY <1>2, TypeNext DEF SetupTypes, SetupTypeOK
  <2>2. SetupCookies'
    BY <1>2, CookiesKept DEF SetupTypes, SetupTypeOK, SetupCookies
  <2> QED
    BY <1>2, <2>1, <2>2 DEF SetupTypes, SetupTypeOK
<1> QED
  BY <1>1, <1>2, SetupSteps

(* The state keeps its types beside setups, too: what a confirmed setup     *)
(* adds, and makes the second factor, is a channel the account may have.    *)
THEOREM SetupTypesKept == SetupSpec => []SetupTypeOK
<1>1. SetupInit => SetupTypes
  BY SetupTypeInit
<1>2. SetupTypes /\ [SetupNext]_setupVars => SetupTypes'
  BY SetupTypeNext
<1>3. SetupTypes => SetupTypeOK
  BY DEF SetupTypes
<1> QED
  BY <1>1, <1>2, <1>3, PTL DEF SetupSpec

-----------------------------------------------------------------------------
(* A confirmation, or the removal of a verification, sends nothing, writes  *)
(* no entry and leaves logins alone.                                        *)

SetupEnds ==
    \/ \E c \in Clients, r \in Requests : ConfirmRegistration(r, c)
    \/ \E r \in Requests :
        \/ \E setAsDefault2fa \in BOOLEAN : Register(r, setAsDefault2fa)
        \/ RegisterFails(r)
    \/ \E channel \in Channels : RemoveVerification(channel)

LEMMA SetupBeginsOrEnds ==
    ASSUME SetupStep
    PROVE  \/ \E c \in Clients, channel \in Channels, id \in Ids : Setup(c, channel, id)
           \/ SetupEnds
BY DEF SetupStep, SetupEnds

LEMMA EndsOnly ==
    ASSUME TypeOK, SetupEnds
    PROVE  /\ UNCHANGED <<throttle, sends, signedIn>>
           /\ cache' = cache \/ cache' = [cache EXCEPT !["setup"] = None]
           /\ cache'["login"] = cache["login"]
           /\ \A k \in Stores : cache'[k] = cache[k] \/ cache'[k] = None
           /\ cookies'["login"] = cookies["login"]
           /\ \A k \in Stores, c \in Clients :
                 cookies'[k][c] = cookies[k][c] \/ cookies'[k][c] = None
           /\ \A x \in Requests :
                 reqs'[x] = reqs[x] \/ reqs'[x].phase \in {"register", "idle"}
<1>1. /\ reqs \in [Requests -> Confirmation \cup {Idle}]
      /\ cache \in [Stores -> Entry \cup {None}]
      /\ cookies \in [Stores -> [Clients -> Cookie \cup {None}]]
  BY DEF TypeOK
<1>2. /\ UNCHANGED <<throttle, sends, signedIn>>
      /\ cache' = cache \/ cache' = [cache EXCEPT !["setup"] = None]
      /\ \/ UNCHANGED cookies
         \/ \E r \in Requests :
               /\ reqs[r].phase = "register"
               /\ cookies' = [cookies EXCEPT !["setup"][reqs[r].client] = None]
      /\ \/ UNCHANGED reqs
         \/ \E r \in Requests : \E q : /\ reqs' = [reqs EXCEPT ![r] = q]
                                       /\ q.phase \in {"register", "idle"}
  <2> DEFINE Slot(r) == \E q : /\ reqs' = [reqs EXCEPT ![r] = q]
                               /\ q.phase \in {"register", "idle"}
  <2>1. ASSUME NEW c \in Clients, NEW r \in Requests, ConfirmRegistration(r, c)
        PROVE  Slot(r)
    <3> DEFINE q == [phase |-> "register", client |-> c,
                     channel |-> cache["setup"].channel, tfa |-> tfa]
    <3>1. q.phase = "register" /\ reqs' = [reqs EXCEPT ![r] = q]
      BY <2>1 DEF ConfirmRegistration
    <3> HIDE DEF q
    <3> QED
      BY <3>1
  <2>2. ASSUME NEW r \in Requests, reqs' = [reqs EXCEPT ![r] = Idle]
        PROVE  Slot(r)
    BY <2>2, PhaseOfIdle
  <2>3. ASSUME NEW r \in Requests,
               RegisterFails(r) \/ \E setAsDefault2fa \in BOOLEAN : Register(r, setAsDefault2fa)
        PROVE  Slot(r)
    <3>1. reqs' = [reqs EXCEPT ![r] = Idle]
      BY <2>3 DEF Register, RegisterFails
    <3> QED
      BY <2>2, <3>1
  <2>4. ASSUME NEW channel \in Channels, RemoveVerification(channel)
        PROVE  UNCHANGED reqs
    BY <2>4 DEF RemoveVerification
  <2> HIDE DEF Slot
  <2>5. UNCHANGED reqs \/ \E r \in Requests : Slot(r)
    BY <2>1, <2>3, <2>4 DEF SetupEnds
  <2> QED
    BY <2>5 DEF Slot, SetupEnds, ConfirmRegistration, Register, RegisterFails, RemoveVerification
<1>3. ASSUME NEW r \in Requests, reqs[r].phase = "register",
             cookies' = [cookies EXCEPT !["setup"][reqs[r].client] = None]
      PROVE  /\ cookies'["login"] = cookies["login"]
             /\ \A k \in Stores, c \in Clients :
                   cookies'[k][c] = cookies[k][c] \/ cookies'[k][c] = None
  BY <1>1, <1>3, RegisterTypes, SetupStore
<1>4. /\ cookies'["login"] = cookies["login"]
      /\ \A k \in Stores, c \in Clients :
            cookies'[k][c] = cookies[k][c] \/ cookies'[k][c] = None
  BY <1>2, <1>3
<1>5. \A x \in Requests : reqs'[x] = reqs[x] \/ reqs'[x].phase \in {"register", "idle"}
  BY <1>1, <1>2
<1> QED
  BY <1>1, <1>2, <1>4, <1>5, SetupStore

-----------------------------------------------------------------------------
(* Cookies and entries                                                      *)

LEMMA SetupChannels ==
    ASSUME ChannelInv, RightChannels, TypeOK', SetupStep
    PROVE  ChannelInv'
<1>1. ASSUME NEW c \in Clients, NEW channel \in Channels, NEW id \in Ids,
             Setup(c, channel, id)
      PROVE  ChannelInv'
  BY <1>1, BeginKnown, SetupStore DEF Setup, ChannelInv
<1>2. CASE SetupEnds
  <2>1. ASSUME NEW r \in Requests, NEW k, NEW id, NEW channel,
               RequestNames(reqs'[r], k, id, channel)
        PROVE  RequestNames(reqs[r], k, id, channel)
    <3>1. reqs'[r].phase \in {"ttl", "set"}
      BY <2>1 DEF RequestNames
    <3>2. reqs'[r] = reqs[r]
      BY <1>2, <3>1, EndsOnly DEF ChannelInv
    <3> QED
      BY <2>1, <3>2
  <2>2. ASSUME NEW k \in Stores, NEW id, NEW channel
        PROVE  /\ Names(cache'[k], id, channel) => Names(cache[k], id, channel)
               /\ \A c \in Clients :
                     Names(cookies'[k][c], id, channel) => Names(cookies[k][c], id, channel)
    BY <1>2, EndsOnly DEF Names, ChannelInv
  <2>3. UNCHANGED sends
    BY <1>2, EndsOnly DEF ChannelInv
  <2>4. NothingNew
    BY <2>1, <2>2, <2>3 DEF NothingNew, Known
  <2>5. CodesRequestedRight'
    BY <2>3 DEF ChannelInv, CodesRequestedRight
  <2> QED
    BY <2>4, <2>5 DEF ChannelInv, OneChannel, NothingNew
<1> QED
  BY <1>1, <1>2, SetupBeginsOrEnds

LEMMA SetupChannelNext ==
    SetupTypes /\ ChannelInv /\ RightChannels /\ [SetupNext]_setupVars => ChannelInv'
<1>1. SetupTypes' => TypeOK'
  BY DEF SetupTypes, SetupTypeOK
<1> QED
  BY <1>1, SetupTypeNext, SetupSteps, SetupChannels, ChannelNext

(* With mail and the authenticator app, the cookie of a setup can be used on*)
(* its entry, and so can that of a login, while the two share the throttle, *)
(* the sends and the routes.                                                *)
THEOREM SetupCookiesMatch == RightChannels /\ SetupSpec => []CookieMatchesEntry
<1> SUFFICES ASSUME RightChannels PROVE SetupSpec => []CookieMatchesEntry
  OBVIOUS
<1>1. SetupInit => SetupTypes /\ ChannelInv
  BY SetupTypeInit, ChannelInit DEF SetupInit
<1>2. SetupTypes /\ ChannelInv /\ [SetupNext]_setupVars => SetupTypes' /\ ChannelInv'
  BY SetupTypeNext, SetupChannelNext
<1>3. ChannelInv => CookieMatchesEntry
  BY ChannelMatches
<1> QED
  BY <1>1, <1>2, <1>3, PTL DEF SetupSpec

-----------------------------------------------------------------------------
(* Handlers that do not overlap                                             *)

(* A confirmation of a setup is alone while it is under way.                *)
LEMMA EndsAlone ==
    ASSUME SerialInv, Serial, SetupEnds
    PROVE  /\ \A s \in Sends : ~Between(s) /\ ~Between(s)'
           /\ \A x \in Requests : reqs[x].phase \in {"idle", "register"}
           /\ \A x \in Requests : reqs'[x].phase \in {"idle", "register"}
           /\ \A x \in Requests, y \in Requests :
                 reqs'[x] # Idle /\ reqs'[y] # Idle => x = y
<1>1. /\ TypeOK
      /\ reqs \in [Requests -> Confirmation \cup {Idle}]
      /\ Idle.phase = "idle"
      /\ UNCHANGED sends
  BY EndsOnly, PhaseOfIdle DEF SerialInv, TypeOK
<1>2. ASSUME Quiet
      PROVE  /\ \A s \in Sends : ~Between(s)
             /\ \A x \in Requests : reqs[x] = Idle
  BY <1>1, <1>2, QuietSlots
<1>3. ASSUME NEW c \in Clients, NEW r \in Requests, ConfirmRegistration(r, c)
      PROVE  /\ \A s \in Sends : ~Between(s)
             /\ \A x \in Requests : reqs[x] = Idle
             /\ \A x \in Requests : x # r => reqs'[x] = Idle
             /\ reqs'[r].phase = "register"
  BY <1>1, <1>2, <1>3 DEF ConfirmRegistration, MayStart, Serial
<1>4. ASSUME NEW r \in Requests,
             RegisterFails(r) \/ \E setAsDefault2fa \in BOOLEAN : Register(r, setAsDefault2fa)
      PROVE  /\ \A s \in Sends : ~Between(s)
             /\ \A x \in Requests : x # r => reqs[x] = Idle
             /\ reqs[r].phase = "register"
             /\ \A x \in Requests : reqs'[x] = Idle
  <2>1. reqs[r].phase = "register" /\ reqs' = [reqs EXCEPT ![r] = Idle]
    BY <1>4 DEF Register, RegisterFails
  <2>2. \A s \in Sends : ~Between(s)
    BY <1>1, <2>1 DEF SerialInv, OneAtATime
  <2>3. \A x \in Requests : x # r => reqs[x] = Idle
    BY <1>1, <2>1 DEF SerialInv, OneAtATime
  <2> QED
    BY <1>1, <2>1, <2>2, <2>3
<1>5. ASSUME NEW channel \in Channels, RemoveVerification(channel)
      PROVE  /\ \A s \in Sends : ~Between(s)
             /\ \A x \in Requests : reqs[x] = Idle
             /\ \A x \in Requests : reqs'[x] = Idle
  BY <1>2, <1>5 DEF RemoveVerification, MayStart, Serial
<1>6. \A s \in Sends : Between(s)' <=> Between(s)
  BY <1>1 DEF Between
<1>7. CASE \E c \in Clients, r \in Requests : ConfirmRegistration(r, c)
  BY <1>1, <1>3, <1>6, <1>7
<1>8. CASE \E r \in Requests :
              RegisterFails(r) \/ \E setAsDefault2fa \in BOOLEAN : Register(r, setAsDefault2fa)
  BY <1>1, <1>4, <1>6, <1>8
<1>9. CASE \E channel \in Channels : RemoveVerification(channel)
  BY <1>1, <1>5, <1>6, <1>9
<1> QED
  BY <1>7, <1>8, <1>9 DEF SetupEnds

LEMMA BeginSlots ==
    ASSUME TypeOK, Serial, NEW c \in Clients, NEW channel \in Channels, NEW id \in Ids,
           Setup(c, channel, id)
    PROVE  /\ Quiet /\ Quiet'
           /\ UNCHANGED reqs
           /\ cache'["login"] = cache["login"]
           /\ cookies'["login"] = cookies["login"]
           /\ \A s \in Sends : \/ sends'[s] = sends[s]
                              \/ /\ sends[s] = Idle
                                 /\ sends'[s].phase = "send"
                                 /\ sends'[s].store = "setup"
                                 /\ sends'[s].channel = channel
<1> DEFINE Q == [phase |-> "send", store |-> "setup", id |-> id, channel |-> channel,
                 resend |-> FALSE]
<1>1. /\ sends \in [Sends -> Sending \cup {Idle}]
      /\ cache \in [Stores -> Entry \cup {None}]
      /\ cookies \in [Stores -> [Clients -> Cookie \cup {None}]]
  BY DEF TypeOK
<1>2. Quiet /\ UNCHANGED reqs
  BY DEF Setup, MayStart, Serial
<1>3. cookies'["login"] = cookies["login"]
  BY <1>1, SetupStore DEF Setup
<1>4. cache'["login"] = cache["login"]
  BY <1>1, SetupStore DEF Setup, Initiate
<1>5. Q.phase = "send" /\ Q.store = "setup" /\ Q.channel = channel
  OBVIOUS
<1>6. UNCHANGED sends \/ \E s \in Sends : sends[s] = Idle /\ sends' = [sends EXCEPT ![s] = Q]
  BY DEF Setup, Initiate, RequestCode
<1> HIDE DEF Q
<1>7. \A s \in Sends : sends'[s] = sends[s] \/ (sends[s] = Idle /\ sends'[s] = Q)
  BY <1>1, <1>6
<1>8. Quiet'
  BY <1>2, <1>5, <1>7 DEF Quiet
<1> QED
  BY <1>2, <1>3, <1>4, <1>5, <1>7, <1>8

LEMMA SetupSerial ==
    ASSUME SerialInv, Serial, TypeOK', SetupStep
    PROVE  SerialInv'
<1>1. ASSUME NEW c \in Clients, NEW channel \in Channels, NEW id \in Ids,
             Setup(c, channel, id)
      PROVE  SerialInv'
  BY <1>1, BeginSlots, QuietSerial DEF SerialInv
<1>2. CASE SetupEnds
  BY <1>2, EndsAlone, PhaseOfIdle
     DEF SerialInv, OneAtATime, CountsCached, ChangesCached, Between
<1> QED
  BY <1>1, <1>2, SetupBeginsOrEnds

LEMMA SetupCodes ==
    ASSUME CodeInv, InTime, TypeOK', SetupStep
    PROVE  CodeInv'
<1>1. SerialInv' /\ TypeOK
  BY SetupSerial DEF CodeInv, InTime, SerialInv
<1>2. ASSUME NEW c \in Clients, NEW channel \in Channels, NEW id \in Ids,
             Setup(c, channel, id)
      PROVE  CodeInv'
  <2>1. Quiet /\ channel \in OTPChannel /\ Initiate("setup", id, channel)
    BY <1>1, <1>2, BeginSlots, LoginAssumption DEF Setup, InTime
  <2>2. CASE channel \in OtpVerification
    <3>1. RequestCode("setup", id, channel, FALSE) /\ UNCHANGED cache
      BY <2>1, <2>2 DEF Initiate, OtpVerification, TotpVerification
    <3> QED
      BY <1>1, <2>1, <2>2, <3>1, RequestCodes, SetupStore
  <2>3. CASE channel = TotpVerification
    <3> DEFINE e == Created("setup", id, channel, None)
    <3>1. cache' = [cache EXCEPT !["setup"] = e] /\ UNCHANGED <<throttle, sends>>
      BY <2>1, <2>3 DEF Initiate, OtpVerification, TotpVerification
    <3>2. e.channel = TotpVerification
      BY <2>1, <2>3, CreatedType, SetupStore
    <3>3. cache \in [Stores -> Entry \cup {None}]
      BY <1>1 DEF TypeOK
    <3> HIDE DEF e
    <3>4. \A k \in Stores : cache'[k] = cache[k] \/ cache'[k] = e
      BY <3>1, <3>3
    <3> QED
      BY <1>1, <3>1, <3>2, <3>4, OtherCodes
  <2> QED
    BY <2>1, <2>2, <2>3 DEF OTPChannel
<1>3. CASE SetupEnds
  BY <1>1, <1>3, EndsOnly, OtherCodes
<1> QED
  BY <1>2, <1>3, SetupBeginsOrEnds

LEMMA SetupCodeNext ==
    SetupTypes /\ CodeInv /\ InTime /\ [SetupNext]_setupVars => CodeInv'
<1>1. SetupTypes' => TypeOK'
  BY DEF SetupTypes, SetupTypeOK
<1> QED
  BY <1>1, SetupTypeNext, SetupSteps, SetupCodes, CodeNext

(* While handlers do not overlap and codes are sent within the throttle's   *)
(* window, no code of a setup gets into the entry of a login, nor the other *)
(* way round, and no resend puts its code into a later entry of either.     *)
THEOREM SetupCodesStay == InTime /\ SetupSpec => []CodeOfItsLogin
<1> SUFFICES ASSUME InTime PROVE SetupSpec => []CodeOfItsLogin
  OBVIOUS
<1>1. SetupInit => SetupTypes /\ CodeInv
  BY SetupTypeInit, CodeInit DEF SetupInit
<1>2. SetupTypes /\ CodeInv /\ [SetupNext]_setupVars => SetupTypes' /\ CodeInv'
  BY SetupTypeNext, SetupCodeNext
<1>3. CodeInv => CodeOfItsLogin
  BY DEF CodeInv, CodesOwn, OwnCode, CodeOfItsLogin
<1> QED
  BY <1>1, <1>2, <1>3, PTL DEF SetupSpec

-----------------------------------------------------------------------------
(* The protocol of logins                                                   *)

LEMMA SetupProtocol ==
    ASSUME ProtocolInv, Running, TypeOK', SetupStep
    PROVE  ProtocolInv'
<1>1. SerialInv' /\ SerialInv /\ Serial /\ TypeOK
  BY SetupSerial DEF ProtocolInv, Running, SerialInv
<1>2. ASSUME NEW c \in Clients, NEW channel \in Channels, NEW id \in Ids,
             Setup(c, channel, id)
      PROVE  ProtocolInv'
  <2>1. AwaitedOnce'
    BY <1>1, <1>2, BeginSlots, AwaitedFewer DEF ProtocolInv, Awaits
  <2>2. cache'["login"] # None => cache'["login"].attempts < MaxAttempts
    BY <1>1, <1>2, BeginSlots, NotExceeded DEF ProtocolInv, AttemptsLeft
  <2> QED
    BY <1>1, <1>2, <2>1, <2>2, BeginSlots, QuietProtocol
<1>3. CASE SetupEnds
  <2>1. ~Exceeded
    BY <1>1, <1>3, EndsAlone DEF Exceeded
  <2>2. AwaitedOnce'
    BY <1>1, <1>3, EndsOnly, AwaitedFewer DEF ProtocolInv, Awaits
  <2>3. AttemptsLeft'
    BY <1>1, <1>3, <2>1, EndsOnly DEF ProtocolInv, AttemptsLeft
  <2>4. Checked'
    BY <1>1, <1>3, EndsAlone DEF Checked
  <2> QED
    BY <1>1, <2>2, <2>3, <2>4 DEF ProtocolInv
<1> QED
  BY <1>2, <1>3, SetupBeginsOrEnds

LEMMA SetupProtocolStep ==
    ASSUME ProtocolInv, Running, SetupStep
    PROVE  LP!Next \/ UNCHANGED LP!vars
<1>1. SerialInv /\ Serial /\ TypeOK
  BY DEF ProtocolInv, Running, SerialInv
<1>2. ASSUME cookies'["login"] = cookies["login"], UNCHANGED signedIn,
             \A s \in Sends : sends'[s] = sends[s] \/ (~Awaits(s) /\ ~Awaits(s)'),
             cache'["login"] = cache["login"], ~Exceeded, ~Exceeded'
      PROVE  LP!Next
  <2>1. Pending' = Pending
    BY <1>2 DEF Pending
  <2>2. Awaited' = Awaited
    BY <1>2, AwaitedSame
  <2>3. Live' = Live /\ Tries' = Tries
    BY <1>2, LiveIs, LiveIsThen
  <2>4. (tfa # None)' \in BOOLEAN
    OBVIOUS
  <2>5. LP!Switch
    BY <1>2, <2>1, <2>2, <2>3, <2>4 DEF LP!Switch
  <2> QED
    BY <2>5 DEF LP!Next
<1>3. ASSUME NEW c \in Clients, NEW channel \in Channels, NEW id \in Ids,
             Setup(c, channel, id)
      PROVE  LP!Next
  <2>1. ~Exceeded /\ ~Exceeded'
    BY <1>1, <1>3, BeginSlots, NotExceeded DEF Exceeded
  <2>2. UNCHANGED signedIn
    BY <1>3 DEF Setup
  <2>3. \A s \in Sends : sends'[s] = sends[s] \/ (~Awaits(s) /\ ~Awaits(s)')
    BY <1>1, <1>3, BeginSlots, PhaseOfIdle DEF Awaits
  <2> QED
    BY <1>1, <1>2, <1>3, <2>1, <2>2, <2>3, BeginSlots
<1>4. CASE SetupEnds
  <2>1. ~Exceeded /\ ~Exceeded'
    BY <1>1, <1>4, EndsAlone DEF Exceeded
  <2> QED
    BY <1>1, <1>2, <1>4, <2>1, EndsOnly
<1> QED
  BY <1>3, <1>4, SetupBeginsOrEnds

(* Setups beside the logins change nothing in what LoginProtocol promises:  *)
(* no confirmation of a setup signs anybody in, ends a login or makes one   *)
(* live.                                                                    *)
THEOREM SetupsKeepTheProtocol == Running /\ SetupSpec => ImplementsLoginProtocol
<1> SUFFICES ASSUME Running PROVE SetupSpec => LP!Spec
  BY DEF ImplementsLoginProtocol
<1>1. SetupInit => SetupTypes /\ ProtocolInv /\ LP!Init
  BY SetupTypeInit, ProtocolInit, ProtocolStart DEF SetupInit
<1>2. SetupTypes /\ ProtocolInv /\ [SetupNext]_setupVars => SetupTypes' /\ ProtocolInv'
  <2>1. SetupTypes' => TypeOK'
    BY DEF SetupTypes, SetupTypeOK
  <2> QED
    BY <2>1, SetupTypeNext, SetupSteps, SetupProtocol, ProtocolNext
<1>3. ProtocolInv /\ [SetupNext]_setupVars => [LP!Next]_(LP!vars)
  BY SetupSteps, SetupProtocolStep, ProtocolStep
<1> QED
  BY <1>1, <1>2, <1>3, PTL DEF SetupSpec, LP!Spec

-----------------------------------------------------------------------------
(* What is kept of setups: the entry, and a code that will become one, are  *)
(* of a channel that needs them, and a code on its way is of another channel*)
(* than the entry somebody can confirm.                                     *)

OneBrowser == \A c \in Clients, d \in Clients : c = d

SetupAwaits(s) ==
    sends[s].phase = "send" /\ sends[s].store = "setup" /\ ~sends[s].resend
AwaitedNeeded == \A s \in Sends : SetupAwaits(s) => sends[s].channel \notin verified
OtherAwaited ==
    \A s \in Sends, c \in Clients :
        SetupAwaits(s) /\ Of(cookies["setup"][c], cache["setup"])
            => cache["setup"].channel # sends[s].channel
RegistersEntry ==
    \A r \in Requests :
        reqs[r].phase = "register" =>
            /\ Of(cookies["setup"][reqs[r].client], cache["setup"])
            /\ reqs[r].channel = cache["setup"].channel
NeededInv ==
    /\ SetupTypes /\ CodeInv /\ ChannelInv
    /\ SetupStillNeeded /\ AwaitedNeeded /\ OtherAwaited /\ RegistersEntry

(* An entry that keeps its id and channel.                                  *)
SameSetup(then, now) == then # None /\ now.id = then.id /\ now.channel = then.channel

LEMMA NeededKept ==
    ASSUME NeededInv, SetupTypes', CodeInv', ChannelInv', UNCHANGED verified,
           cache'["setup"] # None => SameSetup(cache["setup"], cache'["setup"]),
           \A s \in Sends : SetupAwaits(s)' =>
              SetupAwaits(s) /\ sends'[s].channel = sends[s].channel,
           \A c \in Clients : \/ cookies'["setup"][c] = cookies["setup"][c]
                             \/ cookies'["setup"][c] = None,
           RegistersEntry'
    PROVE  NeededInv'
<1>1. SetupStillNeeded'
  BY DEF NeededInv, SetupStillNeeded, SameSetup
<1>2. AwaitedNeeded'
  BY DEF NeededInv, AwaitedNeeded
<1>3. OtherAwaited'
  BY DEF NeededInv, OtherAwaited, Of, SameSetup
<1> QED
  BY <1>1, <1>2, <1>3 DEF NeededInv

(* Before a step nothing of which touches setups, or after one that ended   *)
(* the process, nobody registers.                                           *)
LEMMA NoneRegisters ==
    ASSUME \A r \in Requests : reqs'[r].phase # "register"
    PROVE  RegistersEntry'
BY DEF RegistersEntry

LEMMA NeededSends ==
    ASSUME NeededInv, InTime, SetupTypes', CodeInv', ChannelInv', UNCHANGED verified,
           NEW s \in Sends,
           SendCode(s) \/ SendFails(s) \/ ChangeGet(s) \/ ChangeTtl(s) \/ ChangeSet(s)
    PROVE  NeededInv'
<1> DEFINE q == sends[s]
<1>1. /\ TypeOK
      /\ sends \in [Sends -> Sending \cup {Idle}]
      /\ cache \in [Stores -> Entry \cup {None}]
      /\ Idle.phase = "idle"
      /\ CodeInv /\ SerialInv
      /\ Serial
  BY PhaseOfIdle DEF NeededInv, CodeInv, SerialInv, TypeOK, InTime
<1>2. \A r \in Requests : reqs[r] = Idle
  <2>1. CASE SendCode(s) \/ SendFails(s)
    BY <1>1, <2>1 DEF SendCode, SendFails, MayStart, Serial, Quiet
  <2>2. CASE ChangeGet(s) \/ ChangeTtl(s) \/ ChangeSet(s)
    BY <1>1, <2>2 DEF SerialInv, OneAtATime, Between, ChangeGet, ChangeTtl, ChangeSet
  <2> QED
    BY <2>1, <2>2
<1>3. RegistersEntry' /\ UNCHANGED cookies
  <2>1. UNCHANGED reqs \/ ProcessEnds
    BY DEF SendCode, SendFails, ChangeGet, ChangeTtl, ChangeSet
  <2>2. \A r \in Requests : reqs'[r].phase = "idle"
    BY <1>1, <1>2, <2>1 DEF ProcessEnds
  <2>3. UNCHANGED cookies
    BY DEF SendCode, SendFails, ChangeGet, ChangeTtl, ChangeSet
  <2> QED
    BY <2>2, <2>3, NoneRegisters
<1>4. ASSUME cache'["setup"] # None => SameSetup(cache["setup"], cache'["setup"]),
             \A x \in Sends : SetupAwaits(x)' =>
                SetupAwaits(x) /\ sends'[x].channel = sends[x].channel
      PROVE  NeededInv'
  BY <1>3, <1>4, NeededKept
<1>5. ASSUME ProcessEnds, UNCHANGED cache PROVE NeededInv'
  <2>1. \A x \in Sends : ~SetupAwaits(x)'
    BY <1>1, <1>5 DEF ProcessEnds, SetupAwaits
  <2> QED
    BY <1>4, <1>5, <2>1 DEF SameSetup
<1>6. CASE SendCode(s)
  <2> DEFINE e == Created(q.store, q.id, VerificatorChannel(q.channel), q.id)
  <2>1. /\ q.phase = "send" /\ q.store \in Stores /\ q.id \in Ids
        /\ q.channel \in OtpVerification
    BY <1>1, <1>6, SendTypes DEF SendCode
  <2>2. /\ \A x \in Sends : x # s => sends'[x] = sends[x]
        /\ sends'[s].phase \in {"idle", "change"}
    BY <1>1, <1>6 DEF SendCode
  <2>3. CASE q.resend \/ q.store # "setup"
    <3>1. cache'["setup"] = cache["setup"]
      BY <1>1, <1>6, <2>1, <2>3, SetupStore DEF SendCode
    <3> QED
      BY <1>4, <2>2, <3>1 DEF SetupAwaits, SameSetup
  <2>4. CASE ~q.resend /\ q.store = "setup"
    <3>1. q.channel = "Email" /\ q.channel \notin verified
      BY <2>1, <2>4 DEF NeededInv, ChannelInv, CodesRequestedRight, AwaitedNeeded, SetupAwaits
    <3>2. e.channel = "Email"
      <4>1. VerificatorChannel("Email") = "Email"
        BY DEF VerificatorChannel
      <4> QED
        BY <3>1, <4>1 DEF Created
    <3>3. cache' = [cache EXCEPT !["setup"] = e]
      BY <1>6, <2>4 DEF SendCode
    <3> HIDE DEF e
    <3>4. cache'["setup"] = e
      BY <1>1, <3>3, SetupStore
    <3>5. SetupStillNeeded'
      BY <3>1, <3>2, <3>4 DEF SetupStillNeeded
    <3>6. \A x \in Sends : ~SetupAwaits(x)'
      <4>1. \A x \in Sends : x # s => sends[x] = Idle
        BY <1>1, <2>1 DEF CodeInv, OneSend
      <4> QED
        BY <1>1, <2>2, <4>1 DEF SetupAwaits
    <3> QED
      BY <1>3, <3>5, <3>6 DEF NeededInv, AwaitedNeeded, OtherAwaited
  <2> QED
    BY <2>3, <2>4
<1>7. CASE SendFails(s)
  BY <1>5, <1>7 DEF SendFails
<1>8. CASE ChangeGet(s)
  <2>1. CASE cache[q.store] = None
    BY <1>5, <1>8, <2>1 DEF ChangeGet
  <2>2. CASE cache[q.store] # None
    <3>1. /\ UNCHANGED cache
          /\ \A x \in Sends : x # s => sends'[x] = sends[x]
          /\ sends'[s].phase = "ttl"
      BY <1>1, <1>8, <2>2 DEF ChangeGet
    <3> QED
      BY <1>4, <3>1 DEF SetupAwaits, SameSetup
  <2> QED
    BY <2>1, <2>2
<1>9. CASE ChangeTtl(s)
  <2>1. /\ UNCHANGED cache
        /\ \A x \in Sends : x # s => sends'[x] = sends[x]
        /\ sends'[s].phase = "set"
    BY <1>1, <1>9 DEF ChangeTtl
  <2> QED
    BY <1>4, <2>1 DEF SetupAwaits, SameSetup
<1>10. CASE ChangeSet(s)
  <2>1. CASE ~SetAccepts(q.ttl)
    BY <1>5, <1>10, <2>1 DEF ChangeSet
  <2>2. CASE SetAccepts(q.ttl)
    <3> DEFINE e == Stored(q.entry, q.ttl)
    <3>1. /\ \A x \in Sends : x # s => sends'[x] = sends[x]
          /\ sends'[s].phase = "idle"
          /\ cache' = [cache EXCEPT ![q.store] = e]
          /\ q.phase = "set"
      BY <1>1, <1>10, <2>2 DEF ChangeSet
    <3>2. e.id = q.entry.id /\ e.channel = q.entry.channel
      BY <1>1, <2>2, <3>1, SendTypes, StoredType
    <3>3. SameSetup(cache[q.store], q.entry)
      BY <1>1, <3>1 DEF SerialInv, ChangesCached, SameSetup
    <3> HIDE DEF e
    <3>4. cache'["setup"] # None => SameSetup(cache["setup"], cache'["setup"])
      BY <1>1, <3>1, <3>2, <3>3 DEF SameSetup
    <3> QED
      BY <1>4, <3>1, <3>4 DEF SetupAwaits
  <2> QED
    BY <2>1, <2>2
<1> QED
  BY <1>6, <1>7, <1>8, <1>9, <1>10

LEMMA NeededLogins ==
    ASSUME NeededInv, InTime, SetupTypes', CodeInv', ChannelInv', UNCHANGED verified,
           [Next]_vars
    PROVE  NeededInv'
<1>1. /\ TypeOK
      /\ sends \in [Sends -> Sending \cup {Idle}]
      /\ reqs \in [Requests -> Confirmation \cup {Idle}]
      /\ cache \in [Stores -> Entry \cup {None}]
      /\ Idle.phase = "idle"
      /\ SerialInv
  BY PhaseOfIdle DEF NeededInv, CodeInv, SerialInv, TypeOK
<1>2. MayStart <=> Quiet
  BY DEF MayStart, InTime, Serial
<1>3. \A c \in Clients : \/ cookies'["setup"][c] = cookies["setup"][c]
                        \/ cookies'["setup"][c] = None
  BY <1>1, CookiesKept
<1>4. ASSUME cache'["setup"] # None => SameSetup(cache["setup"], cache'["setup"]),
             \A s \in Sends : sends'[s] = sends[s] \/ ~SetupAwaits(s)',
             RegistersEntry'
      PROVE  NeededInv'
  <2>1. \A s \in Sends : SetupAwaits(s)' =>
           SetupAwaits(s) /\ sends'[s].channel = sends[s].channel
    BY <1>4 DEF SetupAwaits
  <2> QED
    BY <1>3, <1>4, <2>1, NeededKept
<1>5. cache'["setup"] = cache["setup"] =>
         (cache'["setup"] # None => SameSetup(cache["setup"], cache'["setup"]))
  BY DEF SameSetup
<1>6. ASSUME Quiet, UNCHANGED reqs PROVE RegistersEntry'
  BY <1>1, <1>6, NoneRegisters DEF Quiet
<1>7. ASSUME NEW c \in Clients, NEW id \in Ids, Login2FA(c, id) PROVE NeededInv'
  <2> DEFINE Q == [phase |-> "send", store |-> "login", id |-> id, channel |-> tfa,
                   resend |-> FALSE]
  <2>1. Quiet /\ UNCHANGED reqs /\ Initiate("login", id, tfa)
    BY <1>2, <1>7 DEF Login2FA
  <2>2. cache'["setup"] = cache["setup"]
    BY <1>1, <2>1, SetupStore DEF Initiate
  <2>3. UNCHANGED sends \/ \E s \in Sends : sends' = [sends EXCEPT ![s] = Q]
    BY <2>1 DEF Initiate, RequestCode
  <2>4. Q.store = "login"
    OBVIOUS
  <2> HIDE DEF Q
  <2>5. \A s \in Sends : sends'[s] = sends[s] \/ ~SetupAwaits(s)'
    BY <1>1, <2>3, <2>4 DEF SetupAwaits
  <2> QED
    BY <1>4, <1>5, <1>6, <2>1, <2>2, <2>5
<1>8. ASSUME NEW c \in Clients, Resend(c) PROVE NeededInv'
  <2> DEFINE k == StoreOf(c)
             Q == [phase |-> "send", store |-> k, id |-> cache[k].id,
                   channel |-> cache[k].channel, resend |-> TRUE]
  <2>1. Quiet /\ UNCHANGED <<reqs, cache>>
    BY <1>2, <1>8 DEF Resend
  <2>2. UNCHANGED sends \/ \E s \in Sends : sends' = [sends EXCEPT ![s] = Q]
    BY <1>8 DEF Resend, RequestCode
  <2>3. Q.resend
    OBVIOUS
  <2> HIDE DEF Q
  <2>4. \A s \in Sends : sends'[s] = sends[s] \/ ~SetupAwaits(s)'
    BY <1>1, <2>2, <2>3 DEF SetupAwaits
  <2> QED
    BY <1>4, <1>5, <1>6, <2>1, <2>4
<1>9. ASSUME Quiet, UNCHANGED <<reqs, sends, cache>> PROVE NeededInv'
  BY <1>4, <1>5, <1>6, <1>9
<1>10. ASSUME NEW c \in Clients,
              CompleteLogin(c) \/ \E k \in Stores : CookieExpires(k, c)
       PROVE  NeededInv'
  BY <1>2, <1>9, <1>10 DEF CompleteLogin, CookieExpires
<1>11. ASSUME NEW channel \in Channels \cup {None}, Set2FA(channel) PROVE NeededInv'
  BY <1>2, <1>9, <1>11 DEF Set2FA
<1>12. ASSUME UNCHANGED <<reqs, sends, cache, cookies>> PROVE NeededInv'
  <2>1. RegistersEntry'
    BY <1>12 DEF NeededInv, RegistersEntry
  <2> QED
    BY <1>4, <1>5, <1>12, <2>1
<1>13. ASSUME NEW c \in Clients, Logout(c) PROVE NeededInv'
  BY <1>12, <1>13 DEF Logout
<1>14. CASE UNCHANGED vars
  BY <1>12, <1>14 DEF vars
<1>15. CASE Restart
  <2>1. RegistersEntry' /\ \A s \in Sends : ~SetupAwaits(s)'
    BY <1>1, <1>15, NoneRegisters DEF Restart, ProcessEnds, SetupAwaits
  <2>2. UNCHANGED cache
    BY <1>15 DEF Restart
  <2> QED
    BY <1>4, <1>5, <2>1, <2>2
<1>16. CASE Tick
  <2>1. Quiet /\ UNCHANGED <<reqs, sends>> /\ cache'["setup"] = Later(cache["setup"])
    BY <1>2, <1>16, SetupStore DEF Tick
  <2>2. cache'["setup"] # None => SameSetup(cache["setup"], cache'["setup"])
    BY <1>1, <2>1, LaterType, SetupStore DEF SameSetup
  <2> QED
    BY <1>4, <1>6, <2>1, <2>2
<1>17. ASSUME NEW r \in Requests, NEW c \in Clients, NEW right \in BOOLEAN,
              Confirm(r, c, right)
       PROVE  NeededInv'
  <2>1. /\ Quiet /\ UNCHANGED <<sends, cache>>
        /\ \A x \in Requests : reqs'[x] = reqs[x] \/ reqs'[x].phase = "verify"
    BY <1>1, <1>2, <1>17 DEF Confirm
  <2>2. RegistersEntry'
    BY <1>1, <2>1, NoneRegisters DEF Quiet
  <2> QED
    BY <1>4, <1>5, <2>1, <2>2
<1>18. ASSUME NEW r \in Requests,
              \/ Verify(r) \/ VerifyFails(r) \/ IncrementGet(r) \/ IncrementTtl(r)
              \/ IncrementSet(r) \/ DropEntry(r) \/ Accept(r) \/ AcceptFails(r)
       PROVE  NeededInv'
  <2>1. reqs[r] # Idle /\ UNCHANGED sends
    BY <1>1, <1>18 DEF Verify, VerifyFails, IncrementGet, IncrementTtl, IncrementSet,
                       DropEntry, Accept, AcceptFails
  <2>2. \A x \in Requests : x # r => reqs[x] = Idle
    BY <1>1, <2>1 DEF SerialInv, OneAtATime
  <2>3. /\ \A x \in Requests : x # r => reqs'[x] = reqs[x]
        /\ reqs'[r].phase \in {"idle", "cancel", "count", "accept", "ttl", "set", "exceeded"}
    BY <1>1, <1>18 DEF Verify, VerifyFails, IncrementGet, IncrementTtl, IncrementSet,
                       DropEntry, Accept, AcceptFails
  <2>4. RegistersEntry'
    BY <1>1, <2>2, <2>3, NoneRegisters
  <2>5. cache'["setup"] = cache["setup"]
    BY <1>1, <1>18, SetupStore
       DEF Verify, VerifyFails, IncrementGet, IncrementTtl, IncrementSet,
           DropEntry, Accept, AcceptFails
  <2> QED
    BY <1>4, <1>5, <2>1, <2>4, <2>5
<1> QED
  BY <1>7, <1>8, <1>10, <1>11, <1>13, <1>14, <1>15, <1>16, <1>17, <1>18, NeededSends
     DEF Next

LEMMA NeededSetup ==
    ASSUME NeededInv, OneBrowser, RightChannels, InTime, SetupTypes', CodeInv', ChannelInv',
           NEW c \in Clients, NEW channel \in Channels, NEW id \in Ids,
           Setup(c, channel, id)
    PROVE  NeededInv'
<1> DEFINE cookie == [id |-> id, channel |-> channel]
           Q == [phase |-> "send", store |-> "setup", id |-> id, channel |-> channel,
                 resend |-> FALSE]
           e == Created("setup", id, channel, None)
<1>1. /\ TypeOK
      /\ sends \in [Sends -> Sending \cup {Idle}]
      /\ cache \in [Stores -> Entry \cup {None}]
      /\ cookies \in [Stores -> [Clients -> Cookie \cup {None}]]
      /\ Quiet' /\ UNCHANGED verified
      /\ channel \notin verified /\ id \notin IdsInUse
  BY BeginSlots DEF NeededInv, CodeInv, SerialInv, TypeOK, InTime, Setup
<1>2. RegistersEntry'
  BY <1>1, PhaseOfIdle, NoneRegisters DEF Quiet
<1>3. cookie.id = id
  OBVIOUS
<1>4. e.channel = channel
  BY DEF Created
<1>5. Q.phase = "send" /\ Q.channel = channel
  OBVIOUS
<1>6. cookies' = [cookies EXCEPT !["setup"][c] = cookie]
  BY DEF Setup
<1>7. \/ /\ channel \in OtpVerification
         /\ UNCHANGED cache
         /\ UNCHANGED sends \/ \E s \in Sends : sends' = [sends EXCEPT ![s] = Q]
      \/ /\ channel = TotpVerification
         /\ UNCHANGED sends
         /\ cache' = [cache EXCEPT !["setup"] = e]
  BY DEF Setup, Initiate, RequestCode
<1> HIDE DEF cookie, Q, e
<1>8. \A d \in Clients : cookies'["setup"][d] = cookie
  <2>1. cookies'["setup"][c] = cookie
    BY <1>1, <1>6, SetupStore
  <2> QED
    BY <2>1 DEF OneBrowser
<1>9. cache["setup"] # None => cache["setup"].id # id
  <2>1. id \notin IdsStored
    BY <1>1 DEF IdsInUse
  <2>2. IdsOfEntry(cache["setup"]) \cup IdsOfCookies("setup")
          \in {IdsOfEntry(cache[k]) \cup IdsOfCookies(k) : k \in Stores}
    BY SetupStore
  <2>3. id \notin IdsOfEntry(cache["setup"])
    BY <2>1, <2>2 DEF IdsStored
  <2> QED
    BY <2>3 DEF IdsOfEntry
<1>10. \A s \in Sends : \/ sends'[s] = sends[s]
                       \/ sends'[s].channel = channel
  BY <1>1, <1>5, <1>7
<1>11. AwaitedNeeded'
  BY <1>1, <1>10 DEF NeededInv, AwaitedNeeded, SetupAwaits
<1>12. CASE channel \in OtpVerification
  <2>1. UNCHANGED cache
    BY <1>7, <1>12 DEF OtpVerification, TotpVerification
  <2>2. \A d \in Clients : ~Of(cookies'["setup"][d], cache'["setup"])
    BY <1>3, <1>8, <1>9, <2>1 DEF Of
  <2>3. SetupStillNeeded' /\ OtherAwaited'
    BY <1>1, <2>1, <2>2 DEF NeededInv, SetupStillNeeded, OtherAwaited
  <2> QED
    BY <1>2, <1>11, <2>3 DEF NeededInv
<1>13. CASE channel = TotpVerification
  <2>1. cache'["setup"] = e /\ UNCHANGED sends
    BY <1>1, <1>7, <1>13, SetupStore DEF OtpVerification, TotpVerification
  <2>2. SetupStillNeeded'
    BY <1>1, <1>4, <2>1 DEF SetupStillNeeded
  <2>3. \A s \in Sends : SetupAwaits(s)' => sends'[s].channel = "Email"
    BY <2>1 DEF NeededInv, ChannelInv, CodesRequestedRight, SetupAwaits
  <2>4. OtherAwaited'
    BY <1>4, <1>13, <2>1, <2>3 DEF OtherAwaited, TotpVerification
  <2> QED
    BY <1>2, <1>11, <2>2, <2>4 DEF NeededInv
<1> QED
  BY <1>12, <1>13, LoginAssumption DEF OTPChannel

LEMMA NeededEnds ==
    ASSUME NeededInv, InTime, SetupTypes', CodeInv', ChannelInv', SetupEnds
    PROVE  NeededInv'
<1>1. /\ TypeOK /\ SerialInv /\ Serial
      /\ reqs \in [Requests -> Confirmation \cup {Idle}]
      /\ cache \in [Stores -> Entry \cup {None}]
      /\ Idle.phase = "idle"
  BY PhaseOfIdle DEF NeededInv, CodeInv, SerialInv, TypeOK, InTime
<1>2. /\ UNCHANGED sends
      /\ cache'["setup"] = cache["setup"] \/ cache'["setup"] = None
      /\ \A c \in Clients : \/ cookies'["setup"][c] = cookies["setup"][c]
                           \/ cookies'["setup"][c] = None
  BY <1>1, EndsOnly, SetupStore
<1>3. OtherAwaited'
  BY <1>2 DEF NeededInv, OtherAwaited, SetupAwaits, Of
<1>4. ASSUME NEW c \in Clients, NEW r \in Requests, ConfirmRegistration(r, c)
      PROVE  NeededInv'
  <2> DEFINE q == [phase |-> "register", client |-> c, channel |-> cache["setup"].channel,
                   tfa |-> tfa]
  <2>1. /\ reqs' = [reqs EXCEPT ![r] = q]
        /\ UNCHANGED <<cache, cookies, verified>>
        /\ Of(cookies["setup"][c], cache["setup"])
        /\ Quiet
    BY <1>1, <1>4 DEF ConfirmRegistration, MayStart, Serial, Of
  <2>2. q.client = c /\ q.channel = cache["setup"].channel
    OBVIOUS
  <2> HIDE DEF q
  <2>3. reqs'[r] = q /\ \A x \in Requests : x # r => reqs'[x] = Idle
    BY <1>1, <2>1 DEF Quiet
  <2>4. RegistersEntry'
    BY <1>1, <2>1, <2>2, <2>3 DEF RegistersEntry
  <2>5. SetupStillNeeded' /\ AwaitedNeeded'
    BY <1>2, <2>1 DEF NeededInv, SetupStillNeeded, AwaitedNeeded, SetupAwaits
  <2> QED
    BY <1>3, <2>4, <2>5 DEF NeededInv
<1>5. ASSUME NEW r \in Requests, NEW d \in BOOLEAN, Register(r, d)
      PROVE  NeededInv'
  <2> DEFINE q == reqs[r]
  <2>1. /\ q.phase = "register"
        /\ cache'["setup"] = None
        /\ verified' = verified \cup {q.channel}
        /\ \A x \in Requests : x # r => reqs[x] = Idle
        /\ \A x \in Requests : reqs'[x] = Idle
    BY <1>1, <1>5, SetupStore DEF Register, SerialInv, OneAtATime
  <2>2. /\ q.client \in Clients
        /\ Of(cookies["setup"][q.client], cache["setup"])
        /\ q.channel = cache["setup"].channel
    BY <1>1, <2>1, RegisterTypes DEF NeededInv, RegistersEntry
  <2>3. \A s \in Sends : SetupAwaits(s) => sends[s].channel # q.channel
    BY <2>2 DEF NeededInv, OtherAwaited
  <2>4. AwaitedNeeded'
    BY <1>2, <2>1, <2>3 DEF NeededInv, AwaitedNeeded, SetupAwaits
  <2>5. SetupStillNeeded' /\ RegistersEntry'
    BY <1>1, <2>1 DEF SetupStillNeeded, RegistersEntry
  <2> QED
    BY <1>3, <2>4, <2>5 DEF NeededInv
<1>6. ASSUME verified' \subseteq verified, \A x \in Requests : reqs'[x].phase = "idle"
      PROVE  NeededInv'
  <2>1. SetupStillNeeded' /\ AwaitedNeeded'
    BY <1>2, <1>6 DEF NeededInv, SetupStillNeeded, AwaitedNeeded, SetupAwaits
  <2>2. RegistersEntry'
    BY <1>6 DEF RegistersEntry
  <2> QED
    BY <1>3, <2>1, <2>2 DEF NeededInv
<1>7. ASSUME NEW r \in Requests, RegisterFails(r) PROVE NeededInv'
  <2>1. verified' = verified /\ \A x \in Requests : reqs'[x].phase = "idle"
    BY <1>1, <1>7 DEF RegisterFails, SerialInv, OneAtATime
  <2> QED
    BY <1>6, <2>1
<1>8. ASSUME NEW channel \in Channels, RemoveVerification(channel) PROVE NeededInv'
  <2>1. verified' \subseteq verified /\ \A x \in Requests : reqs'[x].phase = "idle"
    BY <1>1, <1>8 DEF RemoveVerification, MayStart, Serial, Quiet
  <2> QED
    BY <1>6, <2>1
<1> QED
  BY <1>4, <1>5, <1>7, <1>8 DEF SetupEnds

(* With one browser, handlers that do not overlap and codes sent within the *)
(* throttle's window, a confirmed setup never adds a channel twice: an entry*)
(* whose channel got its verification otherwise is gone with it, and no code*)
(* that is still to be cached brings such an entry back, whatever is        *)
(* refused, resent, restarted or removed meanwhile.                         *)
THEOREM SetupsAreNeeded ==
    OneBrowser /\ RightChannels /\ InTime /\ SetupSpec => []SetupStillNeeded
<1> SUFFICES ASSUME OneBrowser, RightChannels, InTime
             PROVE  SetupSpec => []SetupStillNeeded
  OBVIOUS
<1>1. SetupInit => NeededInv
  <2> SUFFICES ASSUME SetupInit PROVE NeededInv
    OBVIOUS
  <2>1. /\ cache["setup"] = None
        /\ \A s \in Sends : sends[s].phase = "idle"
        /\ \A r \in Requests : reqs[r].phase = "idle"
    BY PhaseOfIdle, SetupStore DEF SetupInit, Init
  <2>2. SetupStillNeeded /\ AwaitedNeeded /\ OtherAwaited /\ RegistersEntry
    BY <2>1 DEF SetupStillNeeded, AwaitedNeeded, OtherAwaited, RegistersEntry, SetupAwaits
  <2> QED
    BY <2>2, SetupTypeInit, CodeInit, ChannelInit DEF SetupInit, NeededInv
<1>2. NeededInv /\ [SetupNext]_setupVars => NeededInv'
  <2> SUFFICES ASSUME NeededInv, [SetupNext]_setupVars PROVE NeededInv'
    OBVIOUS
  <2>1. SetupTypes' /\ CodeInv' /\ ChannelInv'
    BY SetupTypeNext, SetupCodeNext, SetupChannelNext DEF NeededInv
  <2> QED
    BY <2>1, SetupSteps, SetupBeginsOrEnds, NeededLogins, NeededSetup, NeededEnds
<1>3. NeededInv => SetupStillNeeded
  BY DEF NeededInv
<1> QED
  BY <1>1, <1>2, <1>3, PTL DEF SetupSpec
-----------------------------------------------------------------------------
(* The account as SecondFactors has it: while handlers do not overlap, what *)
(* a confirmation saves is the second factor there is.                      *)

SavedAsRead ==
    \A r \in Requests : reqs[r].phase \in {"accept", "register"} => reqs[r].tfa = tfa
FactorInv == SetupTypes /\ SerialInv /\ SavedAsRead

AllIdle == \A r \in Requests : reqs[r] = Idle

(* In a login only the owner's other session changes the second factor, and *)
(* while no confirmation is under way.                                      *)
LEMMA LoginKeepsFactor ==
    ASSUME FactorInv, Serial, Next, tfa' # tfa
    PROVE  /\ \E channel \in Channels \cup {None} : Set2FA(channel)
           /\ AllIdle
           /\ UNCHANGED reqs
<1>1. ASSUME NEW r \in Requests, Accept(r) PROVE FALSE
  BY <1>1 DEF Accept, FactorInv, SavedAsRead
<1>2. \E channel \in Channels \cup {None} : Set2FA(channel)
  BY <1>1 DEF Next, SendCode, SendFails, ChangeGet, ChangeTtl, ChangeSet, Login2FA,
              CompleteLogin, Resend, Logout, CookieExpires, Confirm, Verify, VerifyFails,
              IncrementGet, IncrementTtl, IncrementSet, DropEntry, AcceptFails, Tick,
              Restart
<1> QED
  BY <1>2 DEF Set2FA, MayStart, Serial, Quiet, AllIdle

LEMMA FactorLogins ==
    ASSUME FactorInv, Serial, Next
    PROVE  SavedAsRead'
<1> SUFFICES ASSUME NEW x \in Requests, reqs'[x].phase \in {"accept", "register"}
             PROVE  reqs'[x].tfa = tfa'
  BY DEF SavedAsRead
<1>0. reqs \in [Requests -> Confirmation \cup {Idle}] /\ Idle.phase = "idle"
  BY PhaseOfIdle DEF FactorInv, SerialInv, TypeOK
<1>1. CASE tfa' # tfa
  BY <1>0, <1>1, LoginKeepsFactor DEF AllIdle
<1>2. CASE tfa' = tfa /\ reqs'[x] = reqs[x]
  BY <1>2 DEF FactorInv, SavedAsRead
<1>3. CASE tfa' = tfa /\ reqs'[x] # reqs[x]
  <2>1. ASSUME ProcessEnds PROVE FALSE
    BY <1>0, <2>1 DEF ProcessEnds
  <2>2. ASSUME NEW s \in Sends,
               SendCode(s) \/ SendFails(s) \/ ChangeGet(s) \/ ChangeTtl(s) \/ ChangeSet(s)
        PROVE  FALSE
    BY <1>3, <2>1, <2>2 DEF SendCode, SendFails, ChangeGet, ChangeTtl, ChangeSet
  <2>3. ASSUME NEW c \in Clients, NEW r \in Requests, NEW right \in BOOLEAN,
               Confirm(r, c, right)
        PROVE  FALSE
    BY <1>0, <1>3, <2>3 DEF Confirm
  <2>4. ASSUME NEW r \in Requests, Verify(r) PROVE reqs'[x].tfa = tfa
    BY <1>0, <1>3, <2>4 DEF Verify
  <2>5. ASSUME NEW r \in Requests,
               \/ VerifyFails(r) \/ IncrementGet(r) \/ IncrementTtl(r) \/ IncrementSet(r)
               \/ DropEntry(r) \/ Accept(r) \/ AcceptFails(r)
        PROVE  FALSE
    BY <1>0, <1>3, <2>5 DEF VerifyFails, IncrementGet, IncrementTtl, IncrementSet,
                            DropEntry, Accept, AcceptFails
  <2> QED
    BY <1>3, <2>1, <2>2, <2>3, <2>4, <2>5
       DEF Next, Login2FA, CompleteLogin, Resend, Logout, CookieExpires, Set2FA, Tick,
           Restart
<1> QED
  BY <1>1, <1>2, <1>3

LEMMA FactorNext == FactorInv /\ Serial /\ [SetupNext]_setupVars => FactorInv'
<1> SUFFICES ASSUME FactorInv, Serial, [SetupNext]_setupVars PROVE FactorInv'
  OBVIOUS
<1>0. /\ TypeOK /\ SerialInv /\ SetupTypes
      /\ reqs \in [Requests -> Confirmation \cup {Idle}]
      /\ Idle.phase = "idle"
  BY PhaseOfIdle DEF FactorInv, SerialInv, TypeOK
<1>1. SetupTypes' /\ TypeOK'
  BY <1>0, SetupTypeNext DEF SetupTypes, SetupTypeOK
<1>2. SerialInv'
  BY <1>0, <1>1, SetupSteps, SetupSerial, SerialNext
<1>3. SavedAsRead'
  <2>1. CASE LoginNext
    BY <2>1, FactorLogins DEF LoginNext
  <2>2. CASE UNCHANGED setupVars
    BY <2>2 DEF setupVars, FactorInv, SavedAsRead
  <2>3. ASSUME NEW c \in Clients, NEW channel \in Channels, NEW id \in Ids,
               Setup(c, channel, id)
        PROVE  SavedAsRead'
    BY <2>3 DEF Setup, FactorInv, SavedAsRead
  <2>4. ASSUME NEW c \in Clients, NEW r \in Requests, ConfirmRegistration(r, c)
        PROVE  SavedAsRead'
    BY <1>0, <2>4 DEF ConfirmRegistration, FactorInv, SavedAsRead
  <2>5. ASSUME NEW r \in Requests, NEW setAsDefault2fa \in BOOLEAN,
               Register(r, setAsDefault2fa)
        PROVE  SavedAsRead'
    <3>1. \A x \in Requests : x # r => reqs[x] = Idle
      BY <1>0, <2>5 DEF Register, SerialInv, OneAtATime
    <3>2. \A x \in Requests : reqs'[x] = Idle
      BY <1>0, <2>5, <3>1 DEF Register
    <3> QED
      BY <1>0, <3>2 DEF SavedAsRead
  <2>6. ASSUME NEW r \in Requests, RegisterFails(r) PROVE SavedAsRead'
    BY <1>0, <2>6 DEF RegisterFails, FactorInv, SavedAsRead
  <2>7. ASSUME NEW channel \in Channels, RemoveVerification(channel)
        PROVE  SavedAsRead'
    BY <1>0, <2>7 DEF RemoveVerification, MayStart, Serial, Quiet, SavedAsRead
  <2> QED
    BY <2>1, <2>2, <2>3, <2>4, <2>5, <2>6, <2>7 DEF SetupNext
<1> QED
  BY <1>1, <1>2, <1>3 DEF FactorInv

(* The state of SecondFactors, and what it becomes.                         *)
VerifiedOf == [a \in {Account} |-> verified]
FactorOf == [a \in {Account} |-> {tfa} \ {None}]

LEMMA FactorStep ==
    FactorInv /\ Serial /\ [SetupNext]_setupVars => [SF!Next]_<<VerifiedOf, FactorOf>>
<1> SUFFICES ASSUME FactorInv, Serial, [SetupNext]_setupVars,
                    <<verified, tfa>>' # <<verified, tfa>>
             PROVE  SF!Next
  BY DEF VerifiedOf, FactorOf
<1>0. /\ TypeOK /\ SerialInv /\ tfa \in Channels \cup {None}
      /\ verified \subseteq Channels /\ None \notin Channels
  BY LoginAssumption DEF FactorInv, SerialInv, SetupTypes, SetupTypeOK, TypeOK
<1>1. CASE LoginNext
  <2>1. UNCHANGED verified /\ tfa' # tfa
    BY <1>1 DEF LoginNext
  <2>2. tfa' \in verified \cup {None}
    BY <1>1 DEF LoginNext
  <2>3. CASE tfa' = None
    <3>1. SF!Disable(Account)
      BY <2>1, <2>3 DEF SF!Disable
    <3> QED
      BY <3>1 DEF SF!Next
  <2>4. CASE tfa' \in verified /\ tfa' # None
    <3>1. SF!Enable(Account, tfa')
      BY <2>1, <2>4 DEF SF!Enable
    <3> QED
      BY <1>0, <2>4, <3>1 DEF SF!Next
  <2> QED
    BY <2>2, <2>3, <2>4
<1>2. ASSUME NEW r \in Requests, NEW setAsDefault2fa \in BOOLEAN,
             Register(r, setAsDefault2fa)
      PROVE  SF!Next
  <2> DEFINE c == reqs[r].channel
  <2>1. c \in Channels /\ c \notin verified /\ verified' = verified \cup {c}
    BY <1>0, <1>2, RegisterTypes DEF Register
  <2>2. tfa' \in {tfa, c}
    BY <1>2 DEF Register, FactorInv, SavedAsRead
  <2> HIDE DEF c
  <2>3. SF!Verify(Account, c)
    BY <1>0, <2>1, <2>2 DEF SF!Verify
  <2> QED
    BY <2>1, <2>3 DEF SF!Next
<1>3. ASSUME NEW channel \in Channels, RemoveVerification(channel) PROVE SF!Next
  <2>1. /\ channel \in verified /\ verified' = verified \ {channel}
        /\ tfa' = IF tfa = channel THEN None ELSE tfa
    BY <1>3 DEF RemoveVerification
  <2>2. {tfa'} \ {None} = ({tfa} \ {None}) \ {channel}
    BY <1>0, <2>1
  <2>3. SF!Remove(Account, channel)
    BY <2>1, <2>2 DEF SF!Remove
  <2> QED
    BY <2>3 DEF SF!Next
<1>4. CASE UNCHANGED <<verified, tfa>>
  BY <1>4
<1> QED
  BY <1>1, <1>2, <1>3, <1>4 DEF SetupNext, setupVars, Setup, ConfirmRegistration, RegisterFails

(* While handlers do not overlap, logins and setups that save the user they *)
(* read change the account only as the handlers of UserAccounts do, also if *)
(* saves are refused, codes sent late or the server restarted meanwhile.    *)
THEOREM SetupsImplementSecondFactors == Serial /\ SetupSpec => ImplementsSecondFactors
<1> SUFFICES ASSUME Serial PROVE SetupSpec => SF!Spec
  BY DEF ImplementsSecondFactors
<1>1. SetupInit => FactorInv
  BY SetupTypeInit, SerialInit, PhaseOfIdle DEF SetupInit, Init, FactorInv, SavedAsRead
<1>2. SetupInit => SF!Init
  <2> SUFFICES ASSUME SetupInit PROVE SF!Init
    OBVIOUS
  <2>1. verified \in SUBSET Channels /\ tfa \in verified
    BY DEF SetupInit
  <2>2. {tfa} \ {None} = {tfa}
    BY <2>1, LoginAssumption
  <2> QED
    BY <2>1, <2>2 DEF SF!Init
<1>3. FactorInv /\ [SetupNext]_setupVars => FactorInv'
  BY FactorNext
<1>4. FactorInv /\ [SetupNext]_setupVars => [SF!Next]_<<VerifiedOf, FactorOf>>
  BY FactorStep
<1> QED
  BY <1>1, <1>2, <1>3, <1>4, PTL DEF SetupSpec, SF!Spec, VerifiedOf, FactorOf
=============================================================================
