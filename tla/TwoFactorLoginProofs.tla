------------------------ MODULE TwoFactorLoginProofs ------------------------
(***************************************************************************)
(* Theorems about TwoFactorLogin, for any number of browsers, confirmations*)
(* and sends in flight, and for any window and lifetimes.                  *)
(***************************************************************************)
EXTENDS TwoFactorLogin, TLAPS

-----------------------------------------------------------------------------
(* Entries                                                                  *)

LEMMA CreatedType ==
    ASSUME NEW k \in Stores, NEW id \in Ids,
           NEW channel \in OTPChannel \cup {None}, NEW otp \in Ids \cup {None}
    PROVE  /\ Created(k, id, channel, otp) \in Entry
           /\ Created(k, id, channel, otp).id = id
           /\ Created(k, id, channel, otp).channel = channel
           /\ Created(k, id, channel, otp).otp = otp
           /\ Created(k, id, channel, otp).attempts = 0
BY StoreAssumption DEF Created, Entry, LifetimeOf, Immortal, Stores

(* Writing an entry back changes nothing but its ttl...                     *)
LEMMA StoredType ==
    ASSUME NEW entry \in Entry, NEW ttl \in NoKey..SetupLifetime, SetAccepts(ttl)
    PROVE  /\ Stored(entry, ttl) \in Entry
           /\ Stored(entry, ttl).id = entry.id
           /\ Stored(entry, ttl).channel = entry.channel
           /\ Stored(entry, ttl).otp = entry.otp
           /\ Stored(entry, ttl).attempts = entry.attempts
BY StoreAssumption DEF Stored, Entry, SetAccepts, Immortal, NoKey

(* ... and so does time.                                                    *)
LEMMA LaterType ==
    ASSUME NEW entry \in Entry \cup {None}
    PROVE  /\ Later(entry) \in Entry \cup {None}
           /\ Later(entry) # None =>
                /\ entry # None
                /\ Later(entry).id = entry.id
                /\ Later(entry).channel = entry.channel
                /\ Later(entry).otp = entry.otp
                /\ Later(entry).attempts = entry.attempts
<1>1. CASE entry = None
  BY <1>1 DEF Later, Aged
<1>2. CASE entry # None
  <2>1. entry \in Entry
    BY <1>2
  <2>2. entry.ttl \in {Immortal} \cup 0..SetupLifetime
    BY <2>1 DEF Entry
  <2>3. CASE entry.ttl \in 1..SetupLifetime
    <3>1. [entry EXCEPT !.ttl = @ - 1] \in Entry
      BY <2>1, <2>3, StoreAssumption DEF Entry, Immortal
    <3>2. LET e == [entry EXCEPT !.ttl = @ - 1]
          IN  /\ e.id = entry.id /\ e.channel = entry.channel
              /\ e.otp = entry.otp /\ e.attempts = entry.attempts
      BY <2>1 DEF Entry
    <3>3. Later(entry) \in {None, [entry EXCEPT !.ttl = @ - 1]}
      BY <1>2, <2>3 DEF Later, Aged, Immortal
    <3> QED
      BY <1>2, <3>1, <3>2, <3>3
  <2>4. CASE entry.ttl \in {Immortal, 0}
    <3>1. Later(entry) \in {None, entry}
      BY <1>2, <2>4 DEF Later, Aged
    <3> QED
      BY <1>2, <3>1
  <2> QED
    BY <2>2, <2>3, <2>4 DEF Immortal
<1> QED
  BY <1>1, <1>2

LEMMA TtlType ==
    ASSUME NEW entry \in Entry \cup {None}
    PROVE  TtlOf(entry) \in NoKey..SetupLifetime
BY StoreAssumption DEF TtlOf, Entry, NoKey, Immortal

LEMMA OtpType ==
    ASSUME NEW entry \in Entry, NEW otp \in Ids
    PROVE  LET e == [entry EXCEPT !.otp = otp]
           IN  /\ e \in Entry
               /\ e.id = entry.id
               /\ e.channel = entry.channel
               /\ e.otp = otp
               /\ e.attempts = entry.attempts
BY DEF Entry

LEMMA AttemptsType ==
    ASSUME NEW entry \in Entry
    PROVE  LET e == [entry EXCEPT !.attempts = @ + 1]
           IN  /\ e \in Entry
               /\ e.id = entry.id
               /\ e.channel = entry.channel
               /\ e.otp = entry.otp
               /\ e.attempts = entry.attempts + 1
BY DEF Entry

-----------------------------------------------------------------------------
(* What is in flight                                                        *)

LEMMA SendTypes ==
    ASSUME TypeOK, NEW s \in Sends
    PROVE  LET q == sends[s]
           IN  /\ q \in Sending \cup {Idle}
               /\ q.phase \in {"idle", "send", "change", "ttl", "set"}
               /\ q.phase # "idle" => q.store \in Stores
               /\ q.phase = "idle" => q = Idle
               /\ q.phase = "send" =>
                    /\ q \in [phase : {"send"}, store : Stores, id : Ids,
                              channel : OtpVerification, resend : BOOLEAN]
                    /\ q.id \in Ids
                    /\ q.channel \in OtpVerification
                    /\ q.resend \in BOOLEAN
               /\ q.phase = "change" =>
                    /\ q \in [phase : {"change"}, store : Stores, otp : Ids]
                    /\ q.otp \in Ids
               /\ q.phase = "ttl" =>
                    /\ q \in [phase : {"ttl"}, store : Stores, entry : Entry]
                    /\ q.entry \in Entry
               /\ q.phase = "set" =>
                    /\ q \in [phase : {"set"}, store : Stores, entry : Entry,
                              ttl : NoKey..SetupLifetime]
                    /\ q.entry \in Entry
                    /\ q.ttl \in NoKey..SetupLifetime
<1> DEFINE q == sends[s]
           A == [phase : {"send"}, store : Stores, id : Ids,
                 channel : OtpVerification, resend : BOOLEAN]
           B == [phase : {"change"}, store : Stores, otp : Ids]
           C == [phase : {"ttl"}, store : Stores, entry : Entry]
           D == [phase : {"set"}, store : Stores, entry : Entry,
                 ttl : NoKey..SetupLifetime]
<1>1. q \in A \cup B \cup C \cup D \cup {Idle}
  BY DEF TypeOK, Sending
<1>2. \A x \in A : /\ x.phase = "send" /\ x.store \in Stores /\ x.id \in Ids
                   /\ x.channel \in OtpVerification /\ x.resend \in BOOLEAN
  OBVIOUS
<1>3. \A x \in B : x.phase = "change" /\ x.store \in Stores /\ x.otp \in Ids
  OBVIOUS
<1>4. \A x \in C : x.phase = "ttl" /\ x.store \in Stores /\ x.entry \in Entry
  OBVIOUS
<1>5. \A x \in D : /\ x.phase = "set" /\ x.store \in Stores /\ x.entry \in Entry
                   /\ x.ttl \in NoKey..SetupLifetime
  OBVIOUS
<1>6. Idle.phase = "idle"
  BY DEF Idle
<1>7. q \in Sending \cup {Idle}
  BY DEF TypeOK
<1> HIDE DEF q, A, B, C, D
<1>8. /\ q.phase \in {"idle", "send", "change", "ttl", "set"}
      /\ q.phase # "idle" => q.store \in Stores
      /\ q.phase = "idle" => q = Idle
  BY <1>1, <1>2, <1>3, <1>4, <1>5, <1>6
<1>9. /\ q.phase = "send" =>
           q \in A /\ q.id \in Ids /\ q.channel \in OtpVerification /\ q.resend \in BOOLEAN
      /\ q.phase = "change" => q \in B /\ q.otp \in Ids
      /\ q.phase = "ttl" => q \in C /\ q.entry \in Entry
      /\ q.phase = "set" => q \in D /\ q.entry \in Entry /\ q.ttl \in NoKey..SetupLifetime
  BY <1>1, <1>2, <1>3, <1>4, <1>5, <1>6
<1> QED
  BY <1>7, <1>8, <1>9 DEF q, A, B, C, D

LEMMA ReqTypes ==
    ASSUME TypeOK, NEW r \in Requests
    PROVE  LET q == reqs[r]
           IN  /\ q \in Confirmation \cup {Idle}
               /\ q.phase = "idle" => q = Idle
               /\ q.phase = "verify" =>
                    q.client \in Clients /\ q.right \in BOOLEAN /\ q.id \in Ids
               /\ q.phase = "ttl" => q.entry \in Entry
               /\ q.phase = "set" => q.entry \in Entry /\ q.ttl \in NoKey..SetupLifetime
               /\ q.phase = "accept" => q.client \in Clients /\ q.tfa \in Channels
<1> DEFINE q == reqs[r]
           A == [phase : {"verify"}, client : Clients, right : BOOLEAN, id : Ids]
           B == [phase : {"count", "exceeded", "cancel"}]
           C == [phase : {"ttl"}, entry : Entry]
           D == [phase : {"set"}, entry : Entry, ttl : NoKey..SetupLifetime]
           E == [phase : {"accept"}, client : Clients, tfa : Channels]
           F == [phase : {"register"}, client : Clients, channel : Channels,
                 tfa : Channels \cup {None}]
<1>1. q \in A \cup B \cup C \cup D \cup E \cup F \cup {Idle}
  BY DEF TypeOK, Confirmation
<1>2. \A x \in A : /\ x.phase = "verify" /\ x.client \in Clients
                   /\ x.right \in BOOLEAN /\ x.id \in Ids
  OBVIOUS
<1>3. \A x \in B : x.phase \in {"count", "exceeded", "cancel"}
  OBVIOUS
<1>4. \A x \in C : x.phase = "ttl" /\ x.entry \in Entry
  OBVIOUS
<1>5. \A x \in D : x.phase = "set" /\ x.entry \in Entry /\ x.ttl \in NoKey..SetupLifetime
  OBVIOUS
<1>6. \A x \in E : x.phase = "accept" /\ x.client \in Clients /\ x.tfa \in Channels
  OBVIOUS
<1>7. \A x \in F : x.phase = "register"
  OBVIOUS
<1>8. Idle.phase = "idle"
  BY DEF Idle
<1>9. q \in Confirmation \cup {Idle}
  BY DEF TypeOK
<1> HIDE DEF q, A, B, C, D, E, F
<1>10. /\ q.phase = "idle" => q = Idle
       /\ q.phase = "verify" =>
            q.client \in Clients /\ q.right \in BOOLEAN /\ q.id \in Ids
       /\ q.phase = "ttl" => q.entry \in Entry
       /\ q.phase = "set" => q.entry \in Entry /\ q.ttl \in NoKey..SetupLifetime
       /\ q.phase = "accept" => q.client \in Clients /\ q.tfa \in Channels
  BY <1>1, <1>2, <1>3, <1>4, <1>5, <1>6, <1>7, <1>8
<1> QED
  BY <1>9, <1>10 DEF q

-----------------------------------------------------------------------------
(* Type correctness                                                         *)

LEMMA EndTypes ==
    ASSUME TypeOK, ProcessEnds
    PROVE  /\ throttle' \in 0..Window
           /\ sends' \in [Sends -> Sending \cup {Idle}]
           /\ reqs' \in [Requests -> Confirmation \cup {Idle}]
BY LoginAssumption DEF ProcessEnds

LEMMA RequestTypes ==
    ASSUME TypeOK, NEW k \in Stores, NEW id \in Ids, NEW channel \in OtpVerification,
           NEW resend \in BOOLEAN, RequestCode(k, id, channel, resend)
    PROVE  /\ throttle' \in 0..Window
           /\ sends' \in [Sends -> Sending \cup {Idle}]
<1> DEFINE Q == [phase |-> "send", store |-> k, id |-> id, channel |-> channel,
                 resend |-> resend]
<1>1. Q \in Sending
  BY DEF Sending
<1> HIDE DEF Q
<1>2. \/ /\ throttle' = Window
         /\ \E s \in Sends : sends' = [sends EXCEPT ![s] = Q]
      \/ UNCHANGED <<throttle, sends>>
  BY DEF RequestCode, Q
<1>3. sends \in [Sends -> Sending \cup {Idle}] /\ throttle \in 0..Window
  BY DEF TypeOK
<1> QED
  BY <1>1, <1>2, <1>3, LoginAssumption

LEMMA InitiateTypes ==
    ASSUME TypeOK, NEW k \in Stores, NEW id \in Ids, NEW channel \in OTPChannel,
           Initiate(k, id, channel)
    PROVE  /\ throttle' \in 0..Window
           /\ sends' \in [Sends -> Sending \cup {Idle}]
           /\ cache' \in [Stores -> Entry \cup {None}]
<1>1. CASE channel \in OtpVerification
  <2>1. RequestCode(k, id, channel, FALSE) /\ UNCHANGED cache
    BY <1>1 DEF Initiate, OtpVerification, TotpVerification
  <2> QED
    BY <1>1, <2>1, RequestTypes DEF TypeOK
<1>2. CASE channel = TotpVerification
  <2>1. /\ cache' = [cache EXCEPT ![k] = Created(k, id, channel, None)]
        /\ UNCHANGED <<throttle, sends>>
    BY <1>2 DEF Initiate, OtpVerification, TotpVerification
  <2>2. Created(k, id, channel, None) \in Entry
    BY CreatedType
  <2> QED
    BY <2>1, <2>2 DEF TypeOK
<1> QED
  BY <1>1, <1>2 DEF OTPChannel

(* A step of a send.                                                        *)
LEMMA SendStepTypes ==
    ASSUME TypeOK, NEW s \in Sends,
           \/ SendCode(s) \/ SendFails(s) \/ ChangeGet(s) \/ ChangeTtl(s) \/ ChangeSet(s)
    PROVE  TypeOK'
<1> DEFINE q == sends[s]
<1>1. sends \in [Sends -> Sending \cup {Idle}] /\ cache \in [Stores -> Entry \cup {None}]
  BY DEF TypeOK
<1>2. CASE SendCode(s)
  <2>1. q.phase = "send"
    BY <1>2 DEF SendCode
  <2>2. q.store \in Stores /\ q.id \in Ids /\ q.channel \in OtpVerification
    BY <2>1, SendTypes
  <2>3. [phase |-> "change", store |-> q.store, otp |-> q.id] \in Sending
    BY <2>2 DEF Sending
  <2>4. Created(q.store, q.id, VerificatorChannel(q.channel), q.id) \in Entry
    <3>1. VerificatorChannel(q.channel) \in OTPChannel \cup {None}
      BY <2>2 DEF VerificatorChannel, OtpVerification, OTPChannel
    <3> QED
      BY <2>2, <3>1, CreatedType
  <2>5. sends' \in [Sends -> Sending \cup {Idle}]
    BY <1>1, <1>2, <2>3 DEF SendCode
  <2>6. cache' \in [Stores -> Entry \cup {None}]
    BY <1>1, <1>2, <2>4 DEF SendCode
  <2> QED
    BY <1>2, <2>5, <2>6 DEF SendCode, TypeOK
<1>3. CASE SendFails(s)
  BY <1>3, EndTypes DEF SendFails, TypeOK
<1>4. CASE ChangeGet(s)
  <2>1. CASE cache[q.store] = None
    BY <1>4, <2>1, EndTypes DEF ChangeGet, TypeOK
  <2>2. CASE cache[q.store] # None
    <3>1. q.store \in Stores /\ q.otp \in Ids
      BY <1>4, SendTypes DEF ChangeGet
    <3>2. cache[q.store] \in Entry
      BY <1>1, <2>2, <3>1
    <3>3. [cache[q.store] EXCEPT !.otp = q.otp] \in Entry
      BY <3>1, <3>2, OtpType
    <3>4. [phase |-> "ttl", store |-> q.store,
           entry |-> [cache[q.store] EXCEPT !.otp = q.otp]] \in Sending
      BY <3>1, <3>3 DEF Sending
    <3> QED
      BY <1>1, <1>4, <2>2, <3>4 DEF ChangeGet, TypeOK
  <2> QED
    BY <2>1, <2>2
<1>5. CASE ChangeTtl(s)
  <2>1. q.store \in Stores /\ q.entry \in Entry
    BY <1>5, SendTypes DEF ChangeTtl
  <2>2. TtlOf(cache[q.store]) \in NoKey..SetupLifetime
    BY <1>1, <2>1, TtlType
  <2>3. [phase |-> "set", store |-> q.store, entry |-> q.entry,
         ttl |-> TtlOf(cache[q.store])] \in Sending
    BY <2>1, <2>2 DEF Sending
  <2> QED
    BY <1>1, <1>5, <2>3 DEF ChangeTtl, TypeOK
<1>6. CASE ChangeSet(s)
  <2>1. q.store \in Stores /\ q.entry \in Entry /\ q.ttl \in NoKey..SetupLifetime
    BY <1>6, SendTypes DEF ChangeSet
  <2>2. CASE SetAccepts(q.ttl)
    <3>1. Stored(q.entry, q.ttl) \in Entry
      BY <2>1, <2>2, StoredType
    <3> QED
      BY <1>1, <1>6, <2>1, <2>2, <3>1 DEF ChangeSet, TypeOK
  <2>3. CASE ~SetAccepts(q.ttl)
    BY <1>6, <2>3, EndTypes DEF ChangeSet, TypeOK
  <2> QED
    BY <2>2, <2>3
<1> QED
  BY <1>2, <1>3, <1>4, <1>5, <1>6

(* A step of a client.                                                      *)
LEMMA ClientStepTypes ==
    ASSUME TypeOK, NEW c \in Clients,
           \/ \E id \in Ids : Login2FA(c, id)
           \/ CompleteLogin(c)
           \/ Resend(c)
           \/ Logout(c)
           \/ \E k \in Stores : CookieExpires(k, c)
           \/ \E r \in Requests, right \in BOOLEAN : Confirm(r, c, right)
    PROVE  TypeOK'
<1>1. /\ cookies \in [Stores -> [Clients -> Cookie \cup {None}]]
      /\ wrong \in [Clients -> 0..MaxWrong]
      /\ [wrong EXCEPT ![c] = 0] \in [Clients -> 0..MaxWrong]
  BY LoginAssumption DEF TypeOK
<1>2. ASSUME NEW id \in Ids, Login2FA(c, id)
      PROVE  TypeOK'
  <2>1. tfa \in OTPChannel
    BY <1>2, LoginAssumption DEF Login2FA, TypeOK
  <2>2. [id |-> id, channel |-> tfa] \in Cookie
    BY <2>1 DEF Cookie
  <2>3. cookies' \in [Stores -> [Clients -> Cookie \cup {None}]]
    BY <1>1, <1>2, <2>2 DEF Login2FA, Stores
  <2>4. "login" \in Stores
    BY DEF Stores
  <2>5. /\ throttle' \in 0..Window
        /\ sends' \in [Sends -> Sending \cup {Idle}]
        /\ cache' \in [Stores -> Entry \cup {None}]
    BY <1>2, <2>1, <2>4, InitiateTypes DEF Login2FA
  <2> QED
    BY <1>1, <1>2, <2>3, <2>5 DEF Login2FA, TypeOK
<1>3. CASE CompleteLogin(c)
  BY <1>3 DEF CompleteLogin, TypeOK
<1>4. CASE Resend(c)
  <2> DEFINE k == StoreOf(c)
             entry == cache[k]
  <2>1. k \in Stores
    BY DEF StoreOf, Stores
  <2>2. entry # None /\ entry.channel \in OtpVerification
    BY <1>4 DEF Resend
  <2>3. entry.id \in Ids
    BY <2>1, <2>2 DEF TypeOK, Entry
  <2>4. RequestCode(k, entry.id, entry.channel, TRUE)
    BY <1>4 DEF Resend
  <2>5. throttle' \in 0..Window /\ sends' \in [Sends -> Sending \cup {Idle}]
    BY <2>1, <2>2, <2>3, <2>4, RequestTypes
  <2> QED
    BY <1>4, <2>5 DEF Resend, TypeOK
<1>5. CASE Logout(c)
  BY <1>5 DEF Logout, TypeOK
<1>6. ASSUME NEW k \in Stores, CookieExpires(k, c)
      PROVE  TypeOK'
  <2>1. cookies' \in [Stores -> [Clients -> Cookie \cup {None}]]
    BY <1>1, <1>6 DEF CookieExpires
  <2>2. wrong' \in [Clients -> 0..MaxWrong]
    BY <1>1, <1>6 DEF CookieExpires
  <2> QED
    BY <1>6, <2>1, <2>2 DEF CookieExpires, TypeOK
<1>7. ASSUME NEW r \in Requests, NEW right \in BOOLEAN, Confirm(r, c, right)
      PROVE  TypeOK'
  <2>1. cache["login"] \in Entry
    BY <1>7 DEF Confirm, TypeOK, Stores
  <2>2. [phase |-> "verify", client |-> c, right |-> right, id |-> cache["login"].id]
          \in Confirmation
    BY <2>1 DEF Confirmation, Entry
  <2> QED
    BY <1>7, <2>2 DEF Confirm, TypeOK
<1> QED
  BY <1>2, <1>3, <1>4, <1>5, <1>6, <1>7

(* A step of a confirmation.                                                *)
LEMMA ConfirmationStepTypes ==
    ASSUME TypeOK, NEW r \in Requests,
           \/ Verify(r) \/ VerifyFails(r) \/ IncrementGet(r) \/ IncrementTtl(r)
           \/ IncrementSet(r) \/ DropEntry(r) \/ Accept(r) \/ AcceptFails(r)
    PROVE  TypeOK'
<1> DEFINE q == reqs[r]
<1>1. /\ reqs \in [Requests -> Confirmation \cup {Idle}]
      /\ cache \in [Stores -> Entry \cup {None}]
      /\ cookies \in [Stores -> [Clients -> Cookie \cup {None}]]
      /\ wrong \in [Clients -> 0..MaxWrong]
      /\ "login" \in Stores
  BY DEF TypeOK, Stores
<1>2. [cache EXCEPT !["login"] = None] \in [Stores -> Entry \cup {None}]
  BY <1>1
<1>3. CASE Verify(r)
  <2>1. q.client \in Clients
    BY <1>3, ReqTypes DEF Verify
  <2>2. /\ [phase |-> "cancel"] \in Confirmation
        /\ [phase |-> "count"] \in Confirmation
        /\ tfa # None => [phase |-> "accept", client |-> q.client, tfa |-> tfa]
                           \in Confirmation
    BY <2>1 DEF Confirmation, TypeOK
  <2>3. reqs' \in [Requests -> Confirmation \cup {Idle}]
    BY <1>1, <1>3, <2>2 DEF Verify
  <2>4. wrong' \in [Clients -> 0..MaxWrong]
    <3>1. CASE wrong' = wrong
      BY <1>1, <3>1
    <3>2. CASE wrong[q.client] < MaxWrong /\ wrong' = [wrong EXCEPT ![q.client] = @ + 1]
      <4>1. wrong[q.client] + 1 \in 0..MaxWrong
        BY <1>1, <2>1, <3>2, LoginAssumption
      <4> QED
        BY <1>1, <3>2, <4>1
    <3> QED
      BY <1>3, <3>1, <3>2 DEF Verify
  <2> QED
    BY <1>3, <2>3, <2>4 DEF Verify, TypeOK
<1>4. CASE VerifyFails(r)
  BY <1>1, <1>4 DEF VerifyFails, TypeOK
<1>5. CASE IncrementGet(r)
  <2>1. cache["login"] # None =>
          [phase |-> "ttl", entry |-> [cache["login"] EXCEPT !.attempts = @ + 1]]
            \in Confirmation
    <3>1. cache["login"] # None => [cache["login"] EXCEPT !.attempts = @ + 1] \in Entry
      BY <1>1, AttemptsType
    <3> QED
      BY <3>1 DEF Confirmation
  <2> QED
    BY <1>1, <1>5, <2>1 DEF IncrementGet, TypeOK
<1>6. CASE IncrementTtl(r)
  <2>1. q.entry \in Entry /\ TtlOf(cache["login"]) \in NoKey..SetupLifetime
    BY <1>1, <1>6, ReqTypes, TtlType DEF IncrementTtl
  <2>2. [phase |-> "set", entry |-> q.entry, ttl |-> TtlOf(cache["login"])]
          \in Confirmation
    BY <2>1 DEF Confirmation
  <2> QED
    BY <1>1, <1>6, <2>2 DEF IncrementTtl, TypeOK
<1>7. CASE IncrementSet(r)
  <2>1. q.entry \in Entry /\ q.ttl \in NoKey..SetupLifetime
    BY <1>7, ReqTypes DEF IncrementSet
  <2>2. SetAccepts(q.ttl) => Stored(q.entry, q.ttl) \in Entry
    BY <2>1, StoredType
  <2>3. cache' \in [Stores -> Entry \cup {None}]
    BY <1>1, <1>7, <2>2 DEF IncrementSet
  <2>4. [phase |-> "exceeded"] \in Confirmation
    BY DEF Confirmation
  <2> QED
    BY <1>1, <1>7, <2>3, <2>4 DEF IncrementSet, TypeOK
<1>8. CASE DropEntry(r)
  BY <1>1, <1>2, <1>8 DEF DropEntry, TypeOK
<1>9. CASE Accept(r)
  <2>1. q.client \in Clients /\ q.tfa \in Channels
    BY <1>9, ReqTypes DEF Accept
  <2>2. cookies' \in [Stores -> [Clients -> Cookie \cup {None}]]
    BY <1>1, <1>9 DEF Accept
  <2>3. wrong' \in [Clients -> 0..MaxWrong]
    <3>1. wrong' = [wrong EXCEPT ![q.client] = 0] /\ 0 \in 0..MaxWrong
      BY <1>9, LoginAssumption DEF Accept
    <3> QED
      BY <1>1, <3>1
  <2> QED
    BY <1>1, <1>2, <1>9, <2>1, <2>2, <2>3 DEF Accept, TypeOK
<1>10. CASE AcceptFails(r)
  BY <1>1, <1>2, <1>10 DEF AcceptFails, TypeOK
<1> QED
  BY <1>3, <1>4, <1>5, <1>6, <1>7, <1>8, <1>9, <1>10

LEMMA TickTypes == TypeOK /\ Tick => TypeOK'
<1> SUFFICES ASSUME TypeOK, Tick PROVE TypeOK'
  OBVIOUS
<1>1. \A k \in Stores : Later(cache[k]) \in Entry \cup {None}
  BY LaterType DEF TypeOK
<1>2. cache' \in [Stores -> Entry \cup {None}]
  BY <1>1 DEF Tick
<1>3. throttle' \in 0..Window
  BY LoginAssumption DEF Tick, TypeOK
<1> QED
  BY <1>2, <1>3 DEF Tick, TypeOK

LEMMA TypeInit == Init => TypeOK
<1> SUFFICES ASSUME Init PROVE TypeOK
  OBVIOUS
<1> QED
  BY LoginAssumption DEF Init, TypeOK

LEMMA TypeNext == TypeOK /\ [Next]_vars => TypeOK'
<1> SUFFICES ASSUME TypeOK, [Next]_vars PROVE TypeOK'
  OBVIOUS
<1>1. ASSUME NEW channel \in Channels \cup {None}, Set2FA(channel)
      PROVE  TypeOK'
  BY <1>1 DEF Set2FA, TypeOK
<1>2. CASE Restart
  BY <1>2, EndTypes DEF Restart, TypeOK
<1>3. CASE UNCHANGED vars
  BY <1>3 DEF vars, TypeOK
<1> QED
  BY <1>1, <1>2, <1>3, SendStepTypes, ClientStepTypes, ConfirmationStepTypes, TickTypes
     DEF Next

(* The state keeps its types, whatever faults happen.                       *)
THEOREM LoginTypes == Spec => []TypeOK
<1>1. Init => TypeOK
  BY TypeInit
<1>2. TypeOK /\ [Next]_vars => TypeOK'
  BY TypeNext
<1> QED
  BY <1>1, <1>2, PTL DEF Spec

-----------------------------------------------------------------------------
(* Every entry that is cached, or about to be written, has a code.          *)

CodedEntry == {e \in Entry : e.channel # TotpVerification => e.otp # None}

EntriesCoded ==
    /\ \A k \in Stores : cache[k] # None => cache[k] \in CodedEntry
    /\ \A s \in Sends : sends[s].phase \in {"ttl", "set"} => sends[s].entry \in CodedEntry
    /\ \A r \in Requests : reqs[r].phase \in {"ttl", "set"} => reqs[r].entry \in CodedEntry

LEMMA InitiateCoded ==
    ASSUME TypeOK, EntriesCoded, NEW k \in Stores, NEW id \in Ids,
           NEW channel \in OTPChannel, Initiate(k, id, channel), UNCHANGED reqs
    PROVE  EntriesCoded'
<1>1. sends \in [Sends -> Sending \cup {Idle}] /\ cache \in [Stores -> Entry \cup {None}]
  BY DEF TypeOK
<1>2. CASE channel \in OtpVerification
  <2>1. RequestCode(k, id, channel, FALSE) /\ UNCHANGED cache
    BY <1>2 DEF Initiate, OtpVerification, TotpVerification
  <2>2. \A s \in Sends : sends'[s] = sends[s] \/ sends'[s].phase = "send"
    BY <1>1, <2>1 DEF RequestCode
  <2> QED
    BY <2>1, <2>2 DEF EntriesCoded
<1>3. CASE channel = TotpVerification
  <2>1. /\ cache' = [cache EXCEPT ![k] = Created(k, id, channel, None)]
        /\ UNCHANGED <<throttle, sends>>
    BY <1>3 DEF Initiate, OtpVerification, TotpVerification
  <2>2. Created(k, id, channel, None) \in CodedEntry
    BY <1>3, CreatedType DEF CodedEntry
  <2> QED
    BY <1>1, <2>1, <2>2 DEF EntriesCoded
<1> QED
  BY <1>2, <1>3 DEF OTPChannel

LEMMA EndCoded ==
    ASSUME TypeOK, EntriesCoded, ProcessEnds, UNCHANGED cache
    PROVE  EntriesCoded'
BY DEF EntriesCoded, ProcessEnds, Idle

LEMMA CodedNext == TypeOK /\ EntriesCoded /\ [Next]_vars => EntriesCoded'
<1> SUFFICES ASSUME TypeOK, EntriesCoded, [Next]_vars PROVE EntriesCoded'
  OBVIOUS
<1>1. /\ sends \in [Sends -> Sending \cup {Idle}]
      /\ reqs \in [Requests -> Confirmation \cup {Idle}]
      /\ cache \in [Stores -> Entry \cup {None}]
      /\ "login" \in Stores
      /\ Idle.phase = "idle"
  BY DEF TypeOK, Stores, Idle
<1>2. ASSUME NEW s \in Sends, SendCode(s) PROVE EntriesCoded'
  <2> DEFINE q == sends[s]
  <2>1. q.store \in Stores /\ q.id \in Ids /\ q.channel \in OtpVerification
    BY <1>2, SendTypes DEF SendCode
  <2>2. Created(q.store, q.id, VerificatorChannel(q.channel), q.id) \in CodedEntry
    <3>1. VerificatorChannel(q.channel) \in OTPChannel \cup {None}
      BY <2>1 DEF VerificatorChannel, OtpVerification, OTPChannel
    <3> QED
      BY <2>1, <3>1, CreatedType, StoreAssumption DEF CodedEntry
  <2>3. \A x \in Sends : sends'[x] = sends[x] \/ sends'[x].phase \in {"idle", "change"}
    BY <1>1, <1>2 DEF SendCode
  <2>4. \A k \in Stores : cache'[k] = cache[k] \/ cache'[k] \in CodedEntry
    BY <1>1, <1>2, <2>2 DEF SendCode
  <2> QED
    BY <1>2, <2>3, <2>4 DEF EntriesCoded, SendCode
<1>3. ASSUME NEW s \in Sends, ChangeGet(s) PROVE EntriesCoded'
  <2> DEFINE q == sends[s]
  <2>1. CASE cache[q.store] = None
    BY <1>3, <2>1, EndCoded DEF ChangeGet
  <2>2. CASE cache[q.store] # None
    <3>1. q.store \in Stores /\ q.otp \in Ids
      BY <1>3, SendTypes DEF ChangeGet
    <3>2. [cache[q.store] EXCEPT !.otp = q.otp] \in CodedEntry
      <4>1. cache[q.store] \in Entry
        BY <1>1, <2>2, <3>1
      <4>2. /\ [cache[q.store] EXCEPT !.otp = q.otp] \in Entry
            /\ [cache[q.store] EXCEPT !.otp = q.otp].otp = q.otp
        BY <3>1, <4>1, OtpType
      <4> QED
        BY <3>1, <4>2, StoreAssumption DEF CodedEntry
    <3>3. sends'[s].entry = [cache[q.store] EXCEPT !.otp = q.otp]
      BY <1>1, <1>3, <2>2 DEF ChangeGet
    <3>4. \A x \in Sends : x # s => sends'[x] = sends[x]
      BY <1>1, <1>3, <2>2 DEF ChangeGet
    <3> QED
      BY <1>3, <2>2, <3>2, <3>3, <3>4 DEF ChangeGet, EntriesCoded
  <2> QED
    BY <2>1, <2>2
<1>4. ASSUME NEW s \in Sends, ChangeTtl(s) PROVE EntriesCoded'
  <2>1. sends'[s].entry = sends[s].entry /\ \A x \in Sends : x # s => sends'[x] = sends[x]
    BY <1>1, <1>4 DEF ChangeTtl
  <2> QED
    BY <1>4, <2>1 DEF ChangeTtl, EntriesCoded
<1>5. ASSUME NEW s \in Sends, ChangeSet(s) PROVE EntriesCoded'
  <2> DEFINE q == sends[s]
  <2>1. q.store \in Stores /\ q.ttl \in NoKey..SetupLifetime /\ q.entry \in CodedEntry
    BY <1>5, SendTypes DEF ChangeSet, EntriesCoded
  <2>2. CASE SetAccepts(q.ttl)
    <3>1. Stored(q.entry, q.ttl) \in CodedEntry
      BY <2>1, <2>2, StoredType DEF CodedEntry
    <3> QED
      BY <1>1, <1>5, <2>1, <2>2, <3>1 DEF ChangeSet, EntriesCoded
  <2>3. CASE ~SetAccepts(q.ttl)
    BY <1>5, <2>3, EndCoded DEF ChangeSet
  <2> QED
    BY <2>2, <2>3
<1>6. ASSUME NEW c \in Clients, NEW id \in Ids, Login2FA(c, id) PROVE EntriesCoded'
  <2>1. tfa \in OTPChannel
    BY <1>6, LoginAssumption DEF Login2FA, TypeOK
  <2> QED
    BY <1>1, <1>6, <2>1, InitiateCoded DEF Login2FA
<1>7. ASSUME NEW c \in Clients, Resend(c) PROVE EntriesCoded'
  <2>1. \A s \in Sends : sends'[s] = sends[s] \/ sends'[s].phase = "send"
    BY <1>1, <1>7 DEF Resend, RequestCode
  <2> QED
    BY <1>7, <2>1 DEF Resend, EntriesCoded
<1>8. ASSUME NEW r \in Requests, NEW c \in Clients, NEW right \in BOOLEAN,
             Confirm(r, c, right)
      PROVE  EntriesCoded'
  BY <1>1, <1>8 DEF Confirm, EntriesCoded
<1>9. ASSUME NEW r \in Requests, IncrementGet(r) PROVE EntriesCoded'
  <2> DEFINE entry == cache["login"]
  <2>1. entry # None => [entry EXCEPT !.attempts = @ + 1] \in CodedEntry
    BY <1>1, AttemptsType DEF EntriesCoded, CodedEntry
  <2>2. entry # None => reqs'[r].entry = [entry EXCEPT !.attempts = @ + 1]
    BY <1>1, <1>9 DEF IncrementGet
  <2>3. entry = None => reqs'[r] = Idle
    BY <1>1, <1>9 DEF IncrementGet
  <2>4. \A x \in Requests : x # r => reqs'[x] = reqs[x]
    BY <1>1, <1>9 DEF IncrementGet
  <2> QED
    BY <1>1, <1>9, <2>1, <2>2, <2>3, <2>4 DEF IncrementGet, EntriesCoded
<1>10. ASSUME NEW r \in Requests, IncrementTtl(r) PROVE EntriesCoded'
  <2>1. reqs'[r].entry = reqs[r].entry /\ \A x \in Requests : x # r => reqs'[x] = reqs[x]
    BY <1>1, <1>10 DEF IncrementTtl
  <2> QED
    BY <1>10, <2>1 DEF IncrementTtl, EntriesCoded
<1>11. ASSUME NEW r \in Requests, IncrementSet(r) PROVE EntriesCoded'
  <2> DEFINE q == reqs[r]
  <2>1. q.ttl \in NoKey..SetupLifetime /\ q.entry \in CodedEntry
    BY <1>11, ReqTypes DEF IncrementSet, EntriesCoded
  <2>2. SetAccepts(q.ttl) => Stored(q.entry, q.ttl) \in CodedEntry
    BY <2>1, StoredType DEF CodedEntry
  <2>3. \A k \in Stores : cache'[k] = cache[k] \/ cache'[k] \in CodedEntry
    BY <1>1, <1>11, <2>2 DEF IncrementSet
  <2>4. \A x \in Requests : reqs'[x] = reqs[x] \/ reqs'[x].phase \in {"idle", "exceeded"}
    BY <1>1, <1>11 DEF IncrementSet
  <2> QED
    BY <1>11, <2>3, <2>4 DEF IncrementSet, EntriesCoded
<1>12. ASSUME NEW r \in Requests,
              Verify(r) \/ VerifyFails(r) \/ DropEntry(r) \/ Accept(r) \/ AcceptFails(r)
       PROVE  EntriesCoded'
  <2>1. \A k \in Stores : cache'[k] = cache[k] \/ cache'[k] = None
    BY <1>1, <1>12 DEF Verify, VerifyFails, DropEntry, Accept, AcceptFails
  <2>2. \A x \in Requests : \/ reqs'[x] = reqs[x]
                            \/ reqs'[x].phase \in {"idle", "cancel", "accept", "count"}
    BY <1>1, <1>12 DEF Verify, VerifyFails, DropEntry, Accept, AcceptFails
  <2>3. sends' = sends
    BY <1>12 DEF Verify, VerifyFails, DropEntry, Accept, AcceptFails
  <2> QED
    BY <2>1, <2>2, <2>3 DEF EntriesCoded
<1>13. CASE Tick
  <2>1. \A k \in Stores : Later(cache[k]) # None => Later(cache[k]) \in CodedEntry
    BY <1>1, LaterType DEF EntriesCoded, CodedEntry
  <2> QED
    BY <1>13, <2>1 DEF Tick, EntriesCoded
<1>14. ASSUME NEW s \in Sends, SendFails(s) PROVE EntriesCoded'
  BY <1>14, EndCoded DEF SendFails
<1>15. CASE Restart
  BY <1>15, EndCoded DEF Restart
<1>16. ASSUME UNCHANGED <<cache, sends, reqs>> PROVE EntriesCoded'
  BY <1>16 DEF EntriesCoded
<1>17. ASSUME NEW c \in Clients,
              CompleteLogin(c) \/ Logout(c) \/ \E k \in Stores : CookieExpires(k, c)
       PROVE  EntriesCoded'
  BY <1>16, <1>17 DEF CompleteLogin, Logout, CookieExpires
<1>18. ASSUME NEW channel \in Channels \cup {None}, Set2FA(channel)
       PROVE  EntriesCoded'
  BY <1>16, <1>18 DEF Set2FA
<1>19. CASE UNCHANGED vars
  BY <1>16, <1>19 DEF vars
<1> QED
  BY <1>2, <1>3, <1>4, <1>5, <1>6, <1>7, <1>8, <1>9, <1>10, <1>11, <1>12, <1>13,
     <1>14, <1>15, <1>17, <1>18, <1>19 DEF Next

(* Whatever faults happen and however handlers overlap, an entry of a       *)
(* channel that sends codes has a code to compare with: the entry is written*)
(* after its code was sent, and no rewriting loses the code.                *)
THEOREM EntriesAlwaysHaveCodes == Spec => []EntryHasCode
<1>1. Init => TypeOK /\ EntriesCoded
  BY TypeInit DEF Init, EntriesCoded, Idle
<1>2. TypeOK /\ EntriesCoded /\ [Next]_vars => TypeOK' /\ EntriesCoded'
  BY TypeNext, CodedNext
<1>3. TypeOK /\ EntriesCoded => EntryHasCode
  BY DEF EntriesCoded, EntryHasCode, CodedEntry
<1> QED
  BY <1>1, <1>2, <1>3, PTL DEF Spec

-----------------------------------------------------------------------------
(* For the channels whose verificator has the right channel id, everything  *)
(* that is known of a login, or of a setup, agrees on its channel.          *)

RightChannels == Channels \subseteq {"Email", TotpVerification}

Names(x, id, channel) == x # None /\ x.id = id /\ x.channel = channel
SendNames(q, k, id, channel) ==
    /\ q.phase # "idle"
    /\ q.store = k
    /\ \/ q.phase = "send" /\ ~q.resend /\ q.id = id /\ q.channel = channel
       \/ q.phase \in {"ttl", "set"} /\ Names(q.entry, id, channel)
RequestNames(q, k, id, channel) ==
    k = "login" /\ q.phase \in {"ttl", "set"} /\ Names(q.entry, id, channel)

Known(k, id, channel) ==
    \/ Names(cache[k], id, channel)
    \/ \E c \in Clients : Names(cookies[k][c], id, channel)
    \/ \E s \in Sends : SendNames(sends[s], k, id, channel)
    \/ \E r \in Requests : RequestNames(reqs[r], k, id, channel)

OneChannel ==
    \A k \in Stores, id \in Ids, a, b \in OTPChannel \cup {None} :
        Known(k, id, a) /\ Known(k, id, b) => a = b
CodesRequestedRight ==
    \A s \in Sends :
        sends[s].phase = "send" /\ ~sends[s].resend => sends[s].channel = "Email"
ChannelInv == TypeOK /\ OneChannel /\ CodesRequestedRight

(* Nothing more is known after a step than before.                          *)
NothingNew ==
    \A k \in Stores, id \in Ids, channel \in OTPChannel \cup {None} :
        Known(k, id, channel)' => Known(k, id, channel)

LEMMA FreshUnknown ==
    ASSUME TypeOK, NEW id \in Ids, id \notin IdsInUse, NEW k \in Stores,
           NEW channel \in OTPChannel \cup {None}
    PROVE  ~Known(k, id, channel)
<1>0. /\ \A j \in Stores : id \notin IdsOfEntry(cache[j]) /\ id \notin IdsOfCookies(j)
      /\ \A s \in Sends : id \notin IdsHeld(sends[s])
      /\ \A r \in Requests : id \notin IdsHeld(reqs[r])
  <2>1. id \notin IdsStored /\ id \notin IdsInFlight(sends) /\ id \notin IdsInFlight(reqs)
    BY DEF IdsInUse
  <2>2. ASSUME NEW j \in Stores
        PROVE  id \notin IdsOfEntry(cache[j]) /\ id \notin IdsOfCookies(j)
    <3>1. IdsOfEntry(cache[j]) \cup IdsOfCookies(j)
            \in {IdsOfEntry(cache[x]) \cup IdsOfCookies(x) : x \in Stores}
      OBVIOUS
    <3> QED
      BY <2>1, <3>1 DEF IdsStored
  <2>3. ASSUME NEW s \in Sends PROVE id \notin IdsHeld(sends[s])
    <3>1. IdsHeld(sends[s]) \in {IdsHeld(sends[x]) : x \in DOMAIN sends}
      BY DEF TypeOK
    <3> QED
      BY <2>1, <3>1 DEF IdsInFlight
  <2>4. ASSUME NEW r \in Requests PROVE id \notin IdsHeld(reqs[r])
    <3>1. IdsHeld(reqs[r]) \in {IdsHeld(reqs[x]) : x \in DOMAIN reqs}
      BY DEF TypeOK
    <3> QED
      BY <2>1, <3>1 DEF IdsInFlight
  <2> QED
    BY <2>2, <2>3, <2>4
<1>1. ~Names(cache[k], id, channel)
  <2>1. id \notin IdsOfEntry(cache[k])
    BY <1>0
  <2> QED
    BY <2>1 DEF IdsOfEntry, Names
<1>2. ASSUME NEW c \in Clients PROVE ~Names(cookies[k][c], id, channel)
  BY <1>0 DEF Names, IdsOfCookies
<1>3. ASSUME NEW s \in Sends PROVE ~SendNames(sends[s], k, id, channel)
  <2> DEFINE q == sends[s]
  <2>1. id \notin IdsHeld(q)
    BY <1>0
  <2>2. q.phase = "send" => q.id # id
    <3>1. q.phase = "send" => "id" \in DOMAIN q
      BY SendTypes
    <3> QED
      BY <2>1, <3>1 DEF IdsHeld
  <2>3. q.phase \in {"ttl", "set"} => ~Names(q.entry, id, channel)
    <3>1. q.phase \in {"ttl", "set"} => "entry" \in DOMAIN q
      BY SendTypes
    <3> QED
      BY <2>1, <3>1 DEF IdsHeld, IdsOfEntry, Names
  <2> QED
    BY <2>2, <2>3 DEF SendNames
<1>4. ASSUME NEW r \in Requests PROVE ~RequestNames(reqs[r], k, id, channel)
  <2> DEFINE q == reqs[r]
  <2>1. id \notin IdsHeld(q)
    BY <1>0
  <2>2. q.phase \in {"ttl", "set"} => "entry" \in DOMAIN q
    BY DEF TypeOK, Confirmation, Idle
  <2> QED
    BY <2>1, <2>2 DEF IdsHeld, IdsOfEntry, Names, RequestNames
<1> QED
  BY <1>1, <1>2, <1>3, <1>4 DEF Known

LEMMA EndKnown ==
    ASSUME ProcessEnds, UNCHANGED <<cache, cookies>>
    PROVE  NothingNew /\ CodesRequestedRight'
<1>1. \A s \in Sends : sends'[s] = Idle
  BY DEF ProcessEnds
<1>2. \A r \in Requests : reqs'[r] = Idle
  BY DEF ProcessEnds
<1> QED
  BY <1>1, <1>2
     DEF Idle, NothingNew, CodesRequestedRight, Known, SendNames, RequestNames

(* A step that changes one send and no more...                              *)
LEMMA SendKnown ==
    ASSUME TypeOK, NEW s \in Sends, NEW q, sends' = [sends EXCEPT ![s] = q],
           UNCHANGED <<cache, cookies, reqs>>,
           \A k \in Stores, id \in Ids, channel \in OTPChannel \cup {None} :
              SendNames(q, k, id, channel) => Known(k, id, channel),
           CodesRequestedRight,
           q.phase = "send" /\ ~q.resend => q.channel = "Email"
    PROVE  NothingNew /\ CodesRequestedRight'
<1>1. sends'[s] = q /\ \A x \in Sends : x # s => sends'[x] = sends[x]
  BY DEF TypeOK
<1>2. CodesRequestedRight'
  BY <1>1 DEF CodesRequestedRight
<1>3. ASSUME NEW k \in Stores, NEW id \in Ids, NEW channel \in OTPChannel \cup {None},
             Known(k, id, channel)'
      PROVE  Known(k, id, channel)
  <2>1. CASE \E x \in Sends : SendNames(sends'[x], k, id, channel)
    <3>1. PICK x \in Sends : SendNames(sends'[x], k, id, channel)
      BY <2>1
    <3>2. CASE x = s
      BY <1>1, <3>1, <3>2
    <3>3. CASE x # s
      BY <1>1, <3>1, <3>3 DEF Known
    <3> QED
      BY <3>2, <3>3
  <2>2. CASE ~ \E x \in Sends : SendNames(sends'[x], k, id, channel)
    BY <1>3, <2>2 DEF Known
  <2> QED
    BY <2>1, <2>2
<1> QED
  BY <1>2, <1>3 DEF NothingNew

(* ... or one confirmation and the entry of a login.                        *)
LEMMA RequestKnown ==
    ASSUME TypeOK, NEW r \in Requests, UNCHANGED <<sends, cookies>>,
           \A x \in Requests : x # r => reqs'[x] = reqs[x],
           \A k \in Stores : k # "login" => cache'[k] = cache[k],
           \A id \in Ids, channel \in OTPChannel \cup {None} :
              /\ RequestNames(reqs'[r], "login", id, channel) => Known("login", id, channel)
              /\ Names(cache'["login"], id, channel) => Known("login", id, channel)
    PROVE  NothingNew
<1> SUFFICES ASSUME NEW k \in Stores, NEW id \in Ids, NEW channel \in OTPChannel \cup {None},
                    Known(k, id, channel)'
             PROVE  Known(k, id, channel)
  BY DEF NothingNew
<1>1. CASE \E x \in Requests : RequestNames(reqs'[x], k, id, channel)
  <2>1. PICK x \in Requests : RequestNames(reqs'[x], k, id, channel)
    BY <1>1
  <2>2. k = "login"
    BY <2>1 DEF RequestNames
  <2>3. CASE x = r
    BY <2>1, <2>2, <2>3
  <2>4. CASE x # r
    BY <2>1, <2>4 DEF Known
  <2> QED
    BY <2>3, <2>4
<1>2. CASE Names(cache'[k], id, channel)
  BY <1>2 DEF Known
<1>3. CASE /\ ~ \E x \in Requests : RequestNames(reqs'[x], k, id, channel)
           /\ ~ Names(cache'[k], id, channel)
  BY <1>3 DEF Known
<1> QED
  BY <1>1, <1>2, <1>3

(* A login or a setup that begins is known with the channel of its cookie.  *)
LEMMA BeginKnown ==
    ASSUME ChannelInv, RightChannels, NEW k \in Stores, NEW c \in Clients, NEW id \in Ids,
           id \notin IdsInUse, NEW channel \in Channels,
           cookies' = [cookies EXCEPT ![k][c] = [id |-> id, channel |-> channel]],
           Initiate(k, id, channel), UNCHANGED reqs
    PROVE  OneChannel' /\ CodesRequestedRight'
<1> DEFINE cookie == [id |-> id, channel |-> channel]
           Q == [phase |-> "send", store |-> k, id |-> id, channel |-> channel,
                 resend |-> FALSE]
           New(j, x, ch) == j = k /\ x = id /\ ch = channel
<1>1. /\ cache \in [Stores -> Entry \cup {None}]
      /\ cookies \in [Stores -> [Clients -> Cookie \cup {None}]]
      /\ sends \in [Sends -> Sending \cup {Idle}]
      /\ channel \in OTPChannel
  BY LoginAssumption DEF ChannelInv, TypeOK
<1>2. \A j \in Stores, d \in Clients :
         cookies'[j][d] = cookies[j][d] \/ (j = k /\ cookies'[j][d] = cookie)
  BY <1>1
<1>3. /\ \A s \in Sends : sends'[s] = sends[s] \/ sends'[s] = Q
      /\ channel # "Email" => sends' = sends
      /\ \A j \in Stores : \/ cache'[j] = cache[j]
                           \/ j = k /\ cache'[j] = Created(k, id, channel, None)
  <2>1. CASE channel \in OtpVerification
    <3>1. RequestCode(k, id, channel, FALSE) /\ UNCHANGED cache
      BY <2>1 DEF Initiate, OtpVerification, TotpVerification
    <3>2. channel = "Email"
      BY <2>1 DEF RightChannels, OtpVerification, TotpVerification
    <3> QED
      BY <1>1, <3>1, <3>2 DEF RequestCode
  <2>2. CASE channel = TotpVerification
    <3>1. /\ cache' = [cache EXCEPT ![k] = Created(k, id, channel, None)]
          /\ UNCHANGED <<throttle, sends>>
      BY <2>2 DEF Initiate, OtpVerification, TotpVerification
    <3> QED
      BY <1>1, <3>1
  <2> QED
    BY <1>1, <2>1, <2>2 DEF OTPChannel
<1>4. ASSUME NEW j \in Stores, NEW x \in Ids, NEW ch \in OTPChannel \cup {None},
             Known(j, x, ch)'
      PROVE  Known(j, x, ch) \/ New(j, x, ch)
  <2>1. CASE Names(cache'[j], x, ch)
    <3>1. LET e == Created(k, id, channel, None) IN e.id = id /\ e.channel = channel
      BY <1>1, CreatedType
    <3>2. CASE cache'[j] = cache[j]
      BY <2>1, <3>2 DEF Known
    <3>3. CASE j = k /\ cache'[j] = Created(k, id, channel, None)
      BY <2>1, <3>1, <3>3 DEF Names
    <3> QED
      BY <1>3, <3>2, <3>3
  <2>2. CASE \E d \in Clients : Names(cookies'[j][d], x, ch)
    BY <1>2, <2>2 DEF Known, Names
  <2>3. CASE \E s \in Sends : SendNames(sends'[s], j, x, ch)
    BY <1>3, <2>3 DEF Known, SendNames
  <2>4. CASE \E r \in Requests : RequestNames(reqs[r], j, x, ch)
    BY <2>4 DEF Known
  <2> QED
    BY <1>4, <2>1, <2>2, <2>3, <2>4 DEF Known
<1>5. OneChannel'
  <2> SUFFICES ASSUME NEW j \in Stores, NEW x \in Ids, NEW a \in OTPChannel \cup {None},
                      NEW b \in OTPChannel \cup {None}, Known(j, x, a)', Known(j, x, b)'
               PROVE  a = b
    BY DEF OneChannel
  <2>1. ~Known(k, id, a) /\ ~Known(k, id, b)
    BY FreshUnknown DEF ChannelInv
  <2>2. /\ Known(j, x, a) \/ New(j, x, a)
        /\ Known(j, x, b) \/ New(j, x, b)
    BY <1>4
  <2> QED
    BY <2>1, <2>2 DEF ChannelInv, OneChannel
<1>6. CodesRequestedRight'
  BY <1>3 DEF CodesRequestedRight, ChannelInv
<1> QED
  BY <1>5, <1>6

LEMMA ChannelNext == ChannelInv /\ RightChannels /\ [Next]_vars => ChannelInv'
<1> SUFFICES ASSUME ChannelInv, RightChannels, [Next]_vars PROVE ChannelInv'
  OBVIOUS
<1>1. /\ TypeOK
      /\ CodesRequestedRight
      /\ sends \in [Sends -> Sending \cup {Idle}]
      /\ reqs \in [Requests -> Confirmation \cup {Idle}]
      /\ cache \in [Stores -> Entry \cup {None}]
      /\ cookies \in [Stores -> [Clients -> Cookie \cup {None}]]
      /\ "login" \in Stores
      /\ Idle.phase = "idle"
  BY DEF ChannelInv, TypeOK, Stores, Idle
<1>2. \A q, k, id, channel :
         q.phase = "idle" => ~SendNames(q, k, id, channel) /\ ~RequestNames(q, k, id, channel)
  BY DEF SendNames, RequestNames
<1>3. \A id, channel : ~Names(None, id, channel)
  BY DEF Names
<1>4. ASSUME NothingNew, CodesRequestedRight' PROVE ChannelInv'
  BY <1>1, <1>4, TypeNext DEF ChannelInv, OneChannel, NothingNew
<1>5. ASSUME NEW s \in Sends, SendCode(s) PROVE ChannelInv'
  <2> DEFINE q == sends[s]
             e == Created(q.store, q.id, VerificatorChannel(q.channel), q.id)
  <2>1. /\ q.phase = "send"
        /\ q.store \in Stores /\ q.id \in Ids /\ q.channel \in OtpVerification
        /\ q.resend \in BOOLEAN
    BY <1>1, <1>5, SendTypes DEF SendCode
  <2>2. CASE q.resend
    <3> DEFINE p == [phase |-> "change", store |-> q.store, otp |-> q.id]
    <3>1. sends' = [sends EXCEPT ![s] = p] /\ UNCHANGED <<cache, cookies, reqs>>
      BY <1>5, <2>2 DEF SendCode
    <3>2. p.phase = "change" /\ \A k, id, channel : ~SendNames(p, k, id, channel)
      BY DEF SendNames
    <3> HIDE DEF p
    <3>3. NothingNew /\ CodesRequestedRight'
      BY <1>1, <3>1, <3>2, SendKnown
    <3> QED
      BY <1>4, <3>3
  <2>3. CASE ~q.resend
    <3>1. /\ sends' = [sends EXCEPT ![s] = Idle]
          /\ cache' = [cache EXCEPT ![q.store] = e]
          /\ UNCHANGED <<cookies, reqs>>
      BY <1>5, <2>3 DEF SendCode
    <3>2. q.channel = "Email"
      BY <1>1, <2>1, <2>3 DEF CodesRequestedRight
    <3>3. e.id = q.id /\ e.channel = "Email"
      <4>1. VerificatorChannel(q.channel) = "Email"
        BY <3>2 DEF VerificatorChannel
      <4> QED
        BY <2>1, <4>1, CreatedType DEF OTPChannel, OtpVerification
    <3>4. \A x \in Sends : sends'[x] = sends[x] \/ sends'[x].phase = "idle"
      BY <1>1, <3>1
    <3>5. \A k \in Stores : cache'[k] = cache[k] \/ (k = q.store /\ cache'[k] = e)
      BY <1>1, <3>1
    <3>6. ASSUME NEW k \in Stores, NEW id \in Ids, NEW channel \in OTPChannel \cup {None},
                 Known(k, id, channel)'
          PROVE  Known(k, id, channel)
      <4>1. CASE Names(cache'[k], id, channel)
        <5>1. CASE k = q.store /\ cache'[k] = e
          <6>1. SendNames(q, k, id, channel)
            BY <2>1, <2>3, <3>2, <3>3, <4>1, <5>1 DEF SendNames, Names
          <6> QED
            BY <6>1 DEF Known
        <5>2. CASE cache'[k] = cache[k]
          BY <4>1, <5>2 DEF Known
        <5> QED
          BY <3>5, <5>1, <5>2
      <4>2. CASE \E x \in Sends : SendNames(sends'[x], k, id, channel)
        BY <1>2, <3>4, <4>2 DEF Known
      <4>3. CASE /\ ~Names(cache'[k], id, channel)
                 /\ ~ \E x \in Sends : SendNames(sends'[x], k, id, channel)
        BY <3>1, <3>6, <4>3 DEF Known
      <4> QED
        BY <4>1, <4>2, <4>3
    <3>7. CodesRequestedRight'
      BY <1>1, <3>4 DEF CodesRequestedRight
    <3> QED
      BY <1>4, <3>6, <3>7 DEF NothingNew
  <2> QED
    BY <2>2, <2>3
<1>6. ASSUME NEW s \in Sends, ChangeGet(s) PROVE ChannelInv'
  <2> DEFINE q == sends[s]
             e == [cache[q.store] EXCEPT !.otp = q.otp]
             p == [phase |-> "ttl", store |-> q.store, entry |-> e]
  <2>1. CASE cache[q.store] = None
    BY <1>4, <1>6, <2>1, EndKnown DEF ChangeGet
  <2>2. CASE cache[q.store] # None
    <3>1. q.store \in Stores /\ q.otp \in Ids
      BY <1>1, <1>6, SendTypes DEF ChangeGet
    <3>2. e.id = cache[q.store].id /\ e.channel = cache[q.store].channel
      BY <1>1, <2>2, <3>1, OtpType
    <3>3. sends' = [sends EXCEPT ![s] = p] /\ UNCHANGED <<cache, cookies, reqs>>
      BY <1>6, <2>2 DEF ChangeGet
    <3>4. p.phase = "ttl" /\ p.store = q.store /\ p.entry = e
      OBVIOUS
    <3> HIDE DEF p, e
    <3>5. ASSUME NEW k \in Stores, NEW id \in Ids, NEW channel \in OTPChannel \cup {None},
                 SendNames(p, k, id, channel)
          PROVE  Known(k, id, channel)
      BY <2>2, <3>2, <3>4, <3>5 DEF SendNames, Names, Known
    <3>6. NothingNew /\ CodesRequestedRight'
      BY <1>1, <3>3, <3>4, <3>5, SendKnown
    <3> QED
      BY <1>4, <3>6
  <2> QED
    BY <2>1, <2>2
<1>7. ASSUME NEW s \in Sends, ChangeTtl(s) PROVE ChannelInv'
  <2> DEFINE q == sends[s]
             p == [phase |-> "set", store |-> q.store, entry |-> q.entry,
                   ttl |-> TtlOf(cache[q.store])]
  <2>1. sends' = [sends EXCEPT ![s] = p] /\ UNCHANGED <<cache, cookies, reqs>>
    BY <1>7 DEF ChangeTtl
  <2>2. p.phase = "set" /\ p.store = q.store /\ p.entry = q.entry /\ q.phase = "ttl"
    BY <1>7 DEF ChangeTtl
  <2> HIDE DEF p
  <2>3. ASSUME NEW k \in Stores, NEW id \in Ids, NEW channel \in OTPChannel \cup {None},
               SendNames(p, k, id, channel)
        PROVE  Known(k, id, channel)
    BY <2>2, <2>3 DEF SendNames, Known
  <2>4. NothingNew /\ CodesRequestedRight'
    BY <1>1, <2>1, <2>2, <2>3, SendKnown
  <2> QED
    BY <1>4, <2>4
<1>8. ASSUME NEW s \in Sends, ChangeSet(s) PROVE ChannelInv'
  <2> DEFINE q == sends[s]
  <2>1. /\ q.phase = "set" /\ q.store \in Stores /\ q.entry \in Entry
        /\ q.ttl \in NoKey..SetupLifetime
    BY <1>1, <1>8, SendTypes DEF ChangeSet
  <2>2. CASE SetAccepts(q.ttl)
    <3> DEFINE e == Stored(q.entry, q.ttl)
    <3>1. /\ sends' = [sends EXCEPT ![s] = Idle]
          /\ cache' = [cache EXCEPT ![q.store] = e]
          /\ UNCHANGED <<cookies, reqs>>
      BY <1>8, <2>2 DEF ChangeSet
    <3>2. e.id = q.entry.id /\ e.channel = q.entry.channel
      BY <2>1, <2>2, StoredType
    <3>3. \A x \in Sends : sends'[x] = sends[x] \/ sends'[x].phase = "idle"
      BY <1>1, <3>1
    <3>4. \A k \in Stores : cache'[k] = cache[k] \/ (k = q.store /\ cache'[k] = e)
      BY <1>1, <3>1
    <3>5. q.entry # None
      BY <2>1, NoneAssumption
    <3>6. ASSUME NEW k \in Stores, NEW id \in Ids, NEW channel \in OTPChannel \cup {None},
                 Known(k, id, channel)'
          PROVE  Known(k, id, channel)
      <4>1. CASE Names(cache'[k], id, channel)
        <5>1. CASE k = q.store /\ cache'[k] = e
          <6>1. SendNames(q, k, id, channel)
            BY <2>1, <3>2, <3>5, <4>1, <5>1 DEF SendNames, Names
          <6> QED
            BY <6>1 DEF Known
        <5>2. CASE cache'[k] = cache[k]
          BY <4>1, <5>2 DEF Known
        <5> QED
          BY <3>4, <5>1, <5>2
      <4>2. CASE \E x \in Sends : SendNames(sends'[x], k, id, channel)
        BY <1>2, <3>3, <4>2 DEF Known
      <4>3. CASE /\ ~Names(cache'[k], id, channel)
                 /\ ~ \E x \in Sends : SendNames(sends'[x], k, id, channel)
        BY <3>1, <3>6, <4>3 DEF Known
      <4> QED
        BY <4>1, <4>2, <4>3
    <3>7. CodesRequestedRight'
      BY <1>1, <3>3 DEF CodesRequestedRight
    <3> QED
      BY <1>4, <3>6, <3>7 DEF NothingNew
  <2>3. CASE ~SetAccepts(q.ttl)
    BY <1>4, <1>8, <2>3, EndKnown DEF ChangeSet
  <2> QED
    BY <2>2, <2>3
<1>9. ASSUME NEW s \in Sends, SendFails(s) PROVE ChannelInv'
  BY <1>4, <1>9, EndKnown DEF SendFails
<1>10. CASE Restart
  BY <1>4, <1>10, EndKnown DEF Restart
<1>11. ASSUME NEW c \in Clients, NEW id \in Ids, Login2FA(c, id) PROVE ChannelInv'
  <2>1. tfa \in Channels
    BY <1>1, <1>11 DEF Login2FA, TypeOK
  <2>2. OneChannel' /\ CodesRequestedRight'
    BY <1>1, <1>11, <2>1, BeginKnown DEF Login2FA
  <2> QED
    BY <1>1, <2>2, TypeNext DEF ChannelInv
<1>12. ASSUME NEW c \in Clients, Resend(c) PROVE ChannelInv'
  <2> DEFINE k == StoreOf(c)
             Q == [phase |-> "send", store |-> k, id |-> cache[k].id,
                   channel |-> cache[k].channel, resend |-> TRUE]
  <2>1. UNCHANGED <<cache, cookies, reqs>> /\ RequestCode(k, cache[k].id, cache[k].channel, TRUE)
    BY <1>12 DEF Resend
  <2>2. CASE UNCHANGED sends
    BY <1>1, <1>4, <2>1, <2>2
       DEF NothingNew, Known, SendNames, CodesRequestedRight
  <2>3. ASSUME NEW s \in Sends, sends' = [sends EXCEPT ![s] = Q]
        PROVE  ChannelInv'
    <3>1. Q.resend /\ \A j, id, channel : ~SendNames(Q, j, id, channel)
      BY DEF SendNames
    <3> HIDE DEF Q
    <3>2. NothingNew /\ CodesRequestedRight'
      BY <1>1, <2>1, <2>3, <3>1, SendKnown
    <3> QED
      BY <1>4, <3>2
  <2> QED
    BY <2>1, <2>2, <2>3 DEF RequestCode
<1>13. ASSUME NEW r \in Requests, UNCHANGED <<sends, cookies>>,
              \A x \in Requests : x # r => reqs'[x] = reqs[x],
              \A k \in Stores : k # "login" => cache'[k] = cache[k],
              \A id \in Ids, channel \in OTPChannel \cup {None} :
                 /\ RequestNames(reqs'[r], "login", id, channel) => Known("login", id, channel)
                 /\ Names(cache'["login"], id, channel) => Known("login", id, channel)
       PROVE  ChannelInv'
  <2>1. NothingNew
    BY <1>1, <1>13, RequestKnown
  <2>2. CodesRequestedRight'
    BY <1>1, <1>13 DEF CodesRequestedRight
  <2> QED
    BY <1>4, <2>1, <2>2
<1>14. \A id, channel : Names(cache["login"], id, channel) => Known("login", id, channel)
  BY DEF Known
<1>15. ASSUME NEW r \in Requests, IncrementGet(r) PROVE ChannelInv'
  <2> DEFINE entry == cache["login"]
             e == [entry EXCEPT !.attempts = @ + 1]
  <2>1. /\ \A x \in Requests : x # r => reqs'[x] = reqs[x]
        /\ UNCHANGED <<cache, sends, cookies>>
    BY <1>1, <1>15 DEF IncrementGet
  <2>2. ASSUME NEW id \in Ids, NEW channel \in OTPChannel \cup {None},
               RequestNames(reqs'[r], "login", id, channel)
        PROVE  Known("login", id, channel)
    <3>1. entry # None /\ reqs'[r].entry = e
      BY <1>1, <1>2, <1>15, <2>2 DEF IncrementGet
    <3>2. e.id = entry.id /\ e.channel = entry.channel
      BY <1>1, <3>1, AttemptsType
    <3> HIDE DEF e
    <3>3. Names(entry, id, channel)
      BY <2>2, <3>1, <3>2 DEF RequestNames, Names
    <3> QED
      BY <1>14, <3>3
  <2> QED
    BY <1>13, <1>14, <2>1, <2>2
<1>16. ASSUME NEW r \in Requests, IncrementTtl(r) PROVE ChannelInv'
  <2>1. /\ \A x \in Requests : x # r => reqs'[x] = reqs[x]
        /\ UNCHANGED <<cache, sends, cookies>>
        /\ reqs[r].phase = "ttl" /\ reqs'[r].entry = reqs[r].entry
    BY <1>1, <1>16 DEF IncrementTtl
  <2>2. \A id, channel : RequestNames(reqs'[r], "login", id, channel) =>
                           RequestNames(reqs[r], "login", id, channel)
    BY <2>1 DEF RequestNames
  <2>3. \A id, channel : RequestNames(reqs'[r], "login", id, channel) =>
                           Known("login", id, channel)
    BY <2>2 DEF Known
  <2> QED
    BY <1>13, <1>14, <2>1, <2>3
<1>17. ASSUME NEW r \in Requests, IncrementSet(r) PROVE ChannelInv'
  <2> DEFINE q == reqs[r]
             e == Stored(q.entry, q.ttl)
  <2>1. /\ \A x \in Requests : x # r => reqs'[x] = reqs[x]
        /\ \A k \in Stores : k # "login" => cache'[k] = cache[k]
        /\ UNCHANGED <<sends, cookies>>
        /\ reqs'[r].phase \in {"exceeded", "idle"}
        /\ cache'["login"] = IF SetAccepts(q.ttl) THEN e ELSE cache["login"]
    BY <1>1, <1>17 DEF IncrementSet
  <2>2. /\ q.phase = "set" /\ q.entry \in Entry /\ q.ttl \in NoKey..SetupLifetime
    BY <1>1, <1>17, ReqTypes DEF IncrementSet
  <2>3. \A id, channel : ~RequestNames(reqs'[r], "login", id, channel)
    BY <2>1 DEF RequestNames
  <2>4. ASSUME NEW id \in Ids, NEW channel \in OTPChannel \cup {None},
               Names(cache'["login"], id, channel)
        PROVE  Known("login", id, channel)
    <3>1. CASE SetAccepts(q.ttl)
      <4>1. e.id = q.entry.id /\ e.channel = q.entry.channel /\ q.entry # None
        BY <2>2, <3>1, StoredType, NoneAssumption
      <4>2. RequestNames(q, "login", id, channel)
        BY <2>1, <2>2, <2>4, <3>1, <4>1 DEF RequestNames, Names
      <4> QED
        BY <4>2 DEF Known
    <3>2. CASE ~SetAccepts(q.ttl)
      BY <1>14, <2>1, <2>4, <3>2
    <3> QED
      BY <3>1, <3>2
  <2> QED
    BY <1>13, <2>1, <2>3, <2>4
<1>18. ASSUME NEW r \in Requests,
              \/ \E c \in Clients, right \in BOOLEAN : Confirm(r, c, right)
              \/ Verify(r) \/ VerifyFails(r) \/ DropEntry(r) \/ AcceptFails(r)
       PROVE  ChannelInv'
  <2>1. /\ UNCHANGED <<sends, cookies>>
        /\ \A k \in Stores : k # "login" => cache'[k] = cache[k]
        /\ cache'["login"] \in {cache["login"], None}
        /\ \A x \in Requests : x # r => reqs'[x] = reqs[x]
        /\ reqs'[r].phase \in {"idle", "verify", "cancel", "accept", "count"}
    BY <1>1, <1>18 DEF Confirm, Verify, VerifyFails, DropEntry, AcceptFails
  <2>2. \A id, channel : ~RequestNames(reqs'[r], "login", id, channel)
    BY <2>1 DEF RequestNames
  <2> QED
    BY <1>3, <1>13, <1>14, <2>1, <2>2
<1>19. ASSUME NEW r \in Requests, Accept(r) PROVE ChannelInv'
  <2>1. /\ \A k \in Stores : cache'[k] = cache[k] \/ cache'[k] = None
        /\ \A k \in Stores, c \in Clients :
              cookies'[k][c] = cookies[k][c] \/ cookies'[k][c] = None
        /\ \A x \in Requests : reqs'[x] = reqs[x] \/ reqs'[x].phase = "idle"
        /\ sends' = sends
    BY <1>1, <1>19 DEF Accept
  <2>2. NothingNew
    BY <1>2, <1>3, <2>1 DEF NothingNew, Known
  <2>3. CodesRequestedRight'
    BY <1>1, <2>1 DEF CodesRequestedRight
  <2> QED
    BY <1>4, <2>2, <2>3
<1>20. ASSUME NEW c \in Clients, NEW k \in Stores, CookieExpires(k, c) PROVE ChannelInv'
  <2>1. /\ \A j \in Stores, d \in Clients : cookies'[j][d] \in {cookies[j][d], None}
        /\ UNCHANGED <<cache, sends, reqs>>
    BY <1>1, <1>20 DEF CookieExpires
  <2>2. NothingNew
    BY <1>3, <2>1 DEF NothingNew, Known
  <2>3. CodesRequestedRight'
    BY <1>1, <2>1 DEF CodesRequestedRight
  <2> QED
    BY <1>4, <2>2, <2>3
<1>21. CASE Tick
  <2>1. \A k \in Stores : \A id, channel : Names(cache'[k], id, channel) => Names(cache[k], id, channel)
    BY <1>1, <1>21, LaterType DEF Tick, Names
  <2>2. NothingNew
    BY <1>21, <2>1 DEF NothingNew, Known, Tick
  <2>3. CodesRequestedRight'
    BY <1>1, <1>21 DEF CodesRequestedRight, Tick
  <2> QED
    BY <1>4, <2>2, <2>3
<1>22. ASSUME UNCHANGED <<cache, cookies, sends, reqs>> PROVE ChannelInv'
  BY <1>1, <1>4, <1>22 DEF NothingNew, Known, CodesRequestedRight
<1>23. ASSUME NEW c \in Clients, CompleteLogin(c) \/ Logout(c) PROVE ChannelInv'
  BY <1>22, <1>23 DEF CompleteLogin, Logout
<1>24. ASSUME NEW channel \in Channels \cup {None}, Set2FA(channel) PROVE ChannelInv'
  BY <1>22, <1>24 DEF Set2FA
<1>25. CASE UNCHANGED vars
  BY <1>22, <1>25 DEF vars
<1> QED
  BY <1>5, <1>6, <1>7, <1>8, <1>9, <1>10, <1>11, <1>12, <1>15, <1>16, <1>17,
     <1>18, <1>19, <1>20, <1>21, <1>23, <1>24, <1>25 DEF Next

LEMMA ChannelInit == Init => ChannelInv
<1> SUFFICES ASSUME Init PROVE ChannelInv
  OBVIOUS
<1>1. /\ \A k \in Stores : cache[k] = None
      /\ \A k \in Stores, c \in Clients : cookies[k][c] = None
      /\ \A s \in Sends : sends[s] = Idle
      /\ \A r \in Requests : reqs[r] = Idle
  BY DEF Init
<1>2. \A k \in Stores : \A id, channel : ~Known(k, id, channel)
  BY <1>1 DEF Known, Names, SendNames, RequestNames, Idle
<1>3. CodesRequestedRight
  BY <1>1 DEF CodesRequestedRight, Idle
<1> QED
  BY <1>2, <1>3, TypeInit DEF ChannelInv, OneChannel

LEMMA ChannelMatches == ChannelInv => CookieMatchesEntry
<1> SUFFICES ASSUME ChannelInv, NEW k \in Stores, NEW c \in Clients,
                    cookies[k][c] # None, cache[k] # None, cookies[k][c].id = cache[k].id
             PROVE  cookies[k][c].channel = cache[k].channel
  BY DEF CookieMatchesEntry
<1>1. cache[k] \in Entry /\ cookies[k][c] \in Cookie
  BY DEF ChannelInv, TypeOK
<1>2. /\ cache[k].id \in Ids
      /\ cache[k].channel \in OTPChannel \cup {None}
      /\ cookies[k][c].channel \in OTPChannel \cup {None}
  BY <1>1 DEF Entry, Cookie
<1>3. /\ Known(k, cache[k].id, cache[k].channel)
      /\ Known(k, cache[k].id, cookies[k][c].channel)
  BY DEF Known, Names
<1> QED
  BY <1>2, <1>3 DEF ChannelInv, OneChannel

(* An account whose second factor is mail or the authenticator app: whoever *)
(* holds the cookie of the cached login, or setup, can confirm it, for the  *)
(* two handlers find the channel they compare, whatever faults happen.      *)
THEOREM CookiesAlwaysMatch == RightChannels /\ Spec => []CookieMatchesEntry
<1> SUFFICES ASSUME RightChannels PROVE Spec => []CookieMatchesEntry
  OBVIOUS
<1> QED
  BY ChannelInit, ChannelNext, ChannelMatches, PTL DEF Spec

-----------------------------------------------------------------------------
(* Handlers that do not overlap: while one is between two Redis commands no *)
(* other is, and what it is about to write is the cached entry but for what *)
(* it changes.                                                              *)

Serial == "overlap" \notin Faults

Between(s) == sends[s].phase \in {"change", "ttl", "set"}

OneAtATime ==
    /\ \A s \in Sends, x \in Sends : Between(s) /\ Between(x) => s = x
    /\ \A s \in Sends, r \in Requests : Between(s) => reqs[r] = Idle
    /\ \A r \in Requests, x \in Requests : reqs[r] # Idle /\ reqs[x] # Idle => r = x

CountsCached ==
    \A r \in Requests : reqs[r].phase \in {"ttl", "set"} =>
        /\ cache["login"] # None
        /\ reqs[r].entry = [cache["login"] EXCEPT !.attempts = @ + 1]

ChangesCached ==
    \A s \in Sends : sends[s].phase \in {"ttl", "set"} =>
        LET q == sends[s]
            entry == cache[q.store]
        IN  /\ entry # None
            /\ q.entry.id = entry.id
            /\ q.entry.channel = entry.channel
            /\ q.entry.attempts = entry.attempts

SerialInv == TypeOK /\ OneAtATime /\ CountsCached /\ ChangesCached

LEMMA QuietSlots ==
    ASSUME TypeOK
    PROVE  Quiet <=> /\ \A r \in Requests : reqs[r] = Idle
                     /\ \A s \in Sends : ~Between(s)
BY SendTypes DEF Quiet, Between

LEMMA PhaseOfIdle == Idle.phase = "idle"
BY DEF Idle

LEMMA QuietSerial ==
    ASSUME TypeOK', Quiet'
    PROVE  SerialInv'
<1>1. \A r \in Requests : reqs'[r] = Idle
  BY DEF Quiet
<1>2. \A s \in Sends : sends'[s].phase \in {"idle", "send"}
  BY DEF Quiet
<1> QED
  BY <1>1, <1>2, PhaseOfIdle
     DEF SerialInv, OneAtATime, CountsCached, ChangesCached, Between

LEMMA EndQuiet == ProcessEnds => Quiet'
BY DEF ProcessEnds, Quiet, Idle

(* Only a send, or a confirmation, that goes on is between two commands.    *)
LEMMA SendSerial ==
    ASSUME TypeOK', NEW s \in Sends,
           \A r \in Requests : reqs'[r] = Idle,
           \A x \in Sends : x # s => ~Between(x)',
           sends'[s].phase \in {"ttl", "set"} =>
              LET q == sends'[s]
                  entry == cache'[q.store]
              IN  /\ entry # None
                  /\ q.entry.id = entry.id
                  /\ q.entry.channel = entry.channel
                  /\ q.entry.attempts = entry.attempts
    PROVE  SerialInv'
BY PhaseOfIdle DEF SerialInv, OneAtATime, CountsCached, ChangesCached, Between

LEMMA RequestSerial ==
    ASSUME TypeOK', NEW r \in Requests,
           \A s \in Sends : ~Between(s)',
           \A x \in Requests : x # r => reqs'[x] = Idle,
           reqs'[r].phase \in {"ttl", "set"} =>
              /\ cache'["login"] # None
              /\ reqs'[r].entry = [cache'["login"] EXCEPT !.attempts = @ + 1]
    PROVE  SerialInv'
BY PhaseOfIdle DEF SerialInv, OneAtATime, CountsCached, ChangesCached, Between

LEMMA SerialSends ==
    ASSUME SerialInv, TypeOK', Serial, NEW s \in Sends,
           SendCode(s) \/ SendFails(s) \/ ChangeGet(s) \/ ChangeTtl(s) \/ ChangeSet(s)
    PROVE  SerialInv'
<1> DEFINE q == sends[s]
<1>1. /\ TypeOK
      /\ sends \in [Sends -> Sending \cup {Idle}]
      /\ reqs \in [Requests -> Confirmation \cup {Idle}]
      /\ cache \in [Stores -> Entry \cup {None}]
  BY DEF SerialInv, TypeOK
<1>2. /\ q.phase # "idle" => q.store \in Stores
      /\ q.phase = "change" => q.otp \in Ids
  BY <1>1, SendTypes
<1>3. CASE SendCode(s)
  <2>1. /\ \A r \in Requests : reqs[r] = Idle
        /\ \A x \in Sends : ~Between(x)
    BY <1>1, <1>3, QuietSlots DEF SendCode, MayStart, Serial
  <2>2. /\ reqs' = reqs
        /\ \A x \in Sends : x # s => sends'[x] = sends[x]
        /\ sends'[s].phase \in {"change", "idle"}
    BY <1>1, <1>3, PhaseOfIdle DEF SendCode
  <2> QED
    BY <2>1, <2>2, SendSerial DEF Between
<1>4. CASE SendFails(s)
  BY <1>4, EndQuiet, QuietSerial DEF SendFails
<1>5. CASE Between(s)
  <2>1. /\ \A r \in Requests : reqs[r] = Idle
        /\ \A x \in Sends : x # s => ~Between(x)
    BY <1>5 DEF SerialInv, OneAtATime
  <2>2. CASE ChangeGet(s)
    <3>1. CASE cache[q.store] = None
      BY <2>2, <3>1, EndQuiet, QuietSerial DEF ChangeGet
    <3>2. CASE cache[q.store] # None
      <4> DEFINE e == [cache[q.store] EXCEPT !.otp = q.otp]
      <4>1. /\ reqs' = reqs /\ cache' = cache
            /\ \A x \in Sends : x # s => sends'[x] = sends[x]
            /\ sends'[s] = [phase |-> "ttl", store |-> q.store, entry |-> e]
        BY <1>1, <2>2, <3>2 DEF ChangeGet
      <4>2. q.store \in Stores /\ q.otp \in Ids
        BY <1>2, <2>2 DEF ChangeGet
      <4>3. /\ e.id = cache[q.store].id /\ e.channel = cache[q.store].channel
            /\ e.attempts = cache[q.store].attempts
        BY <1>1, <3>2, <4>2, OtpType
      <4> HIDE DEF e
      <4> QED
        BY <2>1, <3>2, <4>1, <4>3, SendSerial DEF Between
    <3> QED
      BY <3>1, <3>2
  <2>3. CASE ChangeTtl(s)
    <3>1. /\ reqs' = reqs /\ cache' = cache
          /\ \A x \in Sends : x # s => sends'[x] = sends[x]
          /\ sends'[s] = [phase |-> "set", store |-> q.store, entry |-> q.entry,
                          ttl |-> TtlOf(cache[q.store])]
          /\ q.phase = "ttl"
      BY <1>1, <2>3 DEF ChangeTtl
    <3>2. /\ cache[q.store] # None
          /\ q.entry.id = cache[q.store].id /\ q.entry.channel = cache[q.store].channel
          /\ q.entry.attempts = cache[q.store].attempts
      BY <3>1 DEF SerialInv, ChangesCached
    <3> QED
      BY <2>1, <3>1, <3>2, SendSerial DEF Between
  <2>4. CASE ChangeSet(s)
    <3>1. CASE SetAccepts(q.ttl)
      <4>1. /\ reqs' = reqs
            /\ \A x \in Sends : x # s => sends'[x] = sends[x]
            /\ sends'[s] = Idle
        BY <1>1, <2>4, <3>1 DEF ChangeSet
      <4> QED
        BY <2>1, <4>1, PhaseOfIdle, SendSerial DEF Between
    <3>2. CASE ~SetAccepts(q.ttl)
      BY <2>4, <3>2, EndQuiet, QuietSerial DEF ChangeSet
    <3> QED
      BY <3>1, <3>2
  <2>5. ~SendCode(s) /\ ~SendFails(s)
    BY <1>5 DEF Between, SendCode, SendFails
  <2> QED
    BY <2>2, <2>3, <2>4, <2>5
<1>6. ChangeGet(s) \/ ChangeTtl(s) \/ ChangeSet(s) => Between(s)
  BY DEF Between, ChangeGet, ChangeTtl, ChangeSet
<1> QED
  BY <1>3, <1>4, <1>5, <1>6

LEMMA SerialRequests ==
    ASSUME SerialInv, TypeOK', Serial, NEW r \in Requests,
           \/ Verify(r) \/ VerifyFails(r) \/ IncrementGet(r) \/ IncrementTtl(r)
           \/ IncrementSet(r) \/ DropEntry(r) \/ Accept(r) \/ AcceptFails(r)
    PROVE  SerialInv'
<1>1. /\ TypeOK
      /\ reqs \in [Requests -> Confirmation \cup {Idle}]
      /\ cache \in [Stores -> Entry \cup {None}]
      /\ "login" \in Stores
  BY DEF SerialInv, TypeOK, Stores
<1>2. reqs[r] # Idle /\ sends' = sends
  BY PhaseOfIdle DEF Verify, VerifyFails, IncrementGet, IncrementTtl, IncrementSet,
                     DropEntry, Accept, AcceptFails
<1>3. /\ \A s \in Sends : ~Between(s)
      /\ \A x \in Requests : x # r => reqs[x] = Idle
  BY <1>2 DEF SerialInv, OneAtATime
<1>4. \A x \in Requests : x # r => reqs'[x] = reqs[x]
  BY <1>1 DEF Verify, VerifyFails, IncrementGet, IncrementTtl, IncrementSet,
              DropEntry, Accept, AcceptFails
<1>5. reqs'[r].phase \in {"ttl", "set"} =>
         /\ cache'["login"] # None
         /\ reqs'[r].entry = [cache'["login"] EXCEPT !.attempts = @ + 1]
  <2>1. CASE IncrementGet(r)
    BY <1>1, <2>1, PhaseOfIdle DEF IncrementGet
  <2>2. CASE IncrementTtl(r)
    <3>1. reqs'[r].entry = reqs[r].entry /\ cache' = cache /\ reqs[r].phase = "ttl"
      BY <1>1, <2>2 DEF IncrementTtl
    <3> QED
      BY <3>1 DEF SerialInv, CountsCached
  <2>3. CASE \/ Verify(r) \/ VerifyFails(r) \/ IncrementSet(r) \/ DropEntry(r)
             \/ Accept(r) \/ AcceptFails(r)
    <3>1. reqs'[r].phase \notin {"ttl", "set"}
      BY <1>1, <2>3, PhaseOfIdle
         DEF Verify, VerifyFails, IncrementSet, DropEntry, Accept, AcceptFails
    <3> QED
      BY <3>1
  <2> QED
    BY <2>1, <2>2, <2>3
<1> QED
  BY <1>2, <1>3, <1>4, <1>5, RequestSerial DEF Between

LEMMA SerialNext == SerialInv /\ Serial /\ [Next]_vars => SerialInv'
<1> SUFFICES ASSUME SerialInv, Serial, [Next]_vars PROVE SerialInv'
  OBVIOUS
<1>1. /\ TypeOK /\ TypeOK'
      /\ sends \in [Sends -> Sending \cup {Idle}]
      /\ reqs \in [Requests -> Confirmation \cup {Idle}]
  BY TypeNext DEF SerialInv, TypeOK
<1>2. ASSUME NEW c \in Clients, NEW id \in Ids, Login2FA(c, id) PROVE SerialInv'
  <2>1. Quiet /\ reqs' = reqs
    BY <1>2 DEF Login2FA, MayStart, Serial
  <2>2. \A s \in Sends : sends'[s] = sends[s] \/ sends'[s].phase = "send"
    BY <1>1, <1>2 DEF Login2FA, Initiate, RequestCode
  <2>3. Quiet'
    BY <2>1, <2>2 DEF Quiet
  <2> QED
    BY <1>1, <2>3, QuietSerial
<1>3. ASSUME NEW c \in Clients, Resend(c) PROVE SerialInv'
  <2>1. Quiet /\ reqs' = reqs
    BY <1>3 DEF Resend, MayStart, Serial
  <2>2. \A s \in Sends : sends'[s] = sends[s] \/ sends'[s].phase = "send"
    BY <1>1, <1>3 DEF Resend, RequestCode
  <2>3. Quiet'
    BY <2>1, <2>2 DEF Quiet
  <2> QED
    BY <1>1, <2>3, QuietSerial
<1>4. ASSUME NEW r \in Requests, NEW c \in Clients, NEW right \in BOOLEAN,
             Confirm(r, c, right)
      PROVE  SerialInv'
  <2>1. /\ \A x \in Requests : reqs[x] = Idle
        /\ \A s \in Sends : ~Between(s)
    BY <1>1, <1>4, QuietSlots DEF Confirm, MayStart, Serial
  <2>2. /\ sends' = sends
        /\ \A x \in Requests : x # r => reqs'[x] = reqs[x]
        /\ reqs'[r].phase = "verify"
    BY <1>1, <1>4 DEF Confirm
  <2> QED
    BY <1>1, <2>1, <2>2, RequestSerial DEF Between
<1>5. ASSUME Quiet, UNCHANGED <<sends, reqs>> PROVE SerialInv'
  BY <1>1, <1>5, QuietSerial DEF Quiet
<1>6. ASSUME NEW c \in Clients,
             CompleteLogin(c) \/ \E k \in Stores : CookieExpires(k, c)
      PROVE  SerialInv'
  BY <1>5, <1>6 DEF CompleteLogin, CookieExpires, MayStart, Serial
<1>7. ASSUME NEW channel \in Channels \cup {None}, Set2FA(channel) PROVE SerialInv'
  BY <1>5, <1>7 DEF Set2FA, MayStart, Serial
<1>8. CASE Tick
  BY <1>5, <1>8 DEF Tick, MayStart, Serial
<1>9. CASE Restart
  BY <1>1, <1>9, EndQuiet, QuietSerial DEF Restart
<1>10. ASSUME UNCHANGED <<cache, sends, reqs>> PROVE SerialInv'
  BY <1>1, <1>10 DEF SerialInv, OneAtATime, CountsCached, ChangesCached, Between
<1>11. ASSUME NEW c \in Clients, Logout(c) PROVE SerialInv'
  BY <1>10, <1>11 DEF Logout
<1>12. CASE UNCHANGED vars
  BY <1>10, <1>12 DEF vars
<1> QED
  BY <1>1, <1>2, <1>3, <1>4, <1>6, <1>7, <1>8, <1>9, <1>11, <1>12, SerialSends,
     SerialRequests DEF Next

LEMMA SerialInit == Init => SerialInv
<1> SUFFICES ASSUME Init PROVE SerialInv
  OBVIOUS
<1>1. /\ \A s \in Sends : sends[s] = Idle
      /\ \A r \in Requests : reqs[r] = Idle
  BY DEF Init
<1> QED
  BY <1>1, TypeInit, PhaseOfIdle
     DEF SerialInv, OneAtATime, CountsCached, ChangesCached, Between

-----------------------------------------------------------------------------
(* Codes that are sent within the throttle's window: one is on its way at a *)
(* time, and the entry a resent code is for is still the one it was asked   *)
(* for, unless an authenticator's has replaced it.                          *)

InTime == Serial /\ "slowSend" \notin Faults

OneSend == \A s \in Sends, x \in Sends : sends[s] # Idle /\ sends[x] # Idle => s = x
WindowCovers == throttle = 0 => \A s \in Sends : sends[s].phase # "send"

OwnCode(entry) == entry.channel # TotpVerification => entry.otp = entry.id
CodesOwn ==
    /\ \A k \in Stores : cache[k] # None => OwnCode(cache[k])
    /\ \A s \in Sends : sends[s].phase \in {"ttl", "set"} => OwnCode(sends[s].entry)

Meant(k, id) == cache[k] = None \/ cache[k].channel = TotpVerification \/ cache[k].id = id
ResendsMeant ==
    \A s \in Sends :
        /\ sends[s].phase = "send" /\ sends[s].resend => Meant(sends[s].store, sends[s].id)
        /\ sends[s].phase = "change" => Meant(sends[s].store, sends[s].otp)

CodeInv == SerialInv /\ OneSend /\ WindowCovers /\ CodesOwn /\ ResendsMeant

LEMMA EndCode ==
    ASSUME CodeInv, SerialInv', ProcessEnds, UNCHANGED cache
    PROVE  CodeInv'
BY PhaseOfIdle
   DEF CodeInv, ProcessEnds, OneSend, WindowCovers, CodesOwn, ResendsMeant

(* A code is requested when none is on its way.                             *)
LEMMA RequestCodes ==
    ASSUME CodeInv, SerialInv', Quiet, NEW k \in Stores, NEW id \in Ids,
           NEW channel \in OtpVerification, NEW resend \in BOOLEAN,
           RequestCode(k, id, channel, resend), resend => Meant(k, id),
           UNCHANGED cache
    PROVE  CodeInv'
<1>1. CASE UNCHANGED <<throttle, sends>>
  BY <1>1 DEF CodeInv, OneSend, WindowCovers, CodesOwn, ResendsMeant, Meant
<1>2. CASE throttle = 0 /\ throttle' = Window
  <2> DEFINE Q == [phase |-> "send", store |-> k, id |-> id, channel |-> channel,
                   resend |-> resend]
  <2>1. \A x \in Sends : sends[x] = Idle
    <3>1. \A x \in Sends : sends[x].phase = "idle"
      BY <1>2 DEF CodeInv, WindowCovers, Quiet
    <3> QED
      BY <3>1, SendTypes DEF CodeInv, SerialInv
  <2>2. PICK s \in Sends : sends' = [sends EXCEPT ![s] = Q]
    BY <1>2, LoginAssumption DEF RequestCode
  <2>3. /\ sends'[s] = Q
        /\ \A x \in Sends : x # s => sends'[x] = Idle
    BY <2>1, <2>2 DEF CodeInv, SerialInv, TypeOK
  <2>4. throttle' # 0
    BY <1>2, LoginAssumption
  <2>5. OneSend' /\ WindowCovers'
    BY <2>3, <2>4 DEF OneSend, WindowCovers
  <2>6. CodesOwn' /\ ResendsMeant'
    BY <2>3, PhaseOfIdle DEF CodeInv, CodesOwn, ResendsMeant, Meant
  <2> QED
    BY <2>5, <2>6 DEF CodeInv
<1> QED
  BY <1>1, <1>2 DEF RequestCode

LEMMA CodeSends ==
    ASSUME CodeInv, SerialInv', InTime, NEW s \in Sends,
           SendCode(s) \/ SendFails(s) \/ ChangeGet(s) \/ ChangeTtl(s) \/ ChangeSet(s)
    PROVE  CodeInv'
<1> DEFINE q == sends[s]
<1>1. /\ TypeOK
      /\ sends \in [Sends -> Sending \cup {Idle}]
      /\ cache \in [Stores -> Entry \cup {None}]
      /\ Idle.phase = "idle"
  BY PhaseOfIdle DEF CodeInv, SerialInv, TypeOK
<1>2. /\ q.phase # "idle" => q.store \in Stores
      /\ q.phase = "send" => q.id \in Ids /\ q.channel \in OtpVerification
                               /\ q.resend \in BOOLEAN
      /\ q.phase = "change" => q.otp \in Ids
      /\ q.phase = "ttl" => q.entry \in Entry
      /\ q.phase = "set" => q.entry \in Entry /\ q.ttl \in NoKey..SetupLifetime
  BY <1>1, SendTypes
<1>3. q.phase # "idle" => \A x \in Sends : x # s => sends[x] = Idle
  BY <1>1 DEF CodeInv, OneSend
<1>4. ASSUME \A x \in Sends : x # s => sends'[x] = Idle,
             UNCHANGED throttle, throttle # 0 \/ sends'[s].phase # "send",
             \A k \in Stores : cache'[k] # None => OwnCode(cache'[k]),
             sends'[s].phase \in {"ttl", "set"} => OwnCode(sends'[s].entry),
             sends'[s].phase \in {"idle", "change", "ttl", "set"},
             sends'[s].phase = "change" =>
                LET p == sends'[s]
                IN  \/ cache'[p.store] = None
                    \/ cache'[p.store].channel = TotpVerification
                    \/ cache'[p.store].id = p.otp
      PROVE  CodeInv'
  <2>1. OneSend' /\ WindowCovers'
    BY <1>1, <1>4 DEF OneSend, WindowCovers
  <2>2. CodesOwn'
    BY <1>1, <1>4 DEF CodesOwn
  <2>3. ResendsMeant'
    BY <1>1, <1>4 DEF ResendsMeant, Meant
  <2> QED
    BY <2>1, <2>2, <2>3 DEF CodeInv
<1>5. CASE SendCode(s)
  <2>1. /\ q.phase = "send"
        /\ \A x \in Sends : x # s => sends'[x] = sends[x]
        /\ UNCHANGED throttle
    BY <1>1, <1>5 DEF SendCode
  <2>2. CASE q.resend
    <3>1. /\ sends'[s] = [phase |-> "change", store |-> q.store, otp |-> q.id]
          /\ cache' = cache
      BY <1>1, <1>5, <2>2 DEF SendCode
    <3>2. Meant(q.store, q.id)
      BY <2>1, <2>2 DEF CodeInv, ResendsMeant
    <3> QED
      BY <1>3, <1>4, <2>1, <3>1, <3>2 DEF CodeInv, CodesOwn, Meant
  <2>3. CASE ~q.resend
    <3> DEFINE e == Created(q.store, q.id, VerificatorChannel(q.channel), q.id)
    <3>1. sends'[s] = Idle /\ cache' = [cache EXCEPT ![q.store] = e]
      BY <1>1, <1>5, <2>3 DEF SendCode
    <3>2. OwnCode(e)
      <4>1. VerificatorChannel(q.channel) \in OTPChannel \cup {None}
        BY <1>2, <2>1 DEF VerificatorChannel, OtpVerification, OTPChannel
      <4> QED
        BY <1>2, <2>1, <4>1, CreatedType DEF OwnCode
    <3>3. \A k \in Stores : cache'[k] = cache[k] \/ cache'[k] = e
      BY <1>1, <3>1
    <3> HIDE DEF e
    <3> QED
      BY <1>1, <1>3, <1>4, <2>1, <3>1, <3>2, <3>3 DEF CodeInv, CodesOwn
  <2> QED
    BY <2>2, <2>3
<1>6. CASE SendFails(s)
  BY <1>6, EndCode DEF SendFails
<1>7. CASE ChangeGet(s)
  <2>1. CASE cache[q.store] = None
    BY <1>7, <2>1, EndCode DEF ChangeGet
  <2>2. CASE cache[q.store] # None
    <3> DEFINE e == [cache[q.store] EXCEPT !.otp = q.otp]
    <3>1. /\ q.phase = "change"
          /\ \A x \in Sends : x # s => sends'[x] = sends[x]
          /\ sends'[s] = [phase |-> "ttl", store |-> q.store, entry |-> e]
          /\ UNCHANGED <<cache, throttle>>
      BY <1>1, <1>7, <2>2 DEF ChangeGet
    <3>2. /\ e.id = cache[q.store].id
          /\ e.channel = cache[q.store].channel
          /\ e.otp = q.otp
      BY <1>1, <1>2, <2>2, <3>1, OtpType
    <3>3. Meant(q.store, q.otp)
      BY <3>1 DEF CodeInv, ResendsMeant
    <3> HIDE DEF e
    <3>4. OwnCode(e)
      BY <2>2, <3>2, <3>3 DEF OwnCode, Meant
    <3> QED
      BY <1>3, <1>4, <3>1, <3>4 DEF CodeInv, CodesOwn
  <2> QED
    BY <2>1, <2>2
<1>8. CASE ChangeTtl(s)
  <2>1. /\ q.phase = "ttl"
        /\ \A x \in Sends : x # s => sends'[x] = sends[x]
        /\ sends'[s].phase = "set" /\ sends'[s].entry = q.entry
        /\ UNCHANGED <<cache, throttle>>
    BY <1>1, <1>8 DEF ChangeTtl
  <2>2. OwnCode(q.entry)
    BY <2>1 DEF CodeInv, CodesOwn
  <2> QED
    BY <1>3, <1>4, <2>1, <2>2 DEF CodeInv, CodesOwn
<1>9. CASE ChangeSet(s)
  <2>1. q.phase = "set" /\ OwnCode(q.entry)
    BY <1>9 DEF ChangeSet, CodeInv, CodesOwn
  <2>2. CASE SetAccepts(q.ttl)
    <3> DEFINE e == Stored(q.entry, q.ttl)
    <3>1. /\ \A x \in Sends : x # s => sends'[x] = sends[x]
          /\ sends'[s] = Idle
          /\ cache' = [cache EXCEPT ![q.store] = e]
          /\ UNCHANGED throttle
      BY <1>1, <1>9, <2>2 DEF ChangeSet
    <3>2. OwnCode(e)
      BY <1>2, <2>1, <2>2, StoredType DEF OwnCode
    <3>3. \A k \in Stores : cache'[k] = cache[k] \/ cache'[k] = e
      BY <1>1, <3>1
    <3> HIDE DEF e
    <3> QED
      BY <1>1, <1>3, <1>4, <2>1, <3>1, <3>2, <3>3 DEF CodeInv, CodesOwn
  <2>3. CASE ~SetAccepts(q.ttl)
    BY <1>9, <2>3, EndCode DEF ChangeSet
  <2> QED
    BY <2>2, <2>3
<1> QED
  BY <1>5, <1>6, <1>7, <1>8, <1>9

(* Steps that send nothing and write no entry but one known before.         *)
LEMMA OtherCodes ==
    ASSUME CodeInv, SerialInv', UNCHANGED <<throttle, sends>>,
           \A k \in Stores :
              \/ cache'[k] = None
              \/ /\ cache[k] # None
                 /\ cache'[k].id = cache[k].id
                 /\ cache'[k].channel = cache[k].channel
                 /\ cache'[k].otp = cache[k].otp
              \/ cache'[k].channel = TotpVerification
    PROVE  CodeInv'
<1>1. \A k \in Stores : cache'[k] # None => OwnCode(cache'[k])
  BY DEF CodeInv, CodesOwn, OwnCode
<1>2. CodesOwn'
  BY <1>1 DEF CodeInv, CodesOwn
<1>3. \A k \in Stores : \A id : Meant(k, id) => Meant(k, id)'
  BY DEF Meant
<1>4. \A s \in Sends : sends[s].phase # "idle" => sends[s].store \in Stores
  BY SendTypes DEF CodeInv, SerialInv
<1>5. ResendsMeant'
  BY <1>3, <1>4 DEF CodeInv, ResendsMeant
<1> QED
  BY <1>2, <1>5 DEF CodeInv, OneSend, WindowCovers

LEMMA CodeNext == CodeInv /\ InTime /\ [Next]_vars => CodeInv'
<1> SUFFICES ASSUME CodeInv, InTime, [Next]_vars PROVE CodeInv'
  OBVIOUS
<1>1. SerialInv'
  BY SerialNext DEF CodeInv, InTime
<1>2. /\ TypeOK
      /\ sends \in [Sends -> Sending \cup {Idle}]
      /\ reqs \in [Requests -> Confirmation \cup {Idle}]
      /\ cache \in [Stores -> Entry \cup {None}]
      /\ "login" \in Stores
  BY DEF CodeInv, SerialInv, TypeOK, Stores
<1>3. ASSUME NEW c \in Clients, NEW id \in Ids, Login2FA(c, id) PROVE CodeInv'
  <2>1. tfa \in OTPChannel /\ Quiet
    BY <1>2, <1>3, LoginAssumption DEF Login2FA, TypeOK, MayStart, InTime, Serial
  <2>2. CASE tfa \in OtpVerification
    <3>1. RequestCode("login", id, tfa, FALSE) /\ UNCHANGED cache
      BY <1>3, <2>2 DEF Login2FA, Initiate, OtpVerification, TotpVerification
    <3> QED
      BY <1>1, <1>2, <2>1, <2>2, <3>1, RequestCodes
  <2>3. CASE tfa = TotpVerification
    <3>1. /\ cache' = [cache EXCEPT !["login"] = Created("login", id, tfa, None)]
          /\ UNCHANGED <<throttle, sends>>
      BY <1>3, <2>3 DEF Login2FA, Initiate, OtpVerification, TotpVerification
    <3>2. Created("login", id, tfa, None).channel = TotpVerification
      BY <1>2, <2>1, <2>3, CreatedType
    <3> QED
      BY <1>1, <1>2, <3>1, <3>2, OtherCodes
  <2> QED
    BY <2>1, <2>2, <2>3 DEF OTPChannel
<1>4. ASSUME NEW c \in Clients, Resend(c) PROVE CodeInv'
  <2> DEFINE k == StoreOf(c)
  <2>1. k \in Stores
    BY DEF StoreOf, Stores
  <2>2. /\ Quiet /\ UNCHANGED cache
        /\ cache[k] # None /\ cache[k].channel \in OtpVerification
        /\ RequestCode(k, cache[k].id, cache[k].channel, TRUE)
    BY <1>4 DEF Resend, MayStart, InTime, Serial
  <2>3. cache[k].id \in Ids
    BY <1>2, <2>1, <2>2 DEF Entry
  <2>4. Meant(k, cache[k].id)
    BY DEF Meant
  <2> HIDE DEF k
  <2> QED
    BY <1>1, <2>1, <2>2, <2>3, <2>4, RequestCodes
<1>5. ASSUME NEW r \in Requests, IncrementSet(r) PROVE CodeInv'
  <2> DEFINE q == reqs[r]
             entry == cache["login"]
  <2>1. /\ q.phase = "set"
        /\ cache' = IF SetAccepts(q.ttl)
                    THEN [cache EXCEPT !["login"] = Stored(q.entry, q.ttl)] ELSE cache
        /\ UNCHANGED <<throttle, sends>>
    BY <1>5 DEF IncrementSet
  <2>2. /\ q.entry \in Entry /\ q.ttl \in NoKey..SetupLifetime
    BY <1>2, <2>1, ReqTypes
  <2>3. entry # None /\ q.entry = [entry EXCEPT !.attempts = @ + 1]
    BY <2>1 DEF CodeInv, SerialInv, CountsCached
  <2>4. /\ q.entry.id = entry.id /\ q.entry.channel = entry.channel
        /\ q.entry.otp = entry.otp
    BY <1>2, <2>3, AttemptsType
  <2>5. CASE SetAccepts(q.ttl)
    <3> DEFINE e == Stored(q.entry, q.ttl)
    <3>1. e.id = entry.id /\ e.channel = entry.channel /\ e.otp = entry.otp
      BY <2>2, <2>4, <2>5, StoredType
    <3>2. \A k \in Stores : cache'[k] = cache[k] \/ (k = "login" /\ cache'[k] = e)
      BY <1>2, <2>1, <2>5
    <3> HIDE DEF e
    <3> QED
      BY <1>1, <2>1, <2>3, <3>1, <3>2, OtherCodes
  <2>6. CASE ~SetAccepts(q.ttl)
    BY <1>1, <2>1, <2>6, OtherCodes
  <2> QED
    BY <2>5, <2>6
<1>6. ASSUME UNCHANGED <<throttle, sends>>, \A k \in Stores : cache'[k] = cache[k] \/ cache'[k] = None
      PROVE  CodeInv'
  BY <1>1, <1>6, OtherCodes
<1>7. ASSUME NEW r \in Requests,
             \/ Verify(r) \/ VerifyFails(r) \/ IncrementGet(r) \/ IncrementTtl(r)
             \/ DropEntry(r) \/ Accept(r) \/ AcceptFails(r)
             \/ \E c \in Clients, right \in BOOLEAN : Confirm(r, c, right)
      PROVE  CodeInv'
  <2>1. /\ UNCHANGED <<throttle, sends>>
        /\ cache' = cache \/ cache' = [cache EXCEPT !["login"] = None]
    BY <1>7 DEF Verify, VerifyFails, IncrementGet, IncrementTtl, DropEntry, Accept,
                AcceptFails, Confirm
  <2>2. \A k \in Stores : cache'[k] = cache[k] \/ cache'[k] = None
    BY <1>2, <2>1
  <2> QED
    BY <1>6, <2>1, <2>2
<1>8. ASSUME NEW c \in Clients,
             CompleteLogin(c) \/ Logout(c) \/ \E k \in Stores : CookieExpires(k, c)
      PROVE  CodeInv'
  BY <1>6, <1>8 DEF CompleteLogin, Logout, CookieExpires
<1>9. ASSUME NEW channel \in Channels \cup {None}, Set2FA(channel) PROVE CodeInv'
  BY <1>6, <1>9 DEF Set2FA
<1>10. CASE Tick
  <2>1. \A k \in Stores : cache'[k] = Later(cache[k])
    BY <1>10 DEF Tick
  <2>2. \A k \in Stores :
           \/ cache'[k] = None
           \/ /\ cache[k] # None
              /\ cache'[k].id = cache[k].id
              /\ cache'[k].channel = cache[k].channel
              /\ cache'[k].otp = cache[k].otp
    BY <1>2, <2>1, LaterType
  <2>3. /\ throttle \in Nat /\ UNCHANGED sends
        /\ throttle' = IF throttle > 0 THEN throttle - 1 ELSE 0
        /\ throttle = 1 => \A s \in Sends : sends[s].phase # "send"
    BY <1>2, <1>10, LoginAssumption DEF Tick, SendsInTime, InTime, TypeOK
  <2>4. WindowCovers'
    BY <2>3 DEF CodeInv, WindowCovers
  <2>5. CodesOwn'
    BY <2>2, <2>3 DEF CodeInv, CodesOwn, OwnCode
  <2>6. \A k \in Stores : \A id : Meant(k, id) => Meant(k, id)'
    BY <2>2 DEF Meant
  <2>7. \A s \in Sends : sends[s].phase # "idle" => sends[s].store \in Stores
    BY <1>2, SendTypes
  <2>8. ResendsMeant'
    BY <2>3, <2>6, <2>7 DEF CodeInv, ResendsMeant
  <2> QED
    BY <1>1, <2>3, <2>4, <2>5, <2>8 DEF CodeInv, OneSend
<1>11. CASE Restart
  BY <1>1, <1>11, EndCode DEF Restart
<1>12. CASE UNCHANGED vars
  BY <1>6, <1>12 DEF vars
<1> QED
  BY <1>1, <1>3, <1>4, <1>5, <1>7, <1>8, <1>9, <1>10, <1>11, <1>12, CodeSends DEF Next

LEMMA CodeInit == Init => CodeInv
BY SerialInit, PhaseOfIdle
   DEF Init, CodeInv, OneSend, WindowCovers, CodesOwn, ResendsMeant

(* While handlers do not overlap and sending a code takes no longer than    *)
(* the throttle's window, the code in an entry is the one that was sent for *)
(* it, whatever is refused, resent or restarted.                            *)
THEOREM CodesStayWithTheirLogin == InTime /\ Spec => []CodeOfItsLogin
<1> SUFFICES ASSUME InTime PROVE Spec => []CodeOfItsLogin
  OBVIOUS
<1>1. CodeInv /\ [Next]_vars => CodeInv'
  BY CodeNext
<1>2. CodeInv => CodeOfItsLogin
  BY DEF CodeInv, CodesOwn, OwnCode, CodeOfItsLogin
<1> QED
  BY CodeInit, <1>1, <1>2, PTL DEF Spec
=============================================================================
