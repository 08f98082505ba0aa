--------------------------- MODULE TwoFactorLogin ---------------------------
(***************************************************************************)
(* Logging in to one account that has two-factor authentication: the       *)
(* password step hands out a login cookie and requests a code, the code is *)
(* sent and then cached in Redis, and a confirmation checks it and signs   *)
(* the client in.                                                          *)
(*                                                                         *)
(* Entries, throttle and 2FA setting belong to the account; a second       *)
(* account shares nothing with it but the process.  The entry and the      *)
(* cookies of a setup are here because resends, the throttle and the       *)
(* sending side serve both stores; what else happens to them is in         *)
(* SetupVerification.  Redis commands of the process go through one        *)
(* connection and take effect in the order they are issued, so a command   *)
(* that nobody waits for happens with the step that issues it.  Every await*)
(* is a place where other steps come in between.                           *)
(*                                                                         *)
(* `Faults` says which things happen that the code cannot exclude:         *)
(*   "overlap"   something happens while a handler that reads an entry and *)
(*               writes it back is between the two                         *)
(*   "refuse"    the mail server or Twilio refuses to send a code          *)
(*   "slowSend"  sending a code takes longer than the throttle window      *)
(*   "crash"     the server is restarted                                   *)
(*   "lastHalf"  somebody writes in the last half second of an entry       *)
(***************************************************************************)
EXTENDS VerificationStore, FiniteSets

CONSTANTS
    Clients,      \* browsers
    Requests,     \* slots for confirmations in flight
    Sends,        \* slots for SendVerificationCode commands in flight
    Channels,     \* channels the account may have as its second factor
    Window,       \* the throttle's window, in ticks
    MaxAttempts,  \* maxAttempts
    MaxWrong,     \* bound: wrong codes checked for one login, and attempts
    Faults

ASSUME LoginAssumption ==
    /\ Channels \subseteq OTPChannel
    /\ Window \in Nat \ {0}
    /\ MaxAttempts \in Nat \ {0}
    /\ MaxWrong \in Nat
    /\ Faults \subseteq {"overlap", "refuse", "slowSend", "crash", "lastHalf"}
    /\ None \notin OTPChannel

VARIABLES
    tfa,        \* the channel of the account's 2FA, or None
    cache,      \* the account's entry of each store in Redis, or None
    throttle,   \* ticks until the saga lets the account's next request pass
    sends,      \* codes being sent and cached
    cookies,    \* each client's cookie of each store, or None
    signedIn,   \* clients that hold tokens
    reqs,       \* confirmations in flight
    wrong       \* wrong codes checked so far for the login of a client's cookie

vars == <<tfa, cache, throttle, sends, cookies, signedIn, reqs, wrong>>

-----------------------------------------------------------------------------
Idle == [phase |-> "idle"]

Cookie == [id : Ids, channel : OTPChannel]

ASSUME NoneAssumption == None \notin Entry \cup Cookie

(* A command sends a code ("send") and caches it.  A resend rewrites the    *)
(* entry in three steps: it gets it ("change"), asks for its ttl ("ttl")    *)
(* and sets it ("set").                                                     *)
Sending ==
    [phase : {"send"}, store : Stores, id : Ids, channel : OtpVerification,
     resend : BOOLEAN]
      \cup [phase : {"change"}, store : Stores, otp : Ids]
      \cup [phase : {"ttl"}, store : Stores, entry : Entry]
      \cup [phase : {"set"}, store : Stores, entry : Entry,
            ttl : NoKey..SetupLifetime]

(* A confirmation: "verify" holds the entry read, "count", "ttl" and "set"  *)
(* are incrementAttempts, the others are about to delete the entry.  "accept"*)
(* holds the 2FA setting of the user read, which it will save, and so does  *)
(* "register", the confirmation of a setup.                                 *)
Confirmation ==
    [phase : {"verify"}, client : Clients, right : BOOLEAN, id : Ids]
      \cup [phase : {"count", "exceeded", "cancel"}]
      \cup [phase : {"ttl"}, entry : Entry]
      \cup [phase : {"set"}, entry : Entry, ttl : NoKey..SetupLifetime]
      \cup [phase : {"accept"}, client : Clients, tfa : Channels]
      \cup [phase : {"register"}, client : Clients, channel : Channels,
            tfa : Channels \cup {None}]

(* Nobody is between two Redis commands.                                    *)
Quiet ==
    /\ \A r \in Requests : reqs[r] = Idle
    /\ \A s \in Sends : sends[s].phase \in {"idle", "send"}
MayStart == Quiet \/ "overlap" \in Faults

(* A fresh uuid is none of these.                                           *)
IdsOfEntry(entry) == IF entry = None THEN {} ELSE {entry.id, entry.otp}
IdsHeld(q) ==
    (IF "id" \in DOMAIN q THEN {q.id} ELSE {})
      \cup (IF "otp" \in DOMAIN q THEN {q.otp} ELSE {})
      \cup (IF "entry" \in DOMAIN q THEN IdsOfEntry(q.entry) ELSE {})
IdsOfCookies(store) ==
    {cookies[store][c].id : c \in {x \in Clients : cookies[store][x] # None}}
IdsStored == UNION {IdsOfEntry(cache[k]) \cup IdsOfCookies(k) : k \in Stores}
IdsInFlight(slots) == UNION {IdsHeld(slots[x]) : x \in DOMAIN slots}
IdsInUse == IdsStored \cup IdsInFlight(sends) \cup IdsInFlight(reqs)

Init ==
    /\ tfa \in Channels
    /\ cache = [k \in Stores |-> None]
    /\ throttle = 0
    /\ sends = [s \in Sends |-> Idle]
    /\ cookies = [k \in Stores |-> [c \in Clients |-> None]]
    /\ signedIn = {}
    /\ reqs = [r \in Requests |-> Idle]
    /\ wrong = [c \in Clients |-> 0]

-----------------------------------------------------------------------------
(* Sending codes                                                            *)

(* The throttle and what is in flight live in the process.                  *)
ProcessEnds ==
    /\ throttle' = 0
    /\ sends' = [s \in Sends |-> Idle]
    /\ reqs' = [r \in Requests |-> Idle]

(* throttleTime lets the first event of a window pass and drops the others. *)
RequestCode(store, id, channel, resend) ==
    \/ /\ throttle = 0
       /\ throttle' = Window
       /\ \E s \in {x \in Sends : sends[x] = Idle} :
             sends' = [sends EXCEPT ![s] =
                         [phase |-> "send", store |-> store, id |-> id,
                          channel |-> channel, resend |-> resend]]
    \/ throttle > 0 /\ UNCHANGED <<throttle, sends>>

(* InitiatedVerificationEventHandler: a code is requested, or the entry of a*)
(* TOTP verification is cached at once.                                     *)
Initiate(store, id, channel) ==
    \/ /\ channel \in OtpVerification
       /\ RequestCode(store, id, channel, FALSE)
       /\ UNCHANGED cache
    \/ /\ channel = TotpVerification
       /\ cache' = [cache EXCEPT ![store] = Created(store, id, channel, None)]
       /\ UNCHANGED <<throttle, sends>>

(* Fault: only the phone call's verificator has a channel id.                *)
VerificatorChannelUnset(channel) == IF channel = "Call" THEN "Email" ELSE None

(* The channel id of the verificator the saga picks for a channel.          *)
VerificatorChannel(channel) ==
    CASE channel \in {"Email", "Call"} -> "Email"
      [] channel = "SMS" -> None

(* Fault: the entry gets the channel the account has now.                    *)
SendCodeCurrentChannel(s) ==
    LET q == sends[s]
    IN  /\ MayStart
        /\ q.phase = "send"
        /\ sends' = [sends EXCEPT ![s] =
                       IF q.resend
                       THEN [phase |-> "change", store |-> q.store, otp |-> q.id]
                       ELSE Idle]
        /\ cache' = IF q.resend THEN cache
                    ELSE [cache EXCEPT ![q.store] =
                            Created(q.store, q.id, tfa, q.id)]
        /\ UNCHANGED <<tfa, throttle, cookies, signedIn, reqs, wrong>>

(* SendVerificationCodeCommandHandler sends the code and publishes          *)
(* CacheVerificationEvent after that; without resend its handler sets a new *)
(* entry.                                                                   *)
SendCode(s) ==
    LET q == sends[s]
    IN  /\ MayStart
        /\ q.phase = "send"
        /\ sends' = [sends EXCEPT ![s] =
                       IF q.resend
                       THEN [phase |-> "change", store |-> q.store, otp |-> q.id]
                       ELSE Idle]
        /\ cache' = IF q.resend THEN cache
                    ELSE [cache EXCEPT ![q.store] =
                            Created(q.store, q.id, VerificatorChannel(q.channel), q.id)]
        /\ UNCHANGED <<tfa, throttle, cookies, signedIn, reqs, wrong>>

(* The mail server or Twilio refuses, or the account has no phone number.   *)
(* Nobody handles the rejection, so Node ends the process.                  *)
SendFails(s) ==
    /\ "refuse" \in Faults
    /\ MayStart
    /\ sends[s].phase = "send"
    /\ ProcessEnds
    /\ UNCHANGED <<tfa, cache, cookies, signedIn, wrong>>

(* Fault: a resend starts the entry anew.                                    *)
ChangeGetFresh(s) ==
    LET q == sends[s]
        entry == cache[q.store]
    IN  /\ q.phase = "change"
        /\ IF entry = None THEN ProcessEnds
           ELSE /\ sends' = [sends EXCEPT ![s] =
                               [phase |-> "ttl", store |-> q.store,
                                entry |-> Created(q.store, entry.id, entry.channel, q.otp)]]
                /\ UNCHANGED <<throttle, reqs>>
        /\ UNCHANGED <<tfa, cache, cookies, signedIn, wrong>>

(* Fault: the new code is not passed on.                                     *)
ChangeGetNoCode(s) ==
    LET q == sends[s]
        entry == cache[q.store]
    IN  /\ q.phase = "change"
        /\ IF entry = None THEN ProcessEnds
           ELSE /\ sends' = [sends EXCEPT ![s] =
                               [phase |-> "ttl", store |-> q.store,
                                entry |-> [entry EXCEPT !.otp = None]]]
                /\ UNCHANGED <<throttle, reqs>>
        /\ UNCHANGED <<tfa, cache, cookies, signedIn, wrong>>

(* changeCachedVerificationCode: its get, which throws without an entry...  *)
ChangeGet(s) ==
    LET q == sends[s]
        entry == cache[q.store]
    IN  /\ q.phase = "change"
        /\ IF entry = None THEN ProcessEnds
           ELSE /\ sends' = [sends EXCEPT ![s] =
                               [phase |-> "ttl", store |-> q.store,
                                entry |-> [entry EXCEPT !.otp = q.otp]]]
                /\ UNCHANGED <<throttle, reqs>>
        /\ UNCHANGED <<tfa, cache, cookies, signedIn, wrong>>

(* ... its ttl...                                                           *)
ChangeTtl(s) ==
    LET q == sends[s]
    IN  /\ q.phase = "ttl"
        /\ sends' = [sends EXCEPT ![s] =
                       [phase |-> "set", store |-> q.store, entry |-> q.entry,
                        ttl |-> TtlOf(cache[q.store])]]
        /\ UNCHANGED <<tfa, cache, throttle, cookies, signedIn, reqs, wrong>>

(* ... and its set, which throws when Redis refuses the ttl.                *)
ChangeSet(s) ==
    LET q == sends[s]
    IN  /\ q.phase = "set"
        /\ IF SetAccepts(q.ttl)
           THEN /\ cache' = [cache EXCEPT ![q.store] = Stored(q.entry, q.ttl)]
                /\ sends' = [sends EXCEPT ![s] = Idle]
                /\ UNCHANGED <<throttle, reqs>>
           ELSE ProcessEnds /\ UNCHANGED cache
        /\ UNCHANGED <<tfa, cookies, signedIn, wrong>>

-----------------------------------------------------------------------------
(* Requests                                                                 *)

(* LoginCommandHandler with the right password, and the cookie its          *)
(* controller sets.                                                         *)
Login2FA(c, id) ==
    /\ MayStart
    /\ tfa # None
    /\ id \notin IdsInUse
    /\ cookies' = [cookies EXCEPT !["login"][c] = [id |-> id, channel |-> tfa]]
    /\ wrong' = [wrong EXCEPT ![c] = 0]
    /\ Initiate("login", id, tfa)
    /\ UNCHANGED <<tfa, signedIn, reqs>>

(* ... and without 2FA (completeLogin).                                     *)
CompleteLogin(c) ==
    /\ MayStart
    /\ tfa = None
    /\ signedIn' = signedIn \cup {c}
    /\ UNCHANGED <<tfa, cache, throttle, sends, cookies, reqs, wrong>>

(* Fault: the cookies tell logins and setups apart.                          *)
StoreOfCookie(c) == IF cookies["login"][c] # None THEN "login" ELSE "setup"

(* The controller takes a client with an access token to be setting up a    *)
(* verification, and one without to be logging in.                          *)
StoreOf(c) == IF c \in signedIn THEN "setup" ELSE "login"

(* Fault: a code is requested for any channel.                               *)
ResendAnyChannel(c) ==
    LET store == StoreOf(c)
        entry == cache[store]
    IN  /\ MayStart
        /\ store = "login" => cookies["login"][c] # None
        /\ entry # None
        /\ RequestCode(store, entry.id, entry.channel, TRUE)
        /\ UNCHANGED <<tfa, cache, cookies, signedIn, reqs, wrong>>

(* Fault: the code is requested for the login or setup of the cookie.        *)
ResendForCookie(c) ==
    LET store == StoreOf(c)
        entry == cache[store]
    IN  /\ MayStart
        /\ cookies[store][c] # None
        /\ entry # None
        /\ entry.channel \in OtpVerification
        /\ RequestCode(store, cookies[store][c].id, entry.channel, TRUE)
        /\ UNCHANGED <<tfa, cache, cookies, signedIn, reqs, wrong>>

(* ResendVerificationCodeCommandHandler.  Without tokens the account is that*)
(* of the login cookie.  A TOTP entry, or one without a channel, is left    *)
(* alone.                                                                   *)
Resend(c) ==
    LET store == StoreOf(c)
        entry == cache[store]
    IN  /\ MayStart
        /\ store = "login" => cookies["login"][c] # None
        /\ entry # None
        /\ entry.channel \in OtpVerification
        /\ RequestCode(store, entry.id, entry.channel, TRUE)
        /\ UNCHANGED <<tfa, cache, cookies, signedIn, reqs, wrong>>

(* ConfirmTwoFactorAuthenticationCommandHandler up to the reading of the    *)
(* user: the cookie must be that of the entry.  A client with tokens never  *)
(* gets here: the controller takes it to confirm a registration.            *)
Confirm(r, c, right) ==
    LET cookie == cookies["login"][c]
        entry == cache["login"]
    IN  /\ MayStart
        /\ reqs[r] = Idle
        /\ StoreOf(c) = "login"
        /\ cookie # None
        /\ entry # None
        /\ cookie.id = entry.id
        /\ cookie.channel = entry.channel
        /\ reqs' = [reqs EXCEPT ![r] =
                      [phase |-> "verify", client |-> c, right |-> right, id |-> entry.id]]
        /\ UNCHANGED <<tfa, cache, throttle, sends, cookies, signedIn, wrong>>

(* It reads the user, whose 2FA may be off by now, and checks the code.     *)
Verify(r) ==
    LET q == reqs[r]
        c == q.client
    IN  /\ q.phase = "verify"
        /\ \/ /\ tfa = None
              /\ reqs' = [reqs EXCEPT ![r] = [phase |-> "cancel"]]
              /\ UNCHANGED wrong
           \/ /\ tfa # None /\ q.right
              /\ reqs' = [reqs EXCEPT ![r] =
                            [phase |-> "accept", client |-> c, tfa |-> tfa]]
              /\ UNCHANGED wrong
           \/ /\ tfa # None /\ ~q.right
              /\ wrong[c] < MaxWrong
              /\ reqs' = [reqs EXCEPT ![r] = [phase |-> "count"]]
              /\ wrong' = IF cookies["login"][c] # None /\ cookies["login"][c].id = q.id
                          THEN [wrong EXCEPT ![c] = @ + 1] ELSE wrong
        /\ UNCHANGED <<tfa, cache, throttle, sends, cookies, signedIn>>

(* The user cannot be read, or has no shared secret any more to check the   *)
(* code with.                                                               *)
VerifyFails(r) ==
    /\ reqs[r].phase = "verify"
    /\ reqs' = [reqs EXCEPT ![r] = Idle]
    /\ UNCHANGED <<tfa, cache, throttle, sends, cookies, signedIn, wrong>>

(* incrementAttempts: its get, which throws without an entry...             *)
IncrementGet(r) ==
    LET entry == cache["login"]
    IN  /\ reqs[r].phase = "count"
        /\ entry # None => entry.attempts < MaxWrong
        /\ reqs' = [reqs EXCEPT ![r] =
                      IF entry = None THEN Idle
                      ELSE [phase |-> "ttl",
                            entry |-> [entry EXCEPT !.attempts = @ + 1]]]
        /\ UNCHANGED <<tfa, cache, throttle, sends, cookies, signedIn, wrong>>

(* ... its ttl...                                                           *)
IncrementTtl(r) ==
    /\ reqs[r].phase = "ttl"
    /\ reqs' = [reqs EXCEPT ![r] =
                  [phase |-> "set", entry |-> reqs[r].entry,
                   ttl |-> TtlOf(cache["login"])]]
    /\ UNCHANGED <<tfa, cache, throttle, sends, cookies, signedIn, wrong>>

(* Fault: one attempt more.                                                 *)
ExceedsLate(attempts) == attempts > MaxAttempts

(* ... and its set, after which the handler compares the attempts.          *)
Exceeds(attempts) == attempts = MaxAttempts
IncrementSet(r) ==
    LET q == reqs[r]
    IN  /\ q.phase = "set"
        /\ cache' = IF SetAccepts(q.ttl)
                    THEN [cache EXCEPT !["login"] = Stored(q.entry, q.ttl)]
                    ELSE cache
        /\ reqs' = [reqs EXCEPT ![r] =
                      IF SetAccepts(q.ttl) /\ Exceeds(q.entry.attempts)
                      THEN [phase |-> "exceeded"] ELSE Idle]
        /\ UNCHANGED <<tfa, throttle, sends, cookies, signedIn, wrong>>

(* deleteCache after too many attempts, or because 2FA is off               *)
DropEntry(r) ==
    /\ reqs[r].phase \in {"exceeded", "cancel"}
    /\ cache' = [cache EXCEPT !["login"] = None]
    /\ reqs' = [reqs EXCEPT ![r] = Idle]
    /\ UNCHANGED <<tfa, throttle, sends, cookies, signedIn, wrong>>

(* Fault: the entry of a login that was confirmed stays.                     *)
AcceptKeepsEntry(r) ==
    LET c == reqs[r].client
    IN  /\ reqs[r].phase = "accept"
        /\ tfa' = reqs[r].tfa
        /\ signedIn' = signedIn \cup {c}
        /\ cookies' = [cookies EXCEPT !["login"][c] = None]
        /\ wrong' = [wrong EXCEPT ![c] = 0]
        /\ reqs' = [reqs EXCEPT ![r] = Idle]
        /\ UNCHANGED <<cache, throttle, sends>>

(* deleteCache after the right code; then the user read is saved, with the  *)
(* 2FA setting it had, and the answer carries the tokens and clears the     *)
(* cookie.                                                                  *)
Accept(r) ==
    LET c == reqs[r].client
    IN  /\ reqs[r].phase = "accept"
        /\ cache' = [cache EXCEPT !["login"] = None]
        /\ tfa' = reqs[r].tfa
        /\ signedIn' = signedIn \cup {c}
        /\ cookies' = [cookies EXCEPT !["login"][c] = None]
        /\ wrong' = [wrong EXCEPT ![c] = 0]
        /\ reqs' = [reqs EXCEPT ![r] = Idle]
        /\ UNCHANGED <<throttle, sends>>

(* The save fails: the setting's verification may be gone.                  *)
AcceptFails(r) ==
    /\ reqs[r].phase = "accept"
    /\ cache' = [cache EXCEPT !["login"] = None]
    /\ reqs' = [reqs EXCEPT ![r] = Idle]
    /\ UNCHANGED <<tfa, throttle, sends, cookies, signedIn, wrong>>

(* Or the access token, of which the browser drops the cookie, expires.      *)
Logout(c) ==
    /\ c \in signedIn
    /\ signedIn' = signedIn \ {c}
    /\ UNCHANGED <<tfa, cache, throttle, sends, cookies, reqs, wrong>>

(* Set2FACommandHandler and RemoveVerificationCommandHandler, for another   *)
(* session of the account's owner.                                          *)
Set2FA(channel) ==
    /\ MayStart
    /\ tfa # channel
    /\ tfa' = channel
    /\ UNCHANGED <<cache, throttle, sends, cookies, signedIn, reqs, wrong>>

SendsInTime ==
    "slowSend" \in Faults \/ \A s \in Sends : sends[s].phase # "send"

(* The browser drops a cookie whose maxAge, which is far more than the      *)
(* window, is over.                                                         *)
CookieExpires(store, c) ==
    /\ MayStart
    /\ SendsInTime
    /\ cookies[store][c] # None
    /\ cookies' = [cookies EXCEPT ![store][c] = None]
    /\ wrong' = IF store = "login" THEN [wrong EXCEPT ![c] = 0] ELSE wrong
    /\ UNCHANGED <<tfa, cache, throttle, sends, signedIn, reqs>>

-----------------------------------------------------------------------------
(* Time and failures                                                        *)

(* Redis and the throttle count down.  Without "lastHalf" nobody sees the   *)
(* last half second of an entry.                                            *)
Later(entry) ==
    IF "lastHalf" \notin Faults /\ TtlOf(entry) = 1 THEN None ELSE Aged(entry)
Tick ==
    /\ MayStart
    /\ throttle = 1 => SendsInTime
    /\ throttle > 0 \/ \E k \in Stores : cache[k] # None
    /\ throttle' = IF throttle > 0 THEN throttle - 1 ELSE 0
    /\ cache' = [k \in Stores |-> Later(cache[k])]
    /\ UNCHANGED <<tfa, sends, cookies, signedIn, reqs, wrong>>

Restart ==
    /\ "crash" \in Faults
    /\ ProcessEnds
    /\ UNCHANGED <<tfa, cache, cookies, signedIn, wrong>>

Next ==
    \/ \E s \in Sends :
        \/ SendCode(s)
        \/ SendFails(s)
        \/ ChangeGet(s)
        \/ ChangeTtl(s)
        \/ ChangeSet(s)
    \/ \E c \in Clients :
        \/ \E id \in Ids : Login2FA(c, id)
        \/ CompleteLogin(c)
        \/ Resend(c)
        \/ Logout(c)
        \/ \E store \in Stores : CookieExpires(store, c)
        \/ \E r \in Requests, right \in BOOLEAN : Confirm(r, c, right)
    \/ \E r \in Requests :
        \/ Verify(r)
        \/ VerifyFails(r)
        \/ IncrementGet(r)
        \/ IncrementTtl(r)
        \/ IncrementSet(r)
        \/ DropEntry(r)
        \/ Accept(r)
        \/ AcceptFails(r)
    \/ \E channel \in Channels \cup {None} : Set2FA(channel)
    \/ Tick
    \/ Restart

Spec == Init /\ [][Next]_vars
-----------------------------------------------------------------------------
(* Properties                                                               *)

TypeOK ==
    /\ tfa \in Channels \cup {None}
    /\ cache \in [Stores -> Entry \cup {None}]
    /\ throttle \in 0..Window
    /\ sends \in [Sends -> Sending \cup {Idle}]
    /\ cookies \in [Stores -> [Clients -> Cookie \cup {None}]]
    /\ signedIn \subseteq Clients
    /\ reqs \in [Requests -> Confirmation \cup {Idle}]
    /\ wrong \in [Clients -> 0..MaxWrong]

(* The client whose login or setup an entry belongs to can confirm it: the  *)
(* channel its handler put in the cookie is the one the sending side put in *)
(* the entry, however codes, resends, changes of the 2FA setting and        *)
(* restarts interleave (the two confirmations compare id and channelId).    *)
CookieMatchesEntry ==
    \A k \in Stores, c \in Clients :
        /\ cookies[k][c] # None
        /\ cache[k] # None
        /\ cookies[k][c].id = cache[k].id
        => cookies[k][c].channel = cache[k].channel

(* An entry of a channel that sends codes has one to compare with; without  *)
(* it confirmVerificationCode answers 500.                                  *)
EntryHasCode ==
    \A k \in Stores :
        cache[k] # None /\ cache[k].channel # TotpVerification
            => cache[k].otp # None

(* The code in an entry was sent for the login, or setup, the entry belongs *)
(* to: no resend puts its code into the entry of a later one, and no code   *)
(* of a setup becomes that of a login.                                      *)
CodeOfItsLogin ==
    \A k \in Stores :
        cache[k] # None /\ cache[k].channel # TotpVerification
            => cache[k].otp = cache[k].id

(* While handlers do not overlap, an entry counts every wrong code tried    *)
(* for its login, resent codes included, and is gone when they are          *)
(* maxAttempts.                                                             *)
AttemptsCounted ==
    LET entry == cache["login"]
    IN  Quiet /\ entry # None =>
            /\ entry.attempts < MaxAttempts
            /\ \A c \in Clients :
                  /\ cookies["login"][c] # None
                  /\ cookies["login"][c].id = entry.id
                  => entry.attempts = wrong[c]

(* No more than maxAttempts wrong codes are checked for one login, and the  *)
(* ones of confirmations that were under way when the limit was reached.    *)
AttemptsBounded ==
    \A c \in Clients : wrong[c] < MaxAttempts + Cardinality(Requests)

-----------------------------------------------------------------------------
(* The logins of LoginProtocol.  An entry that is about to be deleted for   *)
(* too many attempts can be confirmed no more.                              *)

Pending ==
    [c \in Clients |->
       IF cookies["login"][c] = None THEN None ELSE cookies["login"][c].id]

Awaits(s) ==
    sends[s].phase = "send" /\ sends[s].store = "login" /\ ~sends[s].resend
Awaited == {sends[s].id : s \in {x \in Sends : Awaits(x)}}

Exceeded == \E r \in Requests : reqs[r].phase = "exceeded"
LiveEntry == IF Exceeded THEN None ELSE cache["login"]
Live == IF LiveEntry = None THEN None ELSE LiveEntry.id
Tries == IF LiveEntry = None THEN 0 ELSE LiveEntry.attempts

LP == INSTANCE LoginProtocol WITH
    required <- tfa # None,
    pending  <- Pending,
    awaited  <- Awaited,
    live     <- Live,
    tries    <- Tries,
    signedIn <- signedIn

(* While handlers do not overlap and the server is not restarted, cookies,  *)
(* entries, throttle and codes on their way implement one protocol of       *)
(* logins: only the client of the live login, and none that has tokens, is  *)
(* signed in by a code, a code signs in once, and no login that was         *)
(* confirmed, refused or replaced becomes live again.                       *)
ImplementsLoginProtocol == LP!Spec

-----------------------------------------------------------------------------
(* Liveness                                                                 *)

Counting(r) == IncrementGet(r) \/ IncrementTtl(r) \/ IncrementSet(r)

(* The process runs its handlers, and time passes, however often handlers   *)
(* that do not overlap with anything hold it up.  Mail server, Twilio and   *)
(* database do not refuse for ever.                                         *)
ServerFairness ==
    /\ SF_vars(Tick)
    /\ SF_vars(\E s \in Sends : SendCode(s))
    /\ \A s \in Sends : WF_vars(ChangeGet(s) \/ ChangeTtl(s) \/ ChangeSet(s))
    /\ \A r \in Requests :
          /\ WF_vars(Verify(r) \/ VerifyFails(r) \/ Counting(r) \/ DropEntry(r))
          /\ SF_vars(reqs[r].phase = "verify" /\ reqs[r].right /\ Verify(r))
          /\ SF_vars(Accept(r))

FairSpec == Spec /\ ServerFairness

(* A patient user "waits a minute before asking for a new code": nobody logs*)
(* in while the throttle is closed.  The user does not give up, and enters  *)
(* the right code again and again while that is possible.                   *)
Patient(c, id) == throttle = 0 /\ Login2FA(c, id)
PatientSpec ==
    /\ Init
    /\ [][Next /\ (throttle = 0 \/ \A c \in Clients, id \in Ids : ~Login2FA(c, id))]_vars
    /\ ServerFairness
    /\ \A c \in Clients :
          /\ SF_vars(\E id \in Ids : Patient(c, id))
          /\ SF_vars(CompleteLogin(c))
          /\ SF_vars(\E r \in Requests : Confirm(r, c, TRUE))

(* A patient user signs in, however often sending fails, codes are mistyped,*)
(* entries expire and 2FA is set anew.                                      *)
PatientClientSignsIn == \A c \in Clients : []<>(c \in signedIn)

(* The answer to a login, "Complete login: verify the code by ...", is kept:*)
(* the login whose cookie a client goes on holding gets an entry.           *)
LoginGetsItsEntry ==
    \A c \in Clients, id \in Ids :
        <>[](cookies["login"][c] # None /\ cookies["login"][c].id = id)
            => <>(cache["login"] # None /\ cache["login"].id = id)
=============================================================================
