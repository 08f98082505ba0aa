---------------------------- MODULE AttemptsProofs ----------------------------
(***************************************************************************)
(* Every wrong code is counted, while handlers do not overlap, the server  *)
(* is not restarted and nobody writes in the last half second of an entry: *)
(* for any number of browsers, confirmations and sends, and any limit.     *)
(***************************************************************************)
EXTENDS LoginProtocolProofs, FiniteSetTheorems

Exact == Running /\ "lastHalf" \notin Faults

Has(c, id) == cookies["login"][c] # None /\ cookies["login"][c].id = id

CookiesApart ==
    \A c \in Clients, d \in Clients, id \in Ids : Has(c, id) /\ Has(d, id) => c = d

(* The entry a code on its way will make replaces another login's, and no   *)
(* code has been tried for it yet.                                          *)
AwaitedUntried ==
    \A s \in Sends : Awaits(s) =>
        /\ cache["login"] # None => cache["login"].id # sends[s].id
        /\ \A c \in Clients : Has(c, sends[s].id) => wrong[c] = 0

(* A wrong code that was checked is in the entry, or about to be.           *)
Uncounted == \E r \in Requests : reqs[r].phase \in {"count", "ttl", "set"}
Counted ==
    \A c \in Clients : Of(cookies["login"][c], cache["login"]) =>
        wrong[c] = cache["login"].attempts + (IF Uncounted THEN 1 ELSE 0)
VerifiesEntry ==
    \A r \in Requests : reqs[r].phase = "verify" => reqs[r].id = cache["login"].id

(* No write of an entry is refused, or makes it immortal.                   *)
HasTime(entry) == entry # None => entry.ttl >= 1
TimeLeft ==
    /\ \A k \in Stores : HasTime(cache[k])
    /\ \A s \in Sends : sends[s].phase = "set" => sends[s].ttl >= 1
    /\ \A r \in Requests : reqs[r].phase = "set" => reqs[r].ttl >= 1

CountInv ==
    /\ ProtocolInv
    /\ CookiesApart
    /\ AwaitedUntried
    /\ Counted
    /\ VerifiesEntry
    /\ TimeLeft

-----------------------------------------------------------------------------
LEMMA CreatedTime ==
    ASSUME NEW k \in Stores, NEW id, NEW channel, NEW otp
    PROVE  HasTime(Created(k, id, channel, otp))
BY StoreAssumption DEF HasTime, Created, LifetimeOf, Stores

LEMMA StoredTime ==
    ASSUME NEW entry \in Entry, NEW ttl \in NoKey..SetupLifetime, ttl >= 1
    PROVE  SetAccepts(ttl) /\ HasTime(Stored(entry, ttl))
BY StoreAssumption DEF SetAccepts, HasTime, Stored, Entry, NoKey

LEMMA LaterTime ==
    ASSUME NEW entry \in Entry \cup {None}, HasTime(entry), "lastHalf" \notin Faults
    PROVE  HasTime(Later(entry))
<1>1. CASE entry = None
  BY <1>1 DEF HasTime, Later, Aged
<1>2. CASE entry # None
  <2>1. entry \in Entry /\ entry.ttl \in 1..SetupLifetime
    BY <1>2, StoreAssumption DEF Entry, HasTime, Immortal
  <2>2. CASE entry.ttl = 1
    BY <1>2, <2>2 DEF HasTime, Later, TtlOf
  <2>3. CASE entry.ttl # 1
    <3>1. Later(entry) = [entry EXCEPT !.ttl = @ - 1]
      BY <1>2, <2>1, <2>3 DEF Later, Aged, TtlOf, Immortal
    <3>2. [entry EXCEPT !.ttl = @ - 1].ttl = entry.ttl - 1
      BY <2>1 DEF Entry
    <3> QED
      BY <2>1, <2>3, <3>1, <3>2, StoreAssumption DEF HasTime
  <2> QED
    BY <2>2, <2>3
<1> QED
  BY <1>1, <1>2

(* When no handler is under way there is nothing uncounted.                 *)
LEMMA QuietCounts ==
    ASSUME ProtocolInv', Quiet', CookiesApart', AwaitedUntried',
           \A k \in Stores : HasTime(cache'[k]),
           \A c \in Clients : Of(cookies'["login"][c], cache'["login"]) =>
              wrong'[c] = cache'["login"].attempts
    PROVE  CountInv'
<1>1. \A r \in Requests : reqs'[r].phase = "idle"
  BY PhaseOfIdle DEF Quiet
<1>2. \A s \in Sends : sends'[s].phase \in {"idle", "send"}
  BY DEF Quiet
<1>3. TypeOK'
  BY DEF ProtocolInv, SerialInv
<1>4. cache'["login"] # None => cache'["login"].attempts \in Nat
  BY <1>3, LoginStore DEF TypeOK, Entry
<1>5. Counted' /\ VerifiesEntry'
  BY <1>1, <1>4 DEF Counted, Uncounted, VerifiesEntry, Of
<1> QED
  BY <1>1, <1>2, <1>5 DEF CountInv, TimeLeft

(* The entry stays, is gone, or only its ttl and code change.               *)
SameEntry ==
    cache'["login"] # None =>
        /\ cache["login"] # None
        /\ cache'["login"].id = cache["login"].id
        /\ cache'["login"].attempts = cache["login"].attempts
FewerAwaited ==
    \A s \in Sends : Awaits(s)' => Awaits(s) /\ sends'[s].id = sends[s].id

LEMMA UntriedStays ==
    ASSUME AwaitedUntried, FewerAwaited, SameEntry, UNCHANGED <<cookies, wrong>>
    PROVE  AwaitedUntried'
BY DEF AwaitedUntried, FewerAwaited, SameEntry, Has

LEMMA ApartStays == CookiesApart /\ UNCHANGED cookies => CookiesApart'
BY DEF CookiesApart, Has

(* Steps between which there is nothing to count.                           *)
LEMMA QuietCount ==
    ASSUME TypeOK, \A r \in Requests : reqs[r] = Idle, Counted
    PROVE  \A c \in Clients : Of(cookies["login"][c], cache["login"]) =>
              wrong[c] = cache["login"].attempts
<1>1. ~Uncounted
  BY PhaseOfIdle DEF Uncounted
<1>2. cache["login"] # None => cache["login"].attempts \in Nat
  BY LoginStore DEF TypeOK, Entry
<1> QED
  BY <1>1, <1>2 DEF Counted, Of

-----------------------------------------------------------------------------
LEMMA CountSends ==
    ASSUME CountInv, ProtocolInv', Exact, NEW s \in Sends,
           SendCode(s) \/ SendFails(s) \/ ChangeGet(s) \/ ChangeTtl(s) \/ ChangeSet(s)
    PROVE  CountInv'
<1> DEFINE q == sends[s]
<1>1. /\ TypeOK
      /\ sends \in [Sends -> Sending \cup {Idle}]
      /\ cache \in [Stores -> Entry \cup {None}]
      /\ Idle.phase = "idle"
      /\ SerialInv
      /\ "login" \in Stores
  BY PhaseOfIdle, LoginStore DEF CountInv, ProtocolInv, SerialInv, TypeOK
<1>2. \A r \in Requests : reqs[r] = Idle
  <2>1. CASE SendCode(s) \/ SendFails(s)
    BY <2>1 DEF SendCode, SendFails, MayStart, Exact, Running, Serial, Quiet
  <2>2. CASE ChangeGet(s) \/ ChangeTtl(s) \/ ChangeSet(s)
    BY <1>1, <2>2 DEF SerialInv, OneAtATime, Between, ChangeGet, ChangeTtl, ChangeSet
  <2> QED
    BY <2>1, <2>2
<1>3. UNCHANGED <<cookies, wrong>> /\ \A r \in Requests : reqs'[r] = Idle
  BY <1>2 DEF SendCode, SendFails, ChangeGet, ChangeTtl, ChangeSet, ProcessEnds
<1>4. CookiesApart'
  BY <1>3, ApartStays DEF CountInv
<1>5. \A c \in Clients : Of(cookies["login"][c], cache["login"]) =>
         wrong[c] = cache["login"].attempts
  BY <1>1, <1>2, QuietCount DEF CountInv
<1>6. ASSUME \A c \in Clients : Of(cookies'["login"][c], cache'["login"]) =>
                wrong'[c] = cache'["login"].attempts,
             AwaitedUntried',
             \A k \in Stores : HasTime(cache'[k]),
             \A x \in Sends : sends'[x].phase = "set" => sends'[x].ttl >= 1
      PROVE  CountInv'
  <2>1. ~Uncounted' /\ VerifiesEntry'
    BY <1>1, <1>3 DEF Uncounted, VerifiesEntry
  <2>2. cache'["login"] # None => cache'["login"].attempts \in Nat
    BY LoginStore DEF ProtocolInv, SerialInv, TypeOK, Entry
  <2>3. Counted'
    BY <1>6, <2>1, <2>2 DEF Counted, Of
  <2>4. \A r \in Requests : reqs'[r].phase # "set"
    BY <1>1, <1>3
  <2> QED
    BY <1>4, <1>6, <2>1, <2>3, <2>4 DEF CountInv, TimeLeft
<1>7. ASSUME SameEntry, FewerAwaited,
             \A k \in Stores : HasTime(cache'[k]),
             \A x \in Sends : sends'[x].phase = "set" => sends'[x].ttl >= 1
      PROVE  CountInv'
  <2>1. AwaitedUntried'
    BY <1>3, <1>7, UntriedStays DEF CountInv
  <2>2. \A c \in Clients : Of(cookies'["login"][c], cache'["login"]) =>
           wrong'[c] = cache'["login"].attempts
    BY <1>3, <1>5, <1>7 DEF SameEntry, Of
  <2> QED
    BY <1>6, <1>7, <2>1, <2>2
<1>8. /\ \A k \in Stores : HasTime(cache[k])
      /\ \A x \in Sends : sends[x].phase = "set" => sends[x].ttl >= 1
  BY DEF CountInv, TimeLeft
<1>9. ASSUME ProcessEnds, UNCHANGED cache PROVE CountInv'
  <2>1. \A x \in Sends : sends'[x].phase = "idle"
    BY <1>1, <1>9 DEF ProcessEnds
  <2>2. SameEntry /\ FewerAwaited
    BY <1>9, <2>1 DEF SameEntry, FewerAwaited, Awaits
  <2> QED
    BY <1>7, <1>8, <1>9, <2>1, <2>2
<1>10. CASE SendCode(s)
  <2> DEFINE e == Created(q.store, q.id, VerificatorChannel(q.channel), q.id)
  <2>1. /\ q.phase = "send" /\ q.store \in Stores /\ q.id \in Ids
        /\ q.channel \in OtpVerification
    BY <1>1, <1>10, SendTypes DEF SendCode
  <2>2. /\ \A x \in Sends : x # s => sends'[x] = sends[x]
        /\ sends'[s].phase \in {"idle", "change"}
        /\ cache' = IF q.resend THEN cache ELSE [cache EXCEPT ![q.store] = e]
    BY <1>1, <1>10 DEF SendCode
  <2>3. HasTime(e) /\ e.id = q.id /\ e.attempts = 0 /\ e # None
    BY <2>1, CreatedTime, SentEntry, NoneAssumption
  <2> HIDE DEF e
  <2>4. /\ \A k \in Stores : HasTime(cache'[k])
        /\ \A x \in Sends : sends'[x].phase = "set" => sends'[x].ttl >= 1
    BY <1>1, <1>8, <2>2, <2>3
  <2>5. FewerAwaited
    BY <2>2 DEF FewerAwaited, Awaits
  <2>6. CASE ~Awaits(s)
    <3>1. cache'["login"] = cache["login"]
      BY <1>1, <2>1, <2>2, <2>6 DEF Awaits
    <3> QED
      BY <1>7, <2>4, <2>5, <3>1 DEF SameEntry
  <2>7. CASE Awaits(s)
    <3>1. cache'["login"] = e
      BY <1>1, <2>2, <2>7 DEF Awaits
    <3>2. \A c \in Clients : Has(c, q.id) => wrong[c] = 0
      BY <2>7 DEF CountInv, AwaitedUntried
    <3>3. \A c \in Clients : Of(cookies'["login"][c], cache'["login"]) =>
             wrong'[c] = cache'["login"].attempts
      BY <1>3, <2>3, <3>1, <3>2 DEF Of, Has
    <3>4. \A x \in Sends : Awaits(x)' => Awaits(x) /\ sends'[x].id = sends[x].id
                                          /\ sends[x].id # q.id
      BY <2>2, <2>5, <2>7 DEF FewerAwaited, CountInv, ProtocolInv, AwaitedOnce, Awaits
    <3>5. AwaitedUntried'
      BY <1>3, <2>3, <3>1, <3>4 DEF CountInv, AwaitedUntried, Has
    <3> QED
      BY <1>6, <2>4, <3>3, <3>5
  <2> QED
    BY <2>6, <2>7
<1>11. CASE SendFails(s)
  BY <1>9, <1>11 DEF SendFails
<1>12. CASE ChangeGet(s)
  <2>1. CASE cache[q.store] = None
    BY <1>9, <1>12, <2>1 DEF ChangeGet
  <2>2. CASE cache[q.store] # None
    <3>1. /\ UNCHANGED cache
          /\ \A x \in Sends : x # s => sends'[x] = sends[x]
          /\ sends'[s].phase = "ttl"
      BY <1>1, <1>12, <2>2 DEF ChangeGet
    <3>2. SameEntry /\ FewerAwaited
      BY <3>1 DEF SameEntry, FewerAwaited, Awaits
    <3> QED
      BY <1>7, <1>8, <3>1, <3>2
  <2> QED
    BY <2>1, <2>2
<1>13. CASE ChangeTtl(s)
  <2>1. /\ UNCHANGED cache
        /\ \A x \in Sends : x # s => sends'[x] = sends[x]
        /\ sends'[s].phase = "set" /\ sends'[s].ttl = TtlOf(cache[q.store])
        /\ q.phase = "ttl"
    BY <1>1, <1>13 DEF ChangeTtl
  <2>2. cache[q.store] # None /\ q.store \in Stores
    BY <1>1, <2>1, SendTypes DEF SerialInv, ChangesCached
  <2>3. TtlOf(cache[q.store]) >= 1
    BY <1>8, <2>2 DEF HasTime, TtlOf
  <2>4. SameEntry /\ FewerAwaited
    BY <2>1 DEF SameEntry, FewerAwaited, Awaits
  <2> QED
    BY <1>7, <1>8, <2>1, <2>3, <2>4
<1>14. CASE ChangeSet(s)
  <2> DEFINE e == Stored(q.entry, q.ttl)
  <2>1. /\ q.phase = "set" /\ q.store \in Stores
        /\ q.entry \in Entry /\ q.ttl \in NoKey..SetupLifetime /\ q.ttl >= 1
    BY <1>1, <1>8, <1>14, SendTypes DEF ChangeSet
  <2>2. SetAccepts(q.ttl) /\ HasTime(e) /\ e.id = q.entry.id /\ e.attempts = q.entry.attempts
    BY <2>1, StoredTime, StoredType
  <2>3. /\ \A x \in Sends : x # s => sends'[x] = sends[x]
        /\ sends'[s].phase = "idle"
        /\ cache' = [cache EXCEPT ![q.store] = e]
    BY <1>1, <1>14, <2>2 DEF ChangeSet
  <2>4. /\ cache[q.store] # None
        /\ q.entry.id = cache[q.store].id
        /\ q.entry.attempts = cache[q.store].attempts
    BY <1>1, <2>1 DEF SerialInv, ChangesCached
  <2> HIDE DEF e
  <2>5. SameEntry /\ FewerAwaited
    BY <1>1, <2>1, <2>2, <2>3, <2>4 DEF SameEntry, FewerAwaited, Awaits
  <2>6. \A k \in Stores : HasTime(cache'[k])
    BY <1>1, <1>8, <2>1, <2>2, <2>3
  <2> QED
    BY <1>7, <1>8, <2>3, <2>5, <2>6
<1> QED
  BY <1>10, <1>11, <1>12, <1>13, <1>14

(* A confirmation takes a step: no other is under way, and nothing is being *)
(* resent.                                                                  *)
LEMMA CountRequests ==
    ASSUME CountInv, ProtocolInv', NEW r \in Requests,
           \/ Verify(r) \/ VerifyFails(r) \/ IncrementGet(r) \/ IncrementTtl(r)
           \/ IncrementSet(r) \/ DropEntry(r) \/ Accept(r) \/ AcceptFails(r)
    PROVE  CountInv'
<1> DEFINE q == reqs[r]
           entry == cache["login"]
           CountPhase(p) == p \in {"count", "ttl", "set"}
<1>1. /\ TypeOK
      /\ reqs \in [Requests -> Confirmation \cup {Idle}]
      /\ cache \in [Stores -> Entry \cup {None}]
      /\ cookies \in [Stores -> [Clients -> Cookie \cup {None}]]
      /\ wrong \in [Clients -> 0..MaxWrong]
      /\ Idle.phase = "idle"
      /\ SerialInv
      /\ "login" \in Stores
  BY PhaseOfIdle, LoginStore DEF CountInv, ProtocolInv, SerialInv, TypeOK
<1>2. q # Idle /\ UNCHANGED sends
  BY <1>1 DEF Verify, VerifyFails, IncrementGet, IncrementTtl, IncrementSet,
              DropEntry, Accept, AcceptFails
<1>3. /\ \A x \in Requests : x # r => reqs[x] = Idle
      /\ \A x \in Requests : x # r => reqs'[x] = Idle
  BY <1>1, <1>2 DEF SerialInv, OneAtATime, Verify, VerifyFails, IncrementGet,
     IncrementTtl, IncrementSet, DropEntry, Accept, AcceptFails
<1>4. /\ Uncounted <=> CountPhase(q.phase)
      /\ Uncounted' <=> CountPhase(reqs'[r].phase)
  BY <1>1, <1>3 DEF Uncounted
<1>5. FewerAwaited
  BY <1>2 DEF FewerAwaited, Awaits
<1>6. /\ entry # None => entry.attempts \in Nat
      /\ cache'["login"] # None => cache'["login"].attempts \in Nat
  BY LoginStore DEF CountInv, ProtocolInv, SerialInv, TypeOK, Entry
<1>7. /\ \A k \in Stores : HasTime(cache[k])
      /\ \A s \in Sends : sends[s].phase = "set" => sends[s].ttl >= 1
      /\ q.phase = "set" => q.ttl >= 1
  BY DEF CountInv, TimeLeft
<1>8. ASSUME CookiesApart', AwaitedUntried', Counted',
             reqs'[r].phase # "verify",
             reqs'[r].phase = "set" => reqs'[r].ttl >= 1,
             \A k \in Stores : HasTime(cache'[k])
      PROVE  CountInv'
  <2>1. VerifiesEntry'
    BY <1>1, <1>3, <1>8 DEF VerifiesEntry
  <2>2. TimeLeft'
    BY <1>1, <1>2, <1>3, <1>7, <1>8 DEF TimeLeft
  <2> QED
    BY <1>8, <2>1, <2>2 DEF CountInv
<1>9. ASSUME UNCHANGED <<cache, cookies, wrong>>,
             CountPhase(reqs'[r].phase) <=> CountPhase(q.phase),
             reqs'[r].phase # "verify",
             reqs'[r].phase = "set" => reqs'[r].ttl >= 1
      PROVE  CountInv'
  <2>1. CookiesApart'
    BY <1>9, ApartStays DEF CountInv
  <2>2. AwaitedUntried'
    BY <1>5, <1>9, UntriedStays DEF CountInv, SameEntry
  <2>3. Counted'
    BY <1>4, <1>9 DEF CountInv, Counted, Of
  <2> QED
    BY <1>7, <1>8, <1>9, <2>1, <2>2, <2>3
<1>10. CASE Verify(r)
  <2> DEFINE c == q.client
  <2>1. /\ q.phase = "verify" /\ c \in Clients /\ q.id \in Ids
        /\ UNCHANGED <<cache, cookies>>
    BY <1>1, <1>10, ReqTypes DEF Verify
  <2>2. CASE tfa = None \/ q.right
    <3>1. /\ UNCHANGED <<cache, cookies, wrong>>
          /\ reqs'[r].phase \in {"cancel", "accept"}
      BY <1>1, <1>10, <2>2 DEF Verify
    <3> QED
      BY <1>9, <2>1, <3>1
  <2>3. CASE tfa # None /\ ~q.right
    <3>1. Of(cookies["login"][c], entry) /\ q.id = entry.id
      BY <2>1 DEF CountInv, ProtocolInv, Checked, VerifiesEntry
    <3>2. /\ reqs'[r].phase = "count"
          /\ wrong' = [wrong EXCEPT ![c] = @ + 1]
      BY <1>1, <1>10, <2>3, <3>1 DEF Verify, Of
    <3>3. /\ \A d \in Clients : d # c => wrong'[d] = wrong[d]
          /\ wrong'[c] = wrong[c] + 1
      BY <1>1, <2>1, <3>2
    <3>4. \A d \in Clients : Of(cookies["login"][d], entry) => d = c
      BY <2>1, <3>1 DEF CountInv, CookiesApart, Has, Of
    <3>5. wrong[c] = entry.attempts
      BY <1>4, <1>6, <2>1, <3>1 DEF CountInv, Counted, Of
    <3>6. Counted'
      BY <1>4, <1>6, <2>1, <3>1, <3>2, <3>3, <3>4, <3>5 DEF Counted, Of
    <3>7. AwaitedUntried'
      <4>1. \A s \in Sends : Awaits(s) => ~Has(c, sends[s].id)
        BY <3>1 DEF CountInv, AwaitedUntried, Has, Of
      <4> QED
        BY <1>2, <2>1, <3>3, <4>1 DEF CountInv, AwaitedUntried, Awaits, Has
    <3>8. CookiesApart'
      BY <2>1, ApartStays DEF CountInv
    <3> QED
      BY <1>7, <1>8, <2>1, <3>2, <3>6, <3>7, <3>8
  <2> QED
    BY <2>2, <2>3
<1>11. CASE VerifyFails(r)
  BY <1>1, <1>9, <1>11 DEF VerifyFails
<1>12. CASE IncrementGet(r)
  <2>1. entry # None /\ q.phase = "count"
    BY <1>12 DEF CountInv, ProtocolInv, Checked, Of, IncrementGet
  <2> QED
    BY <1>1, <1>9, <1>12, <2>1 DEF IncrementGet
<1>13. CASE IncrementTtl(r)
  <2>1. /\ UNCHANGED <<cache, cookies, wrong>> /\ q.phase = "ttl"
        /\ reqs'[r].phase = "set" /\ reqs'[r].ttl = TtlOf(entry)
    BY <1>1, <1>13 DEF IncrementTtl
  <2>2. TtlOf(entry) >= 1
    BY <1>1, <1>7, <2>1 DEF SerialInv, CountsCached, HasTime, TtlOf
  <2> QED
    BY <1>9, <2>1, <2>2
<1>14. CASE IncrementSet(r)
  <2> DEFINE e == Stored(q.entry, q.ttl)
  <2>1. /\ UNCHANGED <<cookies, wrong>> /\ q.phase = "set"
        /\ entry # None /\ q.entry = [entry EXCEPT !.attempts = @ + 1]
        /\ q.entry \in Entry /\ q.ttl \in NoKey..SetupLifetime /\ q.ttl >= 1
    BY <1>1, <1>7, <1>14, ReqTypes DEF IncrementSet, SerialInv, CountsCached
  <2>2. /\ SetAccepts(q.ttl) /\ HasTime(e)
        /\ e.id = q.entry.id /\ e.attempts = q.entry.attempts
    BY <2>1, StoredTime, StoredType
  <2>3. q.entry.id = entry.id /\ q.entry.attempts = entry.attempts + 1
    BY <1>1, <2>1, AttemptsType
  <2>4. /\ cache' = [cache EXCEPT !["login"] = e]
        /\ reqs'[r].phase \in {"exceeded", "idle"}
    BY <1>1, <1>14, <2>2 DEF IncrementSet
  <2> HIDE DEF e
  <2>5. cache'["login"] = e /\ \A k \in Stores : HasTime(cache'[k])
    BY <1>1, <1>7, <2>2, <2>4
  <2>6. Counted'
    BY <1>4, <1>6, <2>1, <2>2, <2>3, <2>4, <2>5 DEF CountInv, Counted, Of
  <2>7. AwaitedUntried'
    BY <1>2, <2>1, <2>2, <2>3, <2>5 DEF CountInv, AwaitedUntried, Awaits, Has
  <2>8. CookiesApart'
    BY <2>1, ApartStays DEF CountInv
  <2> QED
    BY <1>8, <2>4, <2>5, <2>6, <2>7, <2>8
<1>15. CASE DropEntry(r) \/ Accept(r) \/ AcceptFails(r)
  <2>1. /\ cache' = [cache EXCEPT !["login"] = None]
        /\ reqs'[r].phase = "idle"
        /\ \/ UNCHANGED <<cookies, wrong>>
           \/ /\ q.phase = "accept"
              /\ cookies' = [cookies EXCEPT !["login"][q.client] = None]
              /\ wrong' = [wrong EXCEPT ![q.client] = 0]
    BY <1>1, <1>15 DEF DropEntry, Accept, AcceptFails
  <2>2. cache'["login"] = None /\ \A k \in Stores : HasTime(cache'[k])
    BY <1>1, <1>7, <2>1 DEF HasTime
  <2>3. \A d \in Clients :
           \/ cookies'["login"][d] = cookies["login"][d] /\ wrong'[d] = wrong[d]
           \/ cookies'["login"][d] = None
    <3>1. q.phase = "accept" => q.client \in Clients
      BY <1>1, ReqTypes
    <3> QED
      BY <1>1, <2>1, <3>1
  <2>4. CookiesApart'
    BY <2>3 DEF CountInv, CookiesApart, Has
  <2>5. AwaitedUntried'
    BY <1>5, <2>2, <2>3 DEF CountInv, AwaitedUntried, FewerAwaited, Has
  <2>6. Counted'
    BY <2>2 DEF Counted, Of
  <2> QED
    BY <1>8, <2>1, <2>2, <2>4, <2>5, <2>6
<1> QED
  BY <1>10, <1>11, <1>12, <1>13, <1>14, <1>15

LEMMA CountLogin ==
    ASSUME CountInv, ProtocolInv', Exact, NEW c \in Clients, NEW id \in Ids,
           Login2FA(c, id)
    PROVE  CountInv'
<1> DEFINE cookie == [id |-> id, channel |-> tfa]
           Q == [phase |-> "send", store |-> "login", id |-> id, channel |-> tfa,
                 resend |-> FALSE]
           e == Created("login", id, tfa, None)
<1>1. /\ TypeOK
      /\ sends \in [Sends -> Sending \cup {Idle}]
      /\ cache \in [Stores -> Entry \cup {None}]
      /\ cookies \in [Stores -> [Clients -> Cookie \cup {None}]]
      /\ wrong \in [Clients -> 0..MaxWrong]
      /\ "login" \in Stores
  BY LoginStore DEF CountInv, ProtocolInv, SerialInv, TypeOK
<1>2. /\ Quiet /\ id \notin IdsInUse
      /\ UNCHANGED reqs
      /\ cookies' = [cookies EXCEPT !["login"][c] = cookie]
      /\ wrong' = [wrong EXCEPT ![c] = 0]
  BY DEF Login2FA, MayStart, Exact, Running, Serial
<1>3. \/ UNCHANGED <<sends, cache>>
      \/ /\ UNCHANGED cache
         /\ \E s \in Sends : sends' = [sends EXCEPT ![s] = Q]
      \/ UNCHANGED sends /\ cache' = [cache EXCEPT !["login"] = e]
  BY DEF Login2FA, Initiate, RequestCode
<1>4. cookie.id = id
  OBVIOUS
<1>5. e.id = id /\ e.attempts = 0 /\ HasTime(e)
  BY <1>1, CreatedTime DEF Created
<1>6. Q.phase = "send" /\ Q.id = id
  OBVIOUS
<1> HIDE DEF cookie, Q, e
<1>7. \A s \in Sends : sends'[s] = sends[s] \/ sends'[s] = Q
  BY <1>1, <1>3
<1>8. Quiet'
  BY <1>2, <1>6, <1>7 DEF Quiet
<1>9. /\ cache'["login"] = cache["login"] \/ cache'["login"] = e
      /\ \A k \in Stores : HasTime(cache'[k])
  BY <1>1, <1>3, <1>5 DEF CountInv, TimeLeft
<1>10. /\ cookies'["login"][c] = cookie /\ wrong'[c] = 0
       /\ \A d \in Clients : d # c =>
             cookies'["login"][d] = cookies["login"][d] /\ wrong'[d] = wrong[d]
  BY <1>1, <1>2
<1>11. /\ \A d \in Clients : cookies["login"][d] # None => cookies["login"][d].id # id
       /\ cache["login"] # None => cache["login"].id # id
       /\ \A s \in Sends : sends[s].phase = "send" => sends[s].id # id
  BY <1>1, <1>2, FreshId
<1>12. CookiesApart'
  BY <1>4, <1>10, <1>11 DEF CountInv, CookiesApart, Has
<1>13. AwaitedUntried'
  <2> SUFFICES ASSUME NEW s \in Sends, Awaits(s)'
               PROVE  /\ cache'["login"] # None => cache'["login"].id # sends'[s].id
                      /\ \A d \in Clients : Has(d, sends[s].id)' => wrong'[d] = 0
    BY DEF AwaitedUntried
  <2>1. CASE sends'[s] = sends[s]
    BY <1>4, <1>5, <1>9, <1>10, <1>11, <2>1 DEF CountInv, AwaitedUntried, Awaits, Has
  <2>2. CASE sends'[s] # sends[s]
    <3>1. sends'[s] = Q /\ UNCHANGED cache
      BY <1>1, <1>3, <2>2
    <3> QED
      BY <1>6, <1>10, <1>11, <3>1 DEF Has
  <2> QED
    BY <2>1, <2>2
<1>14. \A d \in Clients : Of(cookies["login"][d], cache["login"]) =>
          wrong[d] = cache["login"].attempts
  BY <1>1, <1>2, QuietCount DEF CountInv, Quiet
<1>15. \A d \in Clients : Of(cookies'["login"][d], cache'["login"]) =>
          wrong'[d] = cache'["login"].attempts
  BY <1>4, <1>5, <1>9, <1>10, <1>11, <1>14 DEF Of
<1> QED
  BY <1>8, <1>9, <1>12, <1>13, <1>15, QuietCounts

LEMMA CountNext == CountInv /\ Exact /\ [Next]_vars => CountInv'
<1> SUFFICES ASSUME CountInv, Exact, [Next]_vars PROVE CountInv'
  OBVIOUS
<1>1. ProtocolInv'
  BY ProtocolNext DEF CountInv, Exact
<1>2. /\ TypeOK
      /\ sends \in [Sends -> Sending \cup {Idle}]
      /\ reqs \in [Requests -> Confirmation \cup {Idle}]
      /\ cache \in [Stores -> Entry \cup {None}]
      /\ cookies \in [Stores -> [Clients -> Cookie \cup {None}]]
      /\ wrong \in [Clients -> 0..MaxWrong]
      /\ Idle.phase = "idle"
      /\ "login" \in Stores
  BY PhaseOfIdle, LoginStore DEF CountInv, ProtocolInv, SerialInv, TypeOK
<1>3. MayStart <=> Quiet
  BY DEF MayStart, Exact, Running, Serial
<1>4. \A k \in Stores : HasTime(cache[k])
  BY DEF CountInv, TimeLeft
<1>5. Quiet =>
         \A c \in Clients : Of(cookies["login"][c], cache["login"]) =>
            wrong[c] = cache["login"].attempts
  BY <1>2, QuietCount DEF CountInv, Quiet
<1>6. ASSUME UNCHANGED <<cache, sends, cookies, reqs, wrong>> PROVE CountInv'
  <2>1. CookiesApart'
    BY <1>6, ApartStays DEF CountInv
  <2>2. AwaitedUntried'
    BY <1>6 DEF CountInv, AwaitedUntried, Awaits, Has
  <2>3. Counted'
    BY <1>6 DEF CountInv, Counted, Of, Uncounted
  <2>4. VerifiesEntry' /\ TimeLeft'
    BY <1>6 DEF CountInv, VerifiesEntry, TimeLeft
  <2> QED
    BY <1>1, <2>1, <2>2, <2>3, <2>4 DEF CountInv
<1>7. ASSUME NEW c \in Clients, CompleteLogin(c) \/ Logout(c) PROVE CountInv'
  BY <1>6, <1>7 DEF CompleteLogin, Logout
<1>8. ASSUME NEW channel \in Channels \cup {None}, Set2FA(channel) PROVE CountInv'
  BY <1>6, <1>8 DEF Set2FA
<1>9. CASE UNCHANGED vars
  BY <1>6, <1>9 DEF vars
<1>10. ASSUME NEW c \in Clients, Resend(c) PROVE CountInv'
  <2> DEFINE k == StoreOf(c)
             Q == [phase |-> "send", store |-> k, id |-> cache[k].id,
                   channel |-> cache[k].channel, resend |-> TRUE]
  <2>1. Quiet /\ UNCHANGED <<cache, cookies, reqs, wrong>>
    BY <1>3, <1>10 DEF Resend
  <2>2. UNCHANGED sends \/ \E s \in Sends : sends' = [sends EXCEPT ![s] = Q]
    BY <1>10 DEF Resend, RequestCode
  <2>3. Q.phase = "send" /\ Q.resend
    OBVIOUS
  <2> HIDE DEF Q
  <2>4. \A s \in Sends : sends'[s] = sends[s] \/ sends'[s] = Q
    BY <1>2, <2>2
  <2>5. Quiet'
    BY <2>1, <2>3, <2>4 DEF Quiet
  <2>6. FewerAwaited /\ SameEntry
    BY <2>1, <2>3, <2>4 DEF FewerAwaited, SameEntry, Awaits
  <2>7. CookiesApart' /\ AwaitedUntried'
    BY <2>1, <2>6, ApartStays, UntriedStays DEF CountInv
  <2> QED
    BY <1>1, <1>4, <1>5, <2>1, <2>5, <2>7, QuietCounts
<1>11. ASSUME NEW r \in Requests, NEW c \in Clients, NEW right \in BOOLEAN,
              Confirm(r, c, right)
       PROVE  CountInv'
  <2>1. Quiet /\ UNCHANGED <<cache, sends, cookies, wrong>>
    BY <1>3, <1>11 DEF Confirm
  <2>2. /\ \A x \in Requests : x # r => reqs'[x] = Idle
        /\ reqs'[r].phase = "verify" /\ reqs'[r].id = cache["login"].id
    BY <1>2, <1>11, <2>1 DEF Confirm, Quiet
  <2>3. CookiesApart'
    BY <2>1, ApartStays DEF CountInv
  <2>4. AwaitedUntried'
    BY <2>1 DEF CountInv, AwaitedUntried, Awaits, Has
  <2>5. Counted'
    <3>1. ~Uncounted' /\ ~Uncounted
      BY <1>2, <2>1, <2>2 DEF Uncounted, Quiet
    <3> QED
      BY <2>1, <3>1 DEF CountInv, Counted, Of
  <2>6. VerifiesEntry'
    BY <1>2, <2>1, <2>2 DEF VerifiesEntry
  <2>7. TimeLeft'
    BY <1>2, <2>1, <2>2 DEF CountInv, TimeLeft
  <2> QED
    BY <1>1, <2>3, <2>4, <2>5, <2>6, <2>7 DEF CountInv
<1>12. ASSUME NEW c \in Clients, NEW k \in Stores, CookieExpires(k, c) PROVE CountInv'
  <2>1. /\ Quiet /\ UNCHANGED <<cache, sends, reqs>>
        /\ cookies' = [cookies EXCEPT ![k][c] = None]
        /\ wrong' = IF k = "login" THEN [wrong EXCEPT ![c] = 0] ELSE wrong
    BY <1>3, <1>12 DEF CookieExpires
  <2>2. \A d \in Clients :
           \/ cookies'["login"][d] = cookies["login"][d] /\ wrong'[d] = wrong[d]
           \/ cookies'["login"][d] = None
    BY <1>2, <2>1
  <2>3. Quiet'
    BY <2>1 DEF Quiet
  <2>4. CookiesApart'
    BY <2>2 DEF CountInv, CookiesApart, Has
  <2>5. AwaitedUntried'
    BY <2>1, <2>2 DEF CountInv, AwaitedUntried, Awaits, Has
  <2>6. \A d \in Clients : Of(cookies'["login"][d], cache'["login"]) =>
           wrong'[d] = cache'["login"].attempts
    BY <1>5, <2>1, <2>2 DEF Of
  <2> QED
    BY <1>1, <1>4, <2>1, <2>3, <2>4, <2>5, <2>6, QuietCounts
<1>13. CASE Tick
  <2>1. /\ Quiet /\ UNCHANGED <<sends, cookies, reqs, wrong>>
        /\ \A k \in Stores : cache'[k] = Later(cache[k])
    BY <1>2, <1>3, <1>13 DEF Tick
  <2>2. \A k \in Stores : HasTime(cache'[k])
    BY <1>2, <1>4, <2>1, LaterTime DEF Exact
  <2>3. SameEntry /\ FewerAwaited
    BY <1>2, <2>1, LaterType DEF SameEntry, FewerAwaited, Awaits
  <2>4. CookiesApart' /\ AwaitedUntried'
    BY <2>1, <2>3, ApartStays, UntriedStays DEF CountInv
  <2>5. \A c \in Clients : Of(cookies'["login"][c], cache'["login"]) =>
           wrong'[c] = cache'["login"].attempts
    BY <1>5, <2>1, <2>3 DEF SameEntry, Of
  <2>6. Quiet'
    BY <2>1 DEF Quiet
  <2> QED
    BY <1>1, <2>2, <2>4, <2>5, <2>6, QuietCounts
<1>14. ~Restart
  BY DEF Restart, Exact, Running
<1> QED
  BY <1>1, <1>7, <1>8, <1>9, <1>10, <1>11, <1>12, <1>13, <1>14, CountSends,
     CountRequests, CountLogin DEF Next

LEMMA CountInit == Init => CountInv
<1> SUFFICES ASSUME Init PROVE CountInv
  OBVIOUS
<1>1. /\ \A s \in Sends : sends[s].phase = "idle"
      /\ \A r \in Requests : reqs[r].phase = "idle"
      /\ \A k \in Stores : cache[k] = None
      /\ \A c \in Clients : cookies["login"][c] = None
  BY PhaseOfIdle, LoginStore DEF Init
<1>2. CookiesApart /\ AwaitedUntried
  BY <1>1 DEF CookiesApart, AwaitedUntried, Awaits, Has
<1>3. Counted /\ VerifiesEntry /\ TimeLeft
  BY <1>1 DEF Counted, Of, VerifiesEntry, TimeLeft, HasTime
<1> QED
  BY <1>2, <1>3, ProtocolInit DEF CountInv

(* No wrong code goes uncounted, whatever is resent, logged in again or     *)
(* refused, and an entry with maxAttempts of them is gone: as long as       *)
(* nothing happens between a read of an entry and the write that goes with  *)
(* it, the server is not restarted there, and the write does not come so    *)
(* late that Redis' rounding makes the entry immortal.                      *)
THEOREM WrongCodesAreCounted == Exact /\ Spec => []AttemptsCounted
<1> SUFFICES ASSUME Exact PROVE Spec => []AttemptsCounted
  OBVIOUS
<1>1. CountInv /\ [Next]_vars => CountInv'
  BY CountNext
<1>2. CountInv => AttemptsCounted
  <2> SUFFICES ASSUME CountInv, Quiet, cache["login"] # None
               PROVE  /\ cache["login"].attempts < MaxAttempts
                      /\ \A c \in Clients :
                            /\ cookies["login"][c] # None
                            /\ cookies["login"][c].id = cache["login"].id
                            => cache["login"].attempts = wrong[c]
    BY DEF AttemptsCounted
  <2>1. TypeOK /\ \A r \in Requests : reqs[r] = Idle
    BY DEF CountInv, ProtocolInv, SerialInv, Quiet
  <2>2. cache["login"].attempts < MaxAttempts
    BY <2>1, NotExceeded DEF CountInv, ProtocolInv, AttemptsLeft
  <2>3. \A c \in Clients : Of(cookies["login"][c], cache["login"]) =>
           wrong[c] = cache["login"].attempts
    BY <2>1, QuietCount DEF CountInv
  <2> QED
    BY <2>2, <2>3 DEF Of
<1> QED
  BY <1>1, <1>2, CountInit, PTL DEF Spec

-----------------------------------------------------------------------------
(* What is counted is also bounded: a confirmation that finds its entry     *)
(* finds fewer than maxAttempts wrong codes in it.                          *)
WrongBounded ==
    \A c \in Clients : wrong[c] = 0 \/ (Requests # {} /\ wrong[c] <= MaxAttempts)
LimitKept == \A c \in Clients : wrong[c] <= MaxAttempts

(* Only the check of a wrong code adds to the wrong codes of a login.       *)
LEMMA WrongSteps ==
    ASSUME TypeOK, [Next]_vars
    PROVE  \/ \A c \in Clients : wrong'[c] \in {wrong[c], 0}
           \/ \E r \in Requests : Verify(r)
<1> DEFINE Falls == \A c \in Clients : wrong'[c] \in {wrong[c], 0}
<1>0. wrong \in [Clients -> 0..MaxWrong] /\ (wrong' = wrong => Falls)
  BY DEF TypeOK
<1>1. ASSUME NEW s \in Sends,
             SendCode(s) \/ SendFails(s) \/ ChangeGet(s) \/ ChangeTtl(s) \/ ChangeSet(s)
      PROVE  Falls
  BY <1>0, <1>1 DEF SendCode, SendFails, ChangeGet, ChangeTtl, ChangeSet
<1>2. ASSUME NEW c \in Clients,
             \/ \E id \in Ids : Login2FA(c, id)
             \/ CompleteLogin(c) \/ Resend(c) \/ Logout(c)
             \/ \E store \in Stores : CookieExpires(store, c)
             \/ \E r \in Requests, right \in BOOLEAN : Confirm(r, c, right)
      PROVE  Falls
  <2>1. \/ wrong' = wrong
        \/ wrong' = [wrong EXCEPT ![c] = 0]
    BY <1>2 DEF Login2FA, CompleteLogin, Resend, Logout, CookieExpires, Confirm
  <2> QED
    BY <1>0, <2>1
<1>3. ASSUME NEW r \in Requests,
             \/ VerifyFails(r) \/ IncrementGet(r) \/ IncrementTtl(r)
             \/ IncrementSet(r) \/ DropEntry(r) \/ AcceptFails(r)
      PROVE  Falls
  BY <1>0, <1>3 DEF VerifyFails, IncrementGet, IncrementTtl, IncrementSet,
                    DropEntry, AcceptFails
<1>4. ASSUME NEW r \in Requests, Accept(r) PROVE Falls
  <2>1. wrong' = [wrong EXCEPT ![reqs[r].client] = 0]
    BY <1>4 DEF Accept
  <2> QED
    BY <1>0, <2>1
<1>5. ASSUME \E channel \in Channels \cup {None} : Set2FA(channel) PROVE Falls
  BY <1>0, <1>5 DEF Set2FA
<1>6. CASE Tick \/ Restart \/ UNCHANGED vars
  BY <1>0, <1>6 DEF Tick, Restart, vars
<1> QED
  BY <1>1, <1>2, <1>3, <1>4, <1>5, <1>6 DEF Next

LEMMA WrongStays ==
    ASSUME CountInv, WrongBounded, [Next]_vars
    PROVE  WrongBounded'
<1>1. TypeOK /\ SerialInv /\ MaxAttempts \in Nat \ {0}
  BY LoginAssumption DEF CountInv, ProtocolInv, SerialInv
<1>2. CASE \A c \in Clients : wrong'[c] \in {wrong[c], 0}
  BY <1>2 DEF WrongBounded
<1>3. ASSUME NEW r \in Requests, Verify(r) PROVE WrongBounded'
  <2> DEFINE q == reqs[r]
             entry == cache["login"]
  <2>1. /\ q.phase = "verify" /\ q.client \in Clients /\ q \in Confirmation
    BY <1>1, <1>3, PhaseOfIdle DEF Verify, TypeOK, Confirmation
  <2>2. \A x \in Requests : x # r => reqs[x] = Idle
    BY <1>1, <2>1, PhaseOfIdle DEF SerialInv, OneAtATime
  <2>3. ~Uncounted /\ ~Exceeded
    BY <2>1, <2>2, PhaseOfIdle DEF Uncounted, Exceeded
  <2>4. Of(cookies["login"][q.client], entry)
    BY <2>1 DEF CountInv, ProtocolInv, Checked
  <2>5. entry \in Entry /\ entry.attempts \in Nat
    BY <1>1, <2>4, LoginStore DEF Of, TypeOK, Entry
  <2>6. entry.attempts < MaxAttempts
    BY <2>3, <2>4 DEF CountInv, ProtocolInv, AttemptsLeft, Of
  <2>7. wrong[q.client] = entry.attempts
    BY <2>1, <2>3, <2>4, <2>5 DEF CountInv, Counted
  <2>8. \/ wrong' = wrong
        \/ wrong' = [wrong EXCEPT ![q.client] = entry.attempts + 1]
    BY <1>3, <2>7 DEF Verify
  <2> QED
    BY <1>1, <2>1, <2>5, <2>6, <2>8 DEF WrongBounded, TypeOK
<1> QED
  BY <1>1, <1>2, <1>3, WrongSteps

LEMMA WrongAlways == Exact /\ Spec => [](CountInv /\ WrongBounded)
<1> SUFFICES ASSUME Exact PROVE Spec => [](CountInv /\ WrongBounded)
  OBVIOUS
<1>1. Init => WrongBounded
  BY DEF Init, WrongBounded
<1>2. CountInv /\ [Next]_vars => CountInv'
  BY CountNext
<1>3. CountInv /\ WrongBounded /\ [Next]_vars => WrongBounded'
  BY WrongStays
<1> QED
  BY <1>1, <1>2, <1>3, CountInit, PTL DEF Spec

(* No more than maxAttempts wrong codes are ever checked for one login, as  *)
(* long as no handler overlaps another: the promise that increments lost by *)
(* handlers that do overlap break.                                          *)
THEOREM LimitIsKept == Exact /\ Spec => []LimitKept
<1>1. CountInv /\ WrongBounded => LimitKept
  <2> SUFFICES ASSUME CountInv, WrongBounded, NEW c \in Clients
               PROVE  wrong[c] <= MaxAttempts
    BY DEF LimitKept
  <2>1. MaxAttempts \in Nat \ {0}
    BY LoginAssumption
  <2> QED
    BY <2>1 DEF WrongBounded
<1> QED
  BY <1>1, WrongAlways, PTL

(* The same with the allowance that is made for confirmations under way     *)
(* when the limit is reached, and that increments lost exceed.              *)
THEOREM WrongCodesAreBounded ==
    IsFiniteSet(Requests) /\ Exact /\ Spec => []AttemptsBounded
<1> SUFFICES ASSUME IsFiniteSet(Requests), Exact PROVE Spec => []AttemptsBounded
  OBVIOUS
<1>1. CountInv /\ WrongBounded => AttemptsBounded
  <2> SUFFICES ASSUME CountInv, WrongBounded, NEW c \in Clients
               PROVE  wrong[c] < MaxAttempts + Cardinality(Requests)
    BY DEF AttemptsBounded
  <2>1. Cardinality(Requests) \in Nat
    BY FS_CardinalityType
  <2>2. Requests # {} => Cardinality(Requests) > 0
    BY <2>1, FS_EmptySet
  <2>3. MaxAttempts \in Nat \ {0} /\ wrong[c] \in Nat
    BY LoginAssumption DEF CountInv, ProtocolInv, SerialInv, TypeOK
  <2> QED
    BY <2>1, <2>2, <2>3 DEF WrongBounded
<1> QED
  BY <1>1, WrongAlways, PTL
=============================================================================
