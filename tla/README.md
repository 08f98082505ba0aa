# Verification of auth-template

TLA+ models of the authentication service in `src/`, TLC runs that check them on
small instances, and TLAPS proofs of what holds for every instance. Paths below are
relative to the application's code, `src/src/`, and `commands/` stands for
`auth/application/commands/`.

## The system

A NestJS service with PostgreSQL (through TypeORM), Redis and a mail and telephony
provider. One Node process runs one handler at a time and switches at every `await`.

| Component | State | Operations | Modelled in |
|---|---|---|---|
| User aggregate and repository (`auth/domain`, `auth/infrastructure/database`) | five tables: users, e-mail logins, OAuth logins, verifications, 2FA row | load a whole aggregate, save a whole aggregate; delete the 2FA row | `UserAccounts` |
| Registration, login, refresh, OAuth connect and unlink (`commands/identification`, `authentication`, `authorization`) | the aggregate they hold | one handler each | `UserAccounts` (accounts), `Sessions` (tokens) |
| Verification and 2FA settings (`commands/verification`) | the aggregate they hold, the setup cookie | set up, confirm and remove a verification; set and disable 2FA | `UserAccounts` (accounts), `SetupVerification` (entry, cookie, code) |
| Verification store (`services/verification/stores`, `RedisRepository`) | one Redis entry per user and kind (login, setup), with a ttl | create, read, rewrite (resend, attempts), delete | `VerificationStore` |
| Sending of codes (`sagas/verification.saga.ts`, `events`, verificators) | a throttle window per user, commands in flight | request, send, cache | `TwoFactorLogin` |
| Two-factor login (`login.command.ts`, `confirm-two-factor-authentication.command.ts`, `resend-verification-code.command.ts`) | login cookie, entry, tokens | log in, resend, confirm | `TwoFactorLogin`; what it promises in `LoginProtocol` |
| Tokens and sessions (`authentication.service.ts`, `auth.guard.ts`, the cookie interceptor) | signed cookies with JWTs, in the browser | issue, verify, refresh, clear | `Sessions` |
| OAuth connect flow (`oauth.controller.ts`, `connect-oauth.command.ts`, `oauth2.service.ts`, the exception filter) | state cookie, callback in flight | redirect, callback, link, log in, create | `Sessions` |
| Controllers, guards, pipes, filters | none | routing, validation, cookies | what they decide, set and clear is in the actions |
| Mail, telephony, hashing, encryption, TOTP | none | pure or external | they succeed or fail |
| Queries, configuration, server, seeds | none | read only, wiring | not modelled |

How they interact: a handler loads the aggregate, awaits other services, and saves
its copy. A login with a second factor publishes events on the process's event bus;
the saga throttles the requests for a code per user and turns them into commands; the
command sends the code and then publishes the event whose handler writes the Redis
entry. The confirmation compares the login cookie with the entry, the code with the
entry (or the shared secret), and counts wrong codes in the entry. A setup of a
verification goes the same way with a store and a cookie of its own, and shares the
throttle, the sending side and the routes for resending and confirming, which tell the two
apart by whether the client has tokens. Tokens are signed and not stored; a browser learns
of anything only by the cookies of an answer, and a callback from an OAuth provider logs
in, creates a user or links by whether the browser has an access token when it arrives.

What is hard, and what makes a component correct:

* *Saves of stale copies.* Everything a handler did not mean to change is written too.
  Accounts must stay distinct, keep a login method, keep the 2FA setting consistent
  with the verifications and the secret with the authenticator app, and change only
  by the requests that are for it.
* *Redis entries rewritten in several steps.* Attempts must be counted, entries must
  carry the channel and the code of their login.
* *A throttle that drops silently, mails that are refused, entries that expire.* A
  user who keeps trying must get in.
* *One throttle and one pair of routes for logins and setups.* Codes and entries of one
  must not become those of the other, and neither may starve the other.
* *Tokens that outlive what they say.* They must stay in pairs of one user, must not speak
  of a removed login for longer than an access token lives, and must not turn a signed-in
  browser into another user by an OAuth callback.
* *Restarts.* The throttle and the commands in flight are in memory, the entry is not.

The full list, with lines, is under `hazards` in `PROJECT.json`. Not every hazard has a
property that holds: see "Hazards that stay" below.

## Modules

| Module | What it is | Proofs in |
|---|---|---|
| `UserAccounts` | accounts, requests in flight, TypeORM's save; every handler that changes an account | `UserAccountsProofs`, `AccountTurnsProofs` |
| `LoginMethods` | what the accounts promise of the ways to log in | `AccountTurnsProofs`, `SessionsProofs` (the refinements) |
| `SecondFactors` | what they promise of verified channels and the second factor | `AccountTurnsProofs`, `SetupProofs` (the refinements) |
| `VerificationStore` | a Redis entry of either store and the operators on it | |
| `TwoFactorLogin` | the two-factor login of one account (extends `VerificationStore`) | `TwoFactorLoginProofs`, `AttemptsProofs` |
| `LoginProtocol` | what a two-factor login promises: at most one live login, one sign-in by it | `LoginProtocolProofs` (the refinement) |
| `SetupVerification` | setups of verifications next to the logins of the account (extends `TwoFactorLogin`) | `SetupProofs` |
| `Sessions` | tokens of a person's browsers, the OAuth flow | `SessionsProofs` |
| `MC...` | symmetry, for the runs of the module they are named after | |

Definitions that begin with a comment "Fault:" are no part of a specification: each is
a variant of the definition after it, the way a plausible mistake in the code would
change it, and the property named with it in `PROJECT.json` fails with it.

### UserAccounts

`db[u]` is a user's rows, eagerly joined; `reqs[r]` is a request in flight with the copy
it read and changed (`agg`); `signedIn` are users some client holds tokens of. Each
handler is an action that reads and changes its copy (`Register` ... `RemoveVerification`)
followed by the actions of the save. Linking has a second read in between (`CheckLink`),
disabling 2FA deletes a row instead of saving (`DeleteTfaRow`), and a user created by
OAuth is saved twice (`AfterSave`). `Abort` ends a request anywhere.

TypeORM is external and modelled from how it is used: `save` loads the rows, compares
them with the aggregate and writes the difference in a transaction, inserts and updates
before the deletion of orphans. `AtomicSave = FALSE` has the two steps apart
(`LoadForSave`, `WriteDifference`), `AtomicSave = TRUE` makes them one (`Save`), as a
serializable transaction would. What refuses a transaction (unique columns, keys, the
foreign key of the 2FA row) is `Conflict`; the `ON DELETE CASCADE` is in `WrittenTfa`.
A copy without 2FA does not delete a 2FA row: TypeORM nulls its key and the save is
refused. `getUserByOAuthId` is taken to return all of a user's logins, for which it asks
with `loadRelationIds`; the variant where it does not is the fault
`LoginOAuthPartialLoad`. The ids it returns carry no provider id, so a stale copy of an
OAuth login that lost a login meanwhile fails to insert it where the model re-inserts it;
no run's verdict depends on that.

A verification's `key` is the secret it was confirmed with: the authenticator app's, and
no column. No action reads it.

`Spec` lets requests of one user overlap as they like, for the code has no lock.
`TurnsSpec` is `Spec` with requests that come in only for users without one in flight
(`NextInTurns`; `TurnsNext` proves that `OneRequestPerUser` stays true), which is what a
client that waits for each answer does, and what a lock on the user would see to; requests of
different users interleave in both. It says which promises are lost by overlap alone:
everything the runs ask of the aggregate holds under it, TypeORM's two-step save included.

### LoginMethods and SecondFactors

What the modules above the rows take for granted of them. `LoginMethods`: `logins` of each
user; a login is free or one user's; a user is created with one, links one of a provider
without, and unlinks one that is not the last. `SecondFactors`: the channels each account has
`verified` and the `factor` among them; a channel is added alone or as the factor, removed
with the factor it is, and the factor is set to a verified channel or switched off.

Both are implemented twice, so that the abstractions of different modules agree.
`UserAccounts` implements them under `TurnsSpec` by `UserLogins` (pairs of a provider and its
account, an e-mail address as one without provider), `Verified` and `Factors` (from the rows);
`Sessions`, whose handlers write in one step and whose callbacks and tokens are late,
implements `LoginMethods` with its `logins`; `SetupVerification`, whose confirmations save the
second factor they read, implements `SecondFactors` with `verified` and `tfa`. With requests
of one user overlapping, `UserAccounts` implements neither: that is `accounts_stale_save`.

### VerificationStore and TwoFactorLogin

One account, several browsers. `cache[store]` is the account's entry in Redis with its
ttl, for the stores `"login"` and `"setup"`; `throttle` what is left of the saga's window,
`sends` the commands in flight, `reqs` the confirmations in flight, `cookies[store]` each
browser's cookie, `wrong` counts wrong codes of the login of a browser's cookie (no action
but its bound reads it). A code is abstracted to the login or setup it was sent for;
whether a code entered is right is chosen.

Every await of the confirmation and of a resend is a step: `Confirm` (entry read),
`Verify` (user read, code checked), `IncrementGet`, `IncrementTtl`, `IncrementSet`,
`DropEntry`, `Accept`; `SendCode`, `ChangeGet`, `ChangeTtl`, `ChangeSet`. Redis commands
of the process share a connection, so one that is issued last happens with the step that
issues it. `Accept` writes the 2FA setting its copy had, as `UserAccounts` has it in
detail; `AcceptFails` is a save that is refused, `VerifyFails` a user who cannot be read or
has no shared secret any more. `StoreOf` is the controller's choice: a client with tokens
is setting up, one without is logging in. A rejected command or event handler is
awaited by nobody and Node 18 (the Dockerfile's) ends the process: `ProcessEnds`.

Redis' TTL rounds, so it is 0 in the last half second; `set` takes 0 for "no expiry"
(`Stored`), TTL then answers -1 and the next `set` is refused (`SetAccepts`).

`Faults` says what may happen beyond the normal: `overlap`, `refuse`, `slowSend`,
`crash`, `lastHalf` (see the module). None of them is excluded by the code; a run without
one says what holds as long as it does not occur.

### SetupVerification

Adds `verified`, the channels of the account's verifications, and the actions `Setup`
(cookie and first code), `ConfirmRegistration` (up to the reading of user and entry),
`Register` (entry deleted, verification saved, perhaps as the second factor),
`RegisterFails` (entry deleted, save refused) and `RemoveVerification`. `SetupNext` takes
every step of `TwoFactorLogin` besides, so long as the second factor stays a verified
channel, which is what the handlers and the foreign key see to.

### LoginProtocol

The abstract specification: `pending` logins of browsers, `awaited` codes, one `live`
login with its `tries`, `signedIn` browsers. `Confirm` is possible only to a browser
without tokens whose login is the live one, and ends it; `GoLive` takes a login from
`awaited`, so no login lives twice. The refinement mapping is at the end of
`TwoFactorLogin`: `Pending` from the cookies, `Awaited` from the first sends, `Live` and
`Tries` from the entry, which is no longer live once the limit is reached although it is
deleted a step later.

### Sessions

One person with one e-mail address and one account per provider. `logins[u]` are the ways
to log in to a user, `access` and `refresh` the cookies of each browser with what is left
of them, `state` the state cookies, `reqs` the requests in flight: an OAuth callback that
waits for the provider (`"connect"`) or an answer on its way (`"answer"`), which carries
cookies and may be overtaken, late or lost (`Receive`, `Lose`). `removed` counts time since
a login was removed and is read by a property only. `overlapping` are the browsers that
make several requests at a time, chosen once, so that properties can speak of the others.

A handler's work on the database is one step, the one that makes its answer; how its save
may race is in `UserAccounts`. A callback decides by the access token on arrival
(`ConnectOAuthCallback`) and acts after the provider answered (`LinkOAuth`, `LoginOAuth`,
`CreateOAuthUser`, `ConnectRefused`). The command asks only whether the browser has a cookie
named like the state in the URL (`state in cookies`), not whether it is this provider's; so
the model takes the state of any provider, and the answer clears the cookie of that one. The
states chosen are those a login URL was given, for a provider returns what it was sent; the
other signed cookies have names no service uses as its state. `EndSession` is a logout and every refresh that fails:
the controller clears both cookies.

## Runs

| Run | Question | Verdict |
|---|---|---|
| `accounts_links` | two users, two concurrent requests, OAuth and e-mail, one-step saves: are accounts distinct, does everybody keep a login? | holds |
| `accounts_verifs` | one user, two concurrent requests on verifications, TOTP and 2FA, one-step saves | holds |
| `accounts_sequential` | two users, all features, two requests but not of one user (`TurnsSpec`), two-step saves: does each handler change only what it is for, and are `LoginMethods` and `SecondFactors` implemented? | holds |
| `accounts_unlink_race` | last login method under two-step saves | violated |
| `accounts_stale_save` | 2FA changes only by requests for it, with two requests | violated |
| `login_serial` | two browsers, no overlap: attempts counted and limited, codes in the entry of their login, the whole implements `LoginProtocol` | holds |
| `login_faults` | all faults: entry and cookie agree, an entry has its code | holds |
| `login_patient` | logins and setups of one browser: neither's entries and codes get into the other's, a setup that can be confirmed is needed, `LoginProtocol` and `SecondFactors` are implemented, a user who keeps trying signs in and gets mail verified | holds |
| `login_channels` | SMS and phone call as second factor | violated |
| `login_attempts` | limit of wrong codes with overlapping confirmations and resends, and entries in their last half second | violated |
| `login_promise` | a login is followed by its entry | violated |
| `sessions` | one browser, requests overlapping or not, a provider and a password: pairs of tokens, what the guard relies on, removed logins, who one is, `LoginMethods`, and signing in by a provider | holds |

The five violations are findings; `PROJECT.json` quotes what the repository says.

* `accounts_unlink_race`: an account with Google only. A refresh reads it; the user links
  Github; an unlink of Google reads the account with both; TypeORM loads both rows for the
  save of the refresh's copy and deletes Github as an orphan; the unlink deletes Google.
* `accounts_stale_save`: a refresh reads, 2FA is disabled, the refresh saves 2FA back.
* `login_channels`: the entry's channel is Email (call) or missing (SMS), the cookie's is
  not.
* `login_attempts`: two confirmations read the same count, and one of the two wrong codes
  is not counted. That is the shortest of several traces. With one confirmation at a time
  (`Requests = {r1}`) TLC refutes the property still: with `overlap` and mail only, by a
  resend that read the entry before the wrong code and writes the old count back; with
  `lastHalf` alone, by an entry that lost its expiry, whose count cannot be written any more;
  with `crash` alone, by a restart between the check of a code and the writing of the count.
* `login_promise`: log in, get a code, log in again within the window.

**Hazards that stay.** A lost update of a whole aggregate has no property that holds with it;
`accounts_stale_save` and `accounts_unlink_race` show it. For the following no property
is listed, because those that would notice them are checked and proved where they cannot
occur, or because nothing is promised:

* A slow send of an earlier login puts its code into the entry of a later one (with `slowSend`
  TLC refutes `CodeOfItsLogin`), and `LoginProtocol` lets it go live.
* A restart loses what was not yet written (above).
* Two confirmations of one code that overlap both sign in, and `deleteCache` removes the entry
  another login got meanwhile. `ImplementsLoginProtocol` is checked and proved without
  `overlap`. With it TLC refutes it; the shortest trace, with one browser, is a login that
  replaces the cookie while the confirmation of the one before is under way.
* A refresh that fails clears the cookies a login has set meanwhile, and one answered after a
  logout sets them again. The tokens stay a pair of one user (`TokensTogether`); which of two
  overlapping answers is to win, nothing says.

**Bounds.** Two users are enough for the properties that relate users, which speak of
pairs; two requests for a race of two, and the theorems lift both. In `accounts_sequential` the two
requests are of two users, whose links, registrations and OAuth logins race for the same
accounts and addresses. Two providers are one
to unlink and one to keep; three verification ids are one per channel and one more. In
the login runs `Lifetime` and `Window` are in ticks and only their order against the steps
matters; `MaxAttempts` is 1 or 2 instead of 5; `MaxWrong` bounds the wrong codes of one
login and the attempts of an entry, and is beyond `MaxAttempts` where a property is about
going over it. `login_patient` has one browser and a limit of one wrong code, for it is
checked with liveness and without symmetry; two browsers are in `login_serial`, and the
theorems of `SetupProofs` lift its safety properties to any number, but for
`SetupStillNeeded`, which is about one browser: another one, whose setup of the same
channel is still being sent, leaves an entry nobody needs. There are more uuids than can be in use, or a login waits for one. `login_faults`
has one browser, one confirmation and one send in flight: the races it is after are of a
confirmation with a send, a login, a change of the setting and a restart. In `sessions`
one e-mail address and one provider make no more than two users at a time (each user is
created by a login nobody has, and users are not deleted), and two requests in flight are
a race of two. With one provider a callback has that one's state cookie; more of
them are beyond the run (over eight million states with two) and left to the theorems, which
are for any number. An access token lives two ticks and a refresh token three, so that either
may be left when the other is not; the bound in `Tick` is that an answer arrives or is lost
while its access token is valid. Every state
space but those of the violations is explored to the end.

**Fairness.** `ServerFairness`: the event loop runs the continuation of every await (weak
fairness), time passes, and neither mail server nor database refuses for ever (strong
fairness of sending and of the final save). `PatientSpec` adds the user: logs in only when
the throttle is open, as the service's messages ask ("Wait a minute before asking for a new
code"), and does not give up. Without patience the property fails: each login replaces the
cookie, and within the window no code comes for it. `login_promise` has server fairness and
no refusals, so its counterexample is the throttle and not a stopped system.

`PatientSetupSpec` is that user and owner: stays signed in until mail is verified, begins
its setup when the throttle is open, begins no other meanwhile, and enters the right code
while it is asked; the server's part is that registering mail is not refused for ever.
`ReturningSpec`: every request ends (weak fairness of an answer being received or lost), the
person goes to a provider and comes back again and again, and provider, database and
network do not fail each time.

## Proofs

For any sets of users, browsers, requests, sends, ids, providers and channels, any
lifetimes, window and limits, with the assumptions the modules name (`None` is no data, the
lifetimes are positive and a setup's is no shorter than a login's, `AtomicSave` is a
Boolean) and those in the last column.

| Module | Theorem | Property | Assumes |
|---|---|---|---|
| `UserAccountsProofs` | `TypeCorrect` | `TypeOK` | |
| | `AccountsStayDistinct` | `AccountsDistinct` | |
| | `ChannelVerifiedOnce` | `OneVerificationPerChannel` | |
| | `TfaAlwaysHasVerification` | `TfaHasVerification` | |
| | `LoginMethodRemains` | `HasLoginMethod` | `AtomicSave` |
| | `TotpKeyRemains` | `TotpKeyStored` | `AtomicSave` |
| `AccountTurnsProofs` | `VerificationsOwned` | `VerificationsChangeByOwner` | `TurnsSpec` |
| | `TfaOwned` | `TfaChangesByOwner` | `TurnsSpec` |
| | `LinksOwned` | `LinksChangeByOwner` | `TurnsSpec` |
| | `LoginMethodRemainsInTurns` | `HasLoginMethod` | `TurnsSpec` |
| | `TotpKeyRemainsInTurns` | `TotpKeyStored` | `TurnsSpec` |
| | `AccountsImplementLoginMethods` | `ImplementsLoginMethods` | `TurnsSpec` |
| | `AccountsImplementSecondFactors` | `ImplementsSecondFactors` | `TurnsSpec` |
| `TwoFactorLoginProofs` | `LoginTypes` | `TypeOK` | |
| | `EntriesAlwaysHaveCodes` | `EntryHasCode` | |
| | `CookiesAlwaysMatch` | `CookieMatchesEntry` | `RightChannels` |
| | `CodesStayWithTheirLogin` | `CodeOfItsLogin` | `InTime` |
| `AttemptsProofs` | `WrongCodesAreCounted` | `AttemptsCounted` | `Exact` |
| | `LimitIsKept` | `LimitKept`: no more than the limit | `Exact` |
| | `WrongCodesAreBounded` | `AttemptsBounded` | `Exact`, finitely many `Requests` |
| `LoginProtocolProofs` | `LoginImplementsProtocol` | `ImplementsLoginProtocol` | `Running` |
| `SetupProofs` | `SetupTypesKept` | `SetupTypeOK` | |
| | `SetupCookiesMatch` | `CookieMatchesEntry` | `RightChannels` |
| | `SetupCodesStay` | `CodeOfItsLogin` | `InTime` |
| | `SetupsKeepTheProtocol` | `ImplementsLoginProtocol` | `Running` |
| | `SetupsAreNeeded` | `SetupStillNeeded` | `OneBrowser`, `RightChannels`, `InTime` |
| | `SetupsImplementSecondFactors` | `ImplementsSecondFactors` | `Serial` |
| `SessionsProofs` | `SessionTypes` | `TypeOK` | |
| | `PairsStayTogether` | `TokensTogether` | |
| | `GuardAlwaysAgrees` | `GuardAgrees` | |
| | `RemovedLoginsFade` | `RemovedLoginFades` | |
| | `SessionsKeepTheirUser` | `SessionKeepsUser` | |
| | `SessionsImplementLoginMethods` | `ImplementsLoginMethods` | |

The assumptions about channels and faults: `RightChannels`, mail and the authenticator app
only (`login_channels` refutes the others); `Serial`, no `overlap`; `InTime`, `Serial` and
no `slowSend`; `Running`, `Serial` and no `crash`; `Exact`, `Running` and no `lastHalf`;
`OneBrowser`, one browser. `TurnsSpec` stands in the place of `Spec`, with either kind of
save. What is not assumed away may happen at any time.

**UserAccounts.** The first four need only types and what the constraints of the tables
refuse: each is inductive with `TypeOK`, and the lemma `DatabaseSteps` reduces a step to the
three ways `db` can change. The last two are not inductive, for a save writes a copy read
earlier. The strengthening `CopiesSound` says that every copy a request is about to save is
itself sound (`Sound`: it can log in, its secret is its key); with one-step saves the
written row is, in the parts that matter, the copy (`AtomicSaveWritesCopy`), and handlers
make sound copies of sound rows (`BeginSound`). With two-step saves both fail. The run
`accounts_unlink_race` refutes the one. For the other, `AtomicSave = FALSE` in `AccountsVerifs.cfg` makes TLC
find the same race: a login reads a user without secret; a TOTP setup stores one; the login's
save and the confirmation of the app both load the row; the login writes no secret, the
confirmation makes the app the second factor, and no code of it is accepted again.

**Requests in turns.** Under `TurnsSpec` the copies are more than sound. `TurnInv` says of
each request in flight (`Undisturbed`) that its copy is its user's row but for the change its
kind is meant to make (`Meant`), and that what TypeORM loaded is the row as it is: nobody else
saves the user meanwhile. `SavesCopy` then makes the written row the copy with its cascade,
`TurnSteps` reduces a step to one user's row and one request's kind, and `WhatChanges` says
what each kind changes. The second save of a user created by OAuth finds its own row and
changes nothing (`SecondSave`). That no login gets two owners, although whose it is was asked
before the save, is again the unique columns (`PutsFreeLogin`), for there two users race. The
two refinements translate the change of a row into one of the sets `LoginsOf` and `ChannelsOf`
(`WhatLoginsChange`, `WhatFactorsChange`).

**TwoFactorLogin.** None of the properties is inductive, for an entry is rewritten from a
copy read some awaits earlier. `EntriesCoded`: copies about to be written have codes, too.
`ChannelInv`: all that is `Known` of a login or setup, in cookie, entry, send or copy, names
one channel, and a fresh id is not known at all. `SerialInv`: without overlap one handler at
a time is between two Redis commands, and the copy it holds is the cached entry but for
what it changes. `CodeInv`: one code is on its way at a time and the throttle stays closed
while it is, so a resend finds the entry it was asked for, or an authenticator's.
`CountInv`: no two browsers have one login's cookie, no code was tried for a login whose code
is still on its way, the entry counts what was tried but for one wrong code in the making,
and every entry has time left when it is written back. `WrongBounded` follows from it, for a
code is checked only when the entry has attempts left and no other is being counted. Each of
the three faults that `Exact` excludes loses it by itself: `login_attempts` and what is said there.

**The refinement.** `ProtocolInv`: what a confirmation has checked (cookie, entry, no
tokens, the 2FA setting) still holds at its later steps, an entry that is not about to be
deleted has attempts left, and no two codes on their way are of one login. Every step then
is one of `LoginProtocol` or changes nothing of it. With overlap both fail: one code signs
in twice, or the entry another browser's login got meanwhile is deleted.

**SetupVerification.** The steps of `TwoFactorLogin` keep these invariants by the lemmas
above; a setup begins as a login does in a store of its own, and the other steps send
nothing, write no entry and leave the login store alone (`EndsOnly`). `NeededInv`: a code on
its way is of a channel without verification, and of another channel than the entry the
browser's cookie can confirm; who is registering has the cookie of the entry. `FactorInv`: the
second factor a confirmation has read is still the account's when it is saved, which is what
makes a whole-user save a step of `SecondFactors`; neither restarts nor late mails touch that.

**Sessions.** `TokenInv` extends the properties to the tokens on their way: they speak of
their user's logins as they were when they were signed, and are pairs. `KeepInv`: in a
browser that makes one request at a time, a callback or answer under way is for the user it
is signed in as, or it is not signed in. `ConnectingCreated`: a callback that waits for its
provider is for a user that exists (`TokenInv` says so of the token it came with, and no step
of `LoginMethods` leaves a created user without logins), so a link is one to a user.

Only model-checked: liveness (`PatientClientSignsIn`, `PatientOwnerVerifies`,
`ReturningPersonSignsIn`), for fairness and `ENABLED` are out of the prover's reach. Of the five
refutations, three are of properties that have a theorem under an assumption the refuting run
drops; no assumption short of naming the bug makes `LoginGetsItsEntry` true, and
`CookieMatchesEntry` is proved for the other channels.

## Not modelled

* The three OAuth services and strategies differ in URLs and field names; the two requests
  to a provider are one wait.
* Recovery codes (nothing fills them), the claim `2fa` and `refresh_count` (nothing reads
  them), and the `Authorization` header of machines, which no session uses.
* Names, avatars, time stamps, phone numbers, mail texts, validation of bodies; password
  hashing, encryption, token signatures and TOTP, which succeed or fail; queries,
  configuration, server start-up and seeds, which change no state these models have.
* A second account or person: they share only the process, and what one of them can do to
  another is in `UserAccounts`, where several users are.

## Plan

1. The races of saves (`UserAccounts`) and the steps of a confirmation (`SetupVerification`)
   in one module, to follow a stale save into the second factor of a login.
2. Several servers on one database and one Redis, if the service is ever deployed so: the
   throttle is per process.

## Running

`tlc -config AccountsLinks.cfg MCUserAccounts.tla` and so on: `Accounts*.cfg` belong to
`MCUserAccounts`, `LoginPatient.cfg` to `MCSetupVerification`, the other `Login*.cfg` to
`MCTwoFactorLogin`, `Sessions.cfg` to `MCSessions`. `tlapm UserAccountsProofs.tla` and the
other six `...Proofs` modules check in a few minutes each.
