------------------------- MODULE VerificationStore -------------------------
(***************************************************************************)
(* The Redis entry a pending verification is kept in, as operators on the  *)
(* value of one key: what BaseVerificationStore and its two subclasses, for*)
(* logins and for setups, read and write through RedisRepository.          *)
(*                                                                         *)
(* Time is counted in ticks.  ttl is what the TTL command answers: the     *)
(* remaining time, rounded, so that it is 0 in the last half of a second   *)
(* of an entry that is still there; -1 for an entry without expiry, -2     *)
(* when there is none.                                                     *)
(***************************************************************************)
EXTENDS Integers

CONSTANTS
    Ids,           \* verification and login ids (uuids)
    Lifetime,      \* expirationInMinutes of a login, in ticks
    SetupLifetime, \* expirationInMinutes of a setup, in ticks
    None           \* undefined, null, or a key without a value

ASSUME StoreAssumption ==
    /\ Lifetime \in Nat \ {0}
    /\ SetupLifetime \in Nat
    /\ SetupLifetime >= Lifetime
    /\ None \notin Ids

(* OTPChannel, split by VerificationCode.ts *)
OtpVerification == {"Email", "SMS", "Call"}
TotpVerification == "Authenticator"
OTPChannel == OtpVerification \cup {TotpVerification}

Immortal == -1
NoKey == -2

(* The two stores: LoginVerificationStore and SetupVerificationStore, with  *)
(* keys and cookies of their own.                                           *)
Stores == {"login", "setup"}
LifetimeOf(store) == IF store = "login" THEN Lifetime ELSE SetupLifetime

(* A one-time code is abstracted to the id of the login it was sent for,    *)
(* or of the setup.                                                         *)
Entry ==
    [id       : Ids,
     channel  : OTPChannel \cup {None},
     otp      : Ids \cup {None},
     attempts : Nat,
     ttl      : {Immortal} \cup 0..SetupLifetime]

(* constructCache, createCache; an entry of a setup counts no attempts.     *)
Created(store, id, channel, otp) ==
    [id |-> id, channel |-> channel, otp |-> otp, attempts |-> 0,
     ttl |-> LifetimeOf(store)]

(* RedisRepository.ttl *)
TtlOf(entry) == IF entry = None THEN NoKey ELSE entry.ttl

(* RedisRepository.set with what ttl answered: a ttl of 0 is falsy, and the *)
(* entry is written without an expiry; Redis refuses a negative one.        *)
SetAccepts(ttl) == ttl >= 0
Stored(entry, ttl) ==
    [entry EXCEPT !.ttl = IF ttl = 0 THEN Immortal ELSE ttl]

(* Redis drops an entry whose time is over.                                 *)
Aged(entry) ==
    IF entry = None \/ entry.ttl = Immortal THEN entry
    ELSE IF entry.ttl = 0 THEN None
    ELSE [entry EXCEPT !.ttl = @ - 1]
=============================================================================
