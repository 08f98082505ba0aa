------------------------- MODULE SetupVerification -------------------------
(***************************************************************************)
(* Adding a verification channel to the account of TwoFactorLogin, beside  *)
(* the logins to it: POST /2fa/setup hands out a setup cookie and requests *)
(* a code, POST /2fa/confirm of a client with tokens checks it and adds the*)
(* verification.  Both stores share the throttle and the sending side, and *)
(* the same two routes (resend, confirm) serve both, told apart by whether *)
(* the client has tokens.                                                  *)
(*                                                                         *)
(* A save writes the copy a handler read; with overlapping handlers that   *)
(* brings back verifications, which is the subject of UserAccounts.        *)
(***************************************************************************)
EXTENDS TwoFactorLogin

VARIABLES
    verified    \* the channels of the account's verifications

setupVars == <<tfa, cache, throttle, sends, cookies, signedIn, reqs, wrong, verified>>

SetupInit ==
    /\ Init
    /\ verified \in {v \in SUBSET Channels : tfa \in v}

-----------------------------------------------------------------------------
(* Fault: nobody asks whether the channel is verified already.              *)
SetupAgain(c, channel, id) ==
    /\ MayStart
    /\ c \in signedIn
    /\ id \notin IdsInUse
    /\ cookies' = [cookies EXCEPT !["setup"][c] = [id |-> id, channel |-> channel]]
    /\ Initiate("setup", id, channel)
    /\ UNCHANGED <<tfa, signedIn, reqs, wrong, verified>>

(* SetupVerificationCommandHandler and the cookie its controller sets.  The *)
(* shared secret it saves for TOTP is in UserAccounts (SetupTotp).          *)
Setup(c, channel, id) ==
    /\ MayStart
    /\ c \in signedIn
    /\ channel \notin verified
    /\ id \notin IdsInUse
    /\ cookies' = [cookies EXCEPT !["setup"][c] = [id |-> id, channel |-> channel]]
    /\ Initiate("setup", id, channel)
    /\ UNCHANGED <<tfa, signedIn, reqs, wrong, verified>>

(* ConfirmVerificationRegisterationCommandHandler with the right code: the  *)
(* user is read, then the entry, which must be that of the cookie.  A wrong *)
(* code is refused and counted nowhere.                                     *)
ConfirmRegistration(r, c) ==
    LET cookie == cookies["setup"][c]
        entry == cache["setup"]
    IN  /\ MayStart
        /\ reqs[r] = Idle
        /\ StoreOf(c) = "setup"
        /\ entry # None
        /\ cookie # None
        /\ cookie.id = entry.id
        /\ cookie.channel = entry.channel
        /\ reqs' = [reqs EXCEPT ![r] =
                      [phase |-> "register", client |-> c, channel |-> entry.channel,
                       tfa |-> tfa]]
        /\ UNCHANGED <<tfa, cache, throttle, sends, cookies, signedIn, wrong, verified>>

(* Fault: the entry is left to expire.                                      *)
RegisterKeepsEntry(r, setAsDefault2fa) ==
    LET q == reqs[r]
        newTfa == IF setAsDefault2fa THEN q.channel ELSE q.tfa
    IN  /\ q.phase = "register"
        /\ q.channel \notin verified
        /\ newTfa = None => tfa = None
        /\ newTfa \in verified \cup {q.channel, None}
        /\ verified' = verified \cup {q.channel}
        /\ tfa' = newTfa
        /\ cookies' = [cookies EXCEPT !["setup"][q.client] = None]
        /\ reqs' = [reqs EXCEPT ![r] = Idle]
        /\ UNCHANGED <<cache, throttle, sends, signedIn, wrong>>

(* deleteCache, then the verification is added, made the second factor if   *)
(* the cookie says so, and the user saved; the answer clears the cookie.    *)
Register(r, setAsDefault2fa) ==
    LET q == reqs[r]
        newTfa == IF setAsDefault2fa THEN q.channel ELSE q.tfa
    IN  /\ q.phase = "register"
        /\ q.channel \notin verified
        /\ newTfa = None => tfa = None
        /\ newTfa \in verified \cup {q.channel, None}
        /\ cache' = [cache EXCEPT !["setup"] = None]
        /\ verified' = verified \cup {q.channel}
        /\ tfa' = newTfa
        /\ cookies' = [cookies EXCEPT !["setup"][q.client] = None]
        /\ reqs' = [reqs EXCEPT ![r] = Idle]
        /\ UNCHANGED <<throttle, sends, signedIn, wrong>>

(* The save is refused: the channel has a verification by now, the one of   *)
(* the second factor is gone, or the database fails.                        *)
RegisterFails(r) ==
    /\ reqs[r].phase = "register"
    /\ cache' = [cache EXCEPT !["setup"] = None]
    /\ reqs' = [reqs EXCEPT ![r] = Idle]
    /\ UNCHANGED <<tfa, throttle, sends, cookies, signedIn, wrong, verified>>

(* Fault: the row of the second factor stays.                               *)
RemoveKeepsTfa(channel) ==
    /\ MayStart
    /\ channel \in verified
    /\ verified' = verified \ {channel}
    /\ UNCHANGED <<tfa, cache, throttle, sends, cookies, signedIn, reqs, wrong>>

(* RemoveVerificationCommandHandler; the row of the second factor cascades. *)
RemoveVerification(channel) ==
    /\ MayStart
    /\ channel \in verified
    /\ verified' = verified \ {channel}
    /\ tfa' = IF tfa = channel THEN None ELSE tfa
    /\ UNCHANGED <<cache, throttle, sends, cookies, signedIn, reqs, wrong>>

(* Whatever else happens to the account, its second factor is a channel it  *)
(* has verified: Set2FACommandHandler looks it up, and the foreign key      *)
(* refuses the save of an Accept whose channel is gone.                     *)
LoginNext ==
    /\ Next
    /\ tfa' \in verified \cup {None}
    /\ UNCHANGED verified

SetupNext ==
    \/ LoginNext
    \/ \E c \in Clients :
        \/ \E channel \in Channels, id \in Ids : Setup(c, channel, id)
        \/ \E r \in Requests : ConfirmRegistration(r, c)
    \/ \E r \in Requests :
        \/ \E setAsDefault2fa \in BOOLEAN : Register(r, setAsDefault2fa)
        \/ RegisterFails(r)
    \/ \E channel \in Channels : RemoveVerification(channel)

SetupSpec == SetupInit /\ [][SetupNext]_setupVars
-----------------------------------------------------------------------------
(* Properties                                                               *)

SetupTypeOK == TypeOK /\ verified \subseteq Channels

(* While one browser sets up the account's verifications, its requests do   *)
(* not overlap and codes are sent within the throttle's window, a setup that*)
(* can be confirmed is of a channel that still needs it.  The confirmation  *)
(* asks nothing about the channel and only the unique column would refuse   *)
(* it, after the entry is gone: that entries are deleted before the save, at*)
(* the price of a code used up by a refused one, is what keeps it so.  A    *)
(* second browser, whose setup of the channel is still being sent when the  *)
(* first confirms its own, leaves an entry nobody needs.                    *)
SetupStillNeeded ==
    cache["setup"] # None => cache["setup"].channel \notin verified

-----------------------------------------------------------------------------
(* The account as SecondFactors has it                                      *)
Account == "account"
SF == INSTANCE SecondFactors WITH
    Accounts <- {Account},
    verified <- [a \in {Account} |-> verified],
    factor   <- [a \in {Account} |-> {tfa} \ {None}]

(* While handlers do not overlap, what confirmations of logins and setups   *)
(* save, with the second factor their user had when it was read, is what the*)
(* handlers of UserAccounts save: a setup adds one channel and changes the  *)
(* second factor to that or not at all.                                     *)
ImplementsSecondFactors == SF!Spec

-----------------------------------------------------------------------------
(* Liveness                                                                 *)

(* The owner who wants a code by mail to be possible stays signed in until  *)
(* that is verified, begins a setup when the throttle is open and none of   *)
(* another channel meanwhile, and enters the right code while it is asked.  *)
PatientSteps ==
    /\ SetupNext
    /\ \A c \in Clients :
          /\ "Email" \notin verified => ~Logout(c)
          /\ \A id \in Ids :
                /\ Login2FA(c, id) => throttle = 0
                /\ Setup(c, "Email", id) => throttle = 0
                /\ Setup(c, TotpVerification, id) => cookies["setup"][c] = None
PatientSetupSpec ==
    /\ SetupInit
    /\ [][PatientSteps]_setupVars
    /\ ServerFairness
    /\ \A c \in Clients :
          /\ SF_vars(\E id \in Ids : Patient(c, id))
          /\ SF_vars(CompleteLogin(c))
          /\ SF_vars(\E r \in Requests : Confirm(r, c, TRUE))
          /\ SF_setupVars(throttle = 0 /\ \E id \in Ids : Setup(c, "Email", id))
          /\ SF_setupVars(/\ cache["setup"] # None
                          /\ cache["setup"].channel = "Email"
                          /\ \E r \in Requests : ConfirmRegistration(r, c))
    /\ \A r \in Requests :
          WF_setupVars(RegisterFails(r) \/ \E d \in BOOLEAN : Register(r, d))
    /\ SF_setupVars(\E r \in Requests, setAsDefault2fa \in BOOLEAN :
                        /\ Register(r, setAsDefault2fa)
                        /\ reqs[r].channel = "Email")

(* Mail is verified again and again, although mails are refused, entries    *)
(* expire, saves are refused with the code used up, and logins take the     *)
(* throttle's window.                                                       *)
PatientOwnerVerifies == []<>("Email" \in verified)
=============================================================================
