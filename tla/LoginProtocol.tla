---------------------------- MODULE LoginProtocol ----------------------------
(***************************************************************************)
(* What the two-factor login of one account promises its clients, without  *)
(* Redis, throttle or handlers: a login is begun with the password, becomes*)
(* live when there is a code for it, and is confirmed or lost.  At most one *)
(* login of the account is live; one that was confirmed or refused never   *)
(* becomes live again.                                                     *)
(***************************************************************************)
EXTENDS Integers

CONSTANTS
    Clients,       \* browsers
    Ids,           \* login ids
    MaxAttempts,   \* wrong codes that end a login
    None           \* no login

VARIABLES
    required,   \* does the account ask for a second factor?
    pending,    \* the login a client has begun, or None
    awaited,    \* logins a code is on its way for
    live,       \* the login that can be confirmed, or None
    tries,      \* wrong codes entered for the live login
    signedIn    \* clients that hold tokens

vars == <<required, pending, awaited, live, tries, signedIn>>

Init ==
    /\ required = TRUE
    /\ pending = [c \in Clients |-> None]
    /\ awaited = {}
    /\ live = None
    /\ tries = 0
    /\ signedIn = {}

(* The right password, with a second factor to come: a code is requested,   *)
(* or not (the throttle), or none is needed (the authenticator app).        *)
Begin(c, id) ==
    /\ required
    /\ id \notin awaited \cup {live} \cup {pending[x] : x \in Clients}
    /\ pending' = [pending EXCEPT ![c] = id]
    /\ \/ awaited' = awaited \cup {id} /\ UNCHANGED <<live, tries>>
       \/ UNCHANGED <<awaited, live, tries>>
       \/ live' = id /\ tries' = 0 /\ UNCHANGED awaited
    /\ UNCHANGED <<required, signedIn>>

(* The right password is enough.                                            *)
Enter(c) ==
    /\ ~required
    /\ signedIn' = signedIn \cup {c}
    /\ UNCHANGED <<required, pending, awaited, live, tries>>

(* The code was sent: its login replaces the one that was live.             *)
GoLive(id) ==
    /\ id \in awaited
    /\ awaited' = awaited \ {id}
    /\ live' = id
    /\ tries' = 0
    /\ UNCHANGED <<required, pending, signedIn>>

(* A wrong code for the live login; the last one allowed ends it.           *)
Mistype ==
    /\ live # None
    /\ \E c \in Clients : pending[c] = live
    /\ \/ tries + 1 < MaxAttempts /\ tries' = tries + 1 /\ UNCHANGED live
       \/ tries + 1 >= MaxAttempts /\ tries' = 0 /\ live' = None
    /\ UNCHANGED <<required, pending, awaited, signedIn>>

(* The right code, by a client whose login is the live one and who has no   *)
(* tokens yet.  That login is over.                                         *)
Confirm(c) ==
    /\ required
    /\ live # None
    /\ pending[c] = live
    /\ c \notin signedIn
    /\ signedIn' = signedIn \cup {c}
    /\ pending' = [pending EXCEPT ![c] = None]
    /\ live' = None
    /\ tries' = 0
    /\ UNCHANGED <<required, awaited>>

Leave(c) ==
    /\ signedIn' = signedIn \ {c}
    /\ UNCHANGED <<required, pending, awaited, live, tries>>

(* The owner switches the second factor on, off or to another channel.      *)
Switch ==
    /\ required' \in BOOLEAN
    /\ UNCHANGED <<pending, awaited, live, tries, signedIn>>

(* A client gives up, the live login expires, codes are never sent.         *)
GiveUp(c) ==
    /\ pending' = [pending EXCEPT ![c] = None]
    /\ UNCHANGED <<required, awaited, live, tries, signedIn>>

Expire ==
    /\ live' = None
    /\ tries' = 0
    /\ UNCHANGED <<required, pending, awaited, signedIn>>

LoseCodes ==
    /\ awaited' \in SUBSET awaited
    /\ UNCHANGED <<required, pending, live, tries, signedIn>>

Next ==
    \/ \E c \in Clients :
        \/ \E id \in Ids : Begin(c, id)
        \/ Enter(c)
        \/ Confirm(c)
        \/ Leave(c)
        \/ GiveUp(c)
    \/ \E id \in Ids : GoLive(id)
    \/ Mistype
    \/ Switch
    \/ Expire
    \/ LoseCodes

Spec == Init /\ [][Next]_vars
=============================================================================
