---------------------------- MODULE LoginMethods ----------------------------
(***************************************************************************)
(* The ways to log in to the users, without requests, copies, rows or      *)
(* tokens: what everything above the accounts takes for granted of them.   *)
(* A login belongs to one user at most, a user has one from its creation on*)
(* and at most one of each provider, and logins come and go one by one.    *)
(***************************************************************************)

CONSTANTS
    Users,      \* users that may be created
    Logins,     \* an e-mail address, or somebody's account at a provider
    Provider,   \* the provider of each login
    Permanent   \* the provider whose logins are neither linked nor unlinked

VARIABLES
    logins      \* the logins of each user; none: not created

Init == logins = [u \in Users |-> {}]

Free(l) == \A u \in Users : l \notin logins[u]

(* Somebody registers, or comes from a provider for the first time.         *)
Create(u, l) ==
    /\ logins[u] = {}
    /\ Free(l)
    /\ logins' = [logins EXCEPT ![u] = {l}]

Link(u, l) ==
    /\ logins[u] # {}
    /\ Free(l)
    /\ Provider[l] # Permanent
    /\ \A x \in logins[u] : Provider[x] # Provider[l]
    /\ logins' = [logins EXCEPT ![u] = @ \cup {l}]

Unlink(u, l) ==
    /\ l \in logins[u]
    /\ logins[u] # {l}
    /\ Provider[l] # Permanent
    /\ logins' = [logins EXCEPT ![u] = @ \ {l}]

Next == \E u \in Users, l \in Logins : Create(u, l) \/ Link(u, l) \/ Unlink(u, l)

Spec == Init /\ [][Next]_logins
=============================================================================
