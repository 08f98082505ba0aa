---------------------------- MODULE SecondFactors ----------------------------
(***************************************************************************)
(* The verified channels of the accounts and the one of them that a login  *)
(* asks for, without rows, copies or codes.                                *)
(***************************************************************************)

CONSTANTS
    Accounts,   \* accounts, or users
    Channels    \* the channels a code may come by

VARIABLES
    verified,   \* the channels each account has verified
    factor      \* none of them, or the one that is the second factor

Init ==
    /\ verified \in [Accounts -> SUBSET Channels]
    /\ factor \in [Accounts -> SUBSET Channels]
    /\ \A a \in Accounts : factor[a] = {} \/ \E c \in verified[a] : factor[a] = {c}

(* A channel is verified once, and may become the second factor with that.  *)
Verify(a, c) ==
    /\ c \notin verified[a]
    /\ verified' = [verified EXCEPT ![a] = @ \cup {c}]
    /\ factor' \in {factor, [factor EXCEPT ![a] = {c}]}

(* The second factor goes with its channel.                                 *)
Remove(a, c) ==
    /\ c \in verified[a]
    /\ verified' = [verified EXCEPT ![a] = @ \ {c}]
    /\ factor' = [factor EXCEPT ![a] = @ \ {c}]

Enable(a, c) ==
    /\ c \in verified[a]
    /\ factor' = [factor EXCEPT ![a] = {c}]
    /\ UNCHANGED verified

Disable(a) ==
    /\ factor' = [factor EXCEPT ![a] = {}]
    /\ UNCHANGED verified

Next ==
    \E a \in Accounts :
        \/ \E c \in Channels : Verify(a, c) \/ Remove(a, c) \/ Enable(a, c)
        \/ Disable(a)

Spec == Init /\ [][Next]_<<verified, factor>>
=============================================================================
