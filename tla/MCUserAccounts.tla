--------------------------- MODULE MCUserAccounts ---------------------------
(***************************************************************************)
(* Small instances of UserAccounts.  The sets are given in the .cfg files; *)
(* an empty set switches a part of the aggregate off.                      *)
(***************************************************************************)
EXTENDS UserAccounts, TLC

(* Users, uuids, secrets and slots are interchangeable; so are the e-mail   *)
(* addresses, the providers and the ids they give.                          *)
Interchangeable ==
    Permutations(Users) \cup Permutations(Emails)
      \cup Permutations(VerificationIds)
      \cup Permutations(Secrets) \cup Permutations(Requests)
      \cup Permutations(Providers) \cup Permutations(ProviderIds)
=============================================================================
