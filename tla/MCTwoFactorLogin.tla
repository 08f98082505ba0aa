-------------------------- MODULE MCTwoFactorLogin --------------------------
(***************************************************************************)
(* Small instances of TwoFactorLogin.                                      *)
(***************************************************************************)
EXTENDS TwoFactorLogin, TLC

(* Browsers, uuids and slots are interchangeable.                           *)
Interchangeable ==
    Permutations(Clients) \cup Permutations(Ids)
      \cup Permutations(Sends) \cup Permutations(Requests)
=============================================================================
