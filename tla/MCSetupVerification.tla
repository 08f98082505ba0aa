------------------------ MODULE MCSetupVerification ------------------------
(***************************************************************************)
(* Small instances of SetupVerification.                                   *)
(***************************************************************************)
EXTENDS SetupVerification, TLC

(* Browsers, uuids and slots are interchangeable.                           *)
Interchangeable ==
    Permutations(Clients) \cup Permutations(Ids)
      \cup Permutations(Sends) \cup Permutations(Requests)
=============================================================================
