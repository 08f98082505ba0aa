------------------------------ MODULE MCSessions ------------------------------
(***************************************************************************)
(* Small instances of Sessions.                                            *)
(***************************************************************************)
EXTENDS Sessions, TLC

(* User ids and slots are interchangeable.                                  *)
Interchangeable == Permutations(Users) \cup Permutations(Requests)
=============================================================================
