------------------------------- MODULE MCTalk -------------------------------
(***************************************************************************)
(* Instances of Talk.                                                      *)
(***************************************************************************)
EXTENDS Talk, TLC

RequestsAlike == Permutations(Req) \cup Permutations(User)
=============================================================================
