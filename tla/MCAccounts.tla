----------------------------- MODULE MCAccounts -----------------------------
(***************************************************************************)
(* Instances of Accounts.                                                  *)
(***************************************************************************)
EXTENDS Accounts, TLC

CONSTANTS ann, bob, ea, eb, va, vb, tiktok, vk, r1, r2

OnOne == [e \in Ext |-> CHOOSE p \in Platform : TRUE]
Posts == va :> ea @@ vb :> eb
\* Both videos are handed in by the same creator, one of them is another's.
ByAnn == [v \in Video |-> ann]
RequestsAlike == Permutations(Req)
=============================================================================
