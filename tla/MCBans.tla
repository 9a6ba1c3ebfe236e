------------------------------- MODULE MCBans -------------------------------
(* Two users who work for each other, one order each.                      *)
EXTENDS Bans, TLC

CONSTANTS ann, ben, s1, s2, s3

MCOwnerOf == (1 :> ann) @@ (2 :> ben)
MCOrderOf == (s1 :> 1) @@ (s2 :> 1) @@ (s3 :> 2)
MCCreatorOf == (s1 :> ben) @@ (s2 :> ben) @@ (s3 :> ann)
=============================================================================
