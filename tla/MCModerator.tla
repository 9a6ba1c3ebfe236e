----------------------------- MODULE MCModerator -----------------------------
(* One order, two videos, a review and a payout in the queue; an order and a   *)
(* review of it reported by two users, one author of both; two rows in a list. *)
EXTENDS Moderator, TLC

CONSTANTS m1, m2, order, review, ann, r1, r2

MCApps == {(m1 :> "web") @@ (m2 :> "mini"), (m1 :> "payouts") @@ (m2 :> "payouts")}
MCKindOf == (1 :> "order") @@ (2 :> "video") @@ (3 :> "video") @@ (4 :> "review")
    @@ (5 :> "payout")
MCTargetOf == (order :> "ORDER") @@ (review :> "REVIEW")
MCAuthorOf == (order :> ann) @@ (review :> ann)
MCConcerned == {<<r1, order>>, <<r2, review>>}
=============================================================================
