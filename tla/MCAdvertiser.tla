----------------------------- MODULE MCAdvertiser ----------------------------
(* An old order, a few forms, a hand that changes a field or two; an order with *)
(* a creator at work and another to come; two videos whose payouts do not       *)
(* divide evenly.                                                               *)
EXTENDS Advertiser, TLC

MCVideos == {"empty", "word", "site", "profile", "post1", "copy1", "post2"}
MCPayoutOf == <<17, 23>>
Alike == Permutations(Creator)
=============================================================================
