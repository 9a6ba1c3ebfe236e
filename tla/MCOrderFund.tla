---------------------------- MODULE MCOrderFund ----------------------------
(***************************************************************************)
(* Small instances of OrderFund for TLC.                                   *)
(***************************************************************************)
EXTENDS OrderFund, TLC

CONSTANTS a, b, s1, s2, s3, v1, v2

\* Who owns which row.
OneRow == s1 :> a
TwoCreators == (s1 :> a) @@ (s2 :> b)
ThreeRows == (s1 :> a) @@ (s2 :> a) @@ (s3 :> b)

Offer(views, link) == [minViews |-> views, link |-> link]

\* Offers that differ in the threshold; in the threshold or the product link.
ByThreshold == {Offer(1000, FALSE), Offer(2000, FALSE)}
ByEither == ByThreshold \cup {Offer(2000, TRUE)}

\* Videos are interchangeable, and so are two creators with their rows.
Videos == Permutations(Video)
Swapped == (s1 :> s2) @@ (s2 :> s1) @@ (a :> b) @@ (b :> a)
Alike == Videos \cup {Swapped} \cup {p @@ Swapped : p \in Videos}

=============================================================================
