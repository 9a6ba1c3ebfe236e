------------------------------ MODULE MCPayouts ------------------------------
(***************************************************************************)
(* Small instances of Payouts for TLC.                                     *)
(***************************************************************************)
EXTENDS Payouts, TLC

CONSTANTS s1, s2

\* One video earns what two requests ask for, the other what one does.
TwoVideos == s1 :> 2 @@ s2 :> 1

=============================================================================
