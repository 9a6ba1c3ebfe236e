------------------------------ MODULE MCOutbox ------------------------------
(***************************************************************************)
(* Small instances of Outbox for TLC.                                      *)
(***************************************************************************)
EXTENDS Outbox, TLC

CONSTANTS c1, c2

\* Two messages for one chat, a broadcast to the other.
TwoMessages == 1..2
ToBoth == 1 :> c1 @@ 2 :> c2
OneBroadcast == 1 :> 1 @@ 2 :> 0

\* Both for one chat.
ToOne == 1 :> c1 @@ 2 :> c1

OneMessage == {1}
ToSelf == 1 :> c1
Plain == 1 :> 0

=============================================================================
