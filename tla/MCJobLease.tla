----------------------------- MODULE MCJobLease -----------------------------
(***************************************************************************)
(* Small instances of JobLease for TLC: an interval of two ticks, the      *)
(* lease of three intervals as in the code.                                *)
(***************************************************************************)
EXTENDS JobLease

TwoTicks == 2
ThreeIntervals == 3 * TwoTicks

=============================================================================
