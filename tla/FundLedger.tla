----------------------------- MODULE FundLedger -----------------------------
(***************************************************************************)
(* What the fund of an order promises, whatever happens to the order: a    *)
(* video is reserved for, the reserve becomes an accrual or is released,   *)
(* an accrual is cancelled or becomes final, and a final one stays.  What  *)
(* is promised in all never exceeds what a moderator knows was paid.       *)
(* OrderFund implements it.                                                *)
(***************************************************************************)
EXTENDS Integers, FiniteSets

CONSTANT Sub   \* submissions

VARIABLES
    pool,      \* what creators may be promised in all
    entry      \* what each submission is promised

ledger == <<pool, entry>>

Entry == [kind : {"none", "reserve", "accrual", "final"}, amount : Nat]

Nothing == [kind |-> "none", amount |-> 0]

\* The sum of the amounts, as the number of cents.
Promised == Cardinality(UNION {{s} \X (1 .. entry[s].amount) : s \in Sub})

Covered == Promised <= pool

\* Another budget is agreed on.
Provide == pool' \in Nat /\ UNCHANGED entry

Put(s, kind, amount) ==
    /\ entry' = [entry EXCEPT ![s] = [kind |-> kind, amount |-> amount]]
    /\ UNCHANGED pool

Reserve(s) ==
    /\ entry[s].kind = "none"
    /\ \E n \in 0 .. pool : Put(s, "reserve", n)

Accrue(s) ==
    /\ entry[s].kind = "reserve"
    /\ \E n \in 0 .. pool : Put(s, "accrual", n)

Settle(s) ==
    /\ entry[s].kind = "accrual"
    /\ Put(s, "final", entry[s].amount)

Cancel(s) ==
    /\ entry[s].kind = "accrual"
    /\ Put(s, "none", 0)

\* Several reserves at once: a ban rejects all videos on review.
Release(ss) ==
    /\ \A s \in ss : entry[s].kind = "reserve"
    /\ entry' = [s \in Sub |-> IF s \in ss THEN Nothing ELSE entry[s]]
    /\ UNCHANGED pool

Init ==
    /\ pool = 0
    /\ entry = [s \in Sub |-> Nothing]

Next ==
    /\ \/ Provide
       \/ \E s \in Sub : Reserve(s) \/ Accrue(s) \/ Settle(s) \/ Cancel(s)
       \/ \E ss \in SUBSET Sub : Release(ss)
    /\ Covered'

Spec == Init /\ [][Next]_ledger

=============================================================================
