------------------------------- MODULE Budget -------------------------------
(***************************************************************************)
(* The money arithmetic of src/src/orders/budget.ts.  Amounts are whole    *)
(* cents ("minor" units).  Budgets and rates are positive, so 0 stands for *)
(* the SQL null of cpmMinor and approvedBudgetMinor.                       *)
(***************************************************************************)
EXTENDS Integers

Null == 0

Lesser(a, b) == IF a <= b THEN a ELSE b
Greater(a, b) == IF a >= b THEN a ELSE b

\* The budget without the platform fee: what creators can be paid.
payoutPool(budget, fee) == (budget * (100 - fee)) \div 100

\* How much of the budget went on payouts, fee included: rounded up, never
\* above the budget.
budgetSpent(budget, fee, payouts) ==
    Lesser(budget, -((-(payouts * 100)) \div (100 - fee)))

\* The advertiser asked for more than the moderator approved last.
budgetRaised(budget, approved) == approved # Null /\ budget > approved

\* The payout of a video at a rate per 1000 views.
payoutFor(views, cpm) == (views * cpm) \div 1000

\* What is left of the pool once `spent` is taken.
free(budget, fee, spent) == Greater(0, payoutPool(budget, fee) - spent)

\* No room for one more video at the view threshold; an order without a rate
\* (not approved yet) takes no videos at all.
exhausted(budget, fee, cpm, minViews, spent) ==
    cpm = Null \/ free(budget, fee, spent) < payoutFor(minViews, cpm)

=============================================================================
