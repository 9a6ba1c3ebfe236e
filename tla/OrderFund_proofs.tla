-------------------------- MODULE OrderFund_proofs --------------------------
(***************************************************************************)
(* Theorems about OrderFund for every set of submissions, offers, budgets, *)
(* rates and requests in flight.                                           *)
(***************************************************************************)
EXTENDS OrderFund, FiniteSetTheorems, TLAPS

-----------------------------------------------------------------------------
(* Arithmetic *)

\* The pool and a payout are whole amounts.
LEMMA PoolType ==
    ASSUME NEW b \in Nat
    PROVE  payoutPool(b, FeePercent) \in Nat
<1>1. 100 - FeePercent \in 1..100
    BY MoneyAssumption
<1>2. ASSUME NEW k \in 1..100
      PROVE  (b * k) \div 100 \in Nat
    <2>1. b * k \in Nat
        OBVIOUS
    <2> QED
        BY <2>1
<1> QED
    BY <1>1, <1>2 DEF payoutPool

LEMMA PayoutType ==
    ASSUME NEW v \in Nat, NEW c \in Nat
    PROVE  payoutFor(v, c) \in Nat
<1>1. v * c \in Nat
    OBVIOUS
<1> QED
    BY <1>1 DEF payoutFor

\* A larger budget never has a smaller pool.
LEMMA PoolMonotone ==
    ASSUME NEW b \in Nat, NEW c \in Nat, b <= c
    PROVE  payoutPool(b, FeePercent) <= payoutPool(c, FeePercent)
<1>1. ASSUME NEW k \in 1..100
      PROVE  (b * k) \div 100 <= (c * k) \div 100
    <2>1. b * k \in Nat /\ c * k \in Nat /\ b * k <= c * k
        <3>1. c * k = b * k + (c - b) * k
            OBVIOUS
        <3>2. (c - b) * k \in Nat
            <4>1. c - b \in Nat
                OBVIOUS
            <4> QED
                BY <4>1
        <3> QED
            BY <3>1, <3>2
    <2> DEFINE x == b * k
               y == c * k
    <2>2. x \in Nat /\ y \in Nat /\ x <= y
        BY <2>1
    <2> HIDE DEF x, y
    <2>3. x \div 100 <= y \div 100
        BY <2>2
    <2> QED
        BY <2>3 DEF x, y
<1>2. 100 - FeePercent \in 1..100
    BY MoneyAssumption
<1> QED
    BY <1>1, <1>2 DEF payoutPool

-----------------------------------------------------------------------------
(* Sums of payouts *)

\* The rows as the type invariant describes them.
Rows(ss) == ss \in [Sub -> Submission] /\ \A s \in Sub : WellFormed(ss[s])

Own(ss, s) == {s} \X (1..ss[s].payout)

\* The cents of one row are as many as its payout.
LEMMA OwnCents ==
    ASSUME NEW ss \in [Sub -> Submission], NEW s \in Sub
    PROVE  /\ IsFiniteSet(Own(ss, s))
           /\ Cardinality(Own(ss, s)) = ss[s].payout
<1> DEFINE p == ss[s].payout
<1>1. p \in Nat
    BY DEF Submission
<1>2. IsFiniteSet({s}) /\ Cardinality({s}) = 1
    BY FS_Singleton
<1>3. IsFiniteSet(1..p) /\ Cardinality(1..p) = p
    <2>1. IsFiniteSet(1..p) /\ Cardinality(1..p) = IF 1 > p THEN 0 ELSE p - 1 + 1
        BY <1>1, FS_Interval
    <2> QED
        BY <1>1, <2>1
<1>4. IsFiniteSet({s} \X (1..p)) /\ Cardinality({s} \X (1..p)) = 1 * p
    BY <1>2, <1>3, FS_Product
<1> QED
    BY <1>1, <1>4 DEF Own

\* What is held is finite when the rows are, and is a whole amount.
CentsFinite(ss) == IsFiniteSet(Cents(ss, HOLDS_MONEY))

LEMMA HeldType ==
    ASSUME NEW ss, CentsFinite(ss)
    PROVE  spentByOrder(ss, HOLDS_MONEY) \in Nat
BY FS_CardinalityType DEF CentsFinite, spentByOrder

\* A step after which every row that holds money held the same before only
\* returns money to the fund.
Returns(ss, tt) ==
    \A s \in Sub : tt[s].status \in HOLDS_MONEY =>
        ss[s].status \in HOLDS_MONEY /\ tt[s].payout = ss[s].payout

LEMMA ReturnedMoney ==
    ASSUME NEW ss \in [Sub -> Submission], NEW tt \in [Sub -> Submission],
           CentsFinite(ss), Returns(ss, tt)
    PROVE  /\ CentsFinite(tt)
           /\ spentByOrder(tt, HOLDS_MONEY) <= spentByOrder(ss, HOLDS_MONEY)
<1>1. Cents(tt, HOLDS_MONEY) \in SUBSET Cents(ss, HOLDS_MONEY)
    BY DEF Cents, Returns
<1> QED
    BY <1>1, FS_Subset DEF CentsFinite, spentByOrder

\* A row that held nothing starts to hold its payout.
LEMMA ReservedMoney ==
    ASSUME NEW ss \in [Sub -> Submission], NEW tt \in [Sub -> Submission],
           CentsFinite(ss), NEW s \in Sub,
           \A t \in Sub \ {s} : tt[t] = ss[t],
           tt[s].status \in HOLDS_MONEY
    PROVE  /\ CentsFinite(tt)
           /\ spentByOrder(tt, HOLDS_MONEY)
                <= spentByOrder(ss, HOLDS_MONEY) + tt[s].payout
<1>1. IsFiniteSet(Own(tt, s)) /\ Cardinality(Own(tt, s)) = tt[s].payout
    BY OwnCents
<1>2. tt[s].payout \in Nat
    BY DEF Submission
<1>3. Cents(tt, HOLDS_MONEY) \in SUBSET (Cents(ss, HOLDS_MONEY) \cup Own(tt, s))
    BY DEF Cents, Own
<1> DEFINE C == Cents(ss, HOLDS_MONEY)
           O == Own(tt, s)
           D == Cents(tt, HOLDS_MONEY)
<1>4. IsFiniteSet(C) /\ IsFiniteSet(O) /\ D \in SUBSET (C \cup O)
    BY <1>1, <1>3 DEF CentsFinite
<1>5. Cardinality(O) = tt[s].payout
    BY <1>1
<1>6. spentByOrder(ss, HOLDS_MONEY) = Cardinality(C)
      /\ spentByOrder(tt, HOLDS_MONEY) = Cardinality(D)
      /\ (CentsFinite(tt) <=> IsFiniteSet(D))
    BY DEF spentByOrder, CentsFinite
<1> HIDE DEF C, O, D
<1>7. /\ IsFiniteSet(C \cup O)
      /\ Cardinality(C \cup O) = Cardinality(C) + Cardinality(O) - Cardinality(C \cap O)
    BY <1>4, FS_Union
<1>8. IsFiniteSet(C \cap O)
    BY <1>4, FS_Intersection
<1>9. Cardinality(C \cap O) \in Nat /\ Cardinality(C) \in Nat /\ Cardinality(O) \in Nat
    BY <1>4, <1>8, FS_CardinalityType
<1>10. IsFiniteSet(D) /\ Cardinality(D) <= Cardinality(C \cup O)
    BY <1>4, <1>7, FS_Subset
<1>11. Cardinality(D) \in Nat
    BY <1>10, FS_CardinalityType
<1> QED
    BY <1>2, <1>5, <1>6, <1>7, <1>9, <1>10, <1>11

\* A row that held its reserve holds its payout instead.
LEMMA SettledMoney ==
    ASSUME NEW ss \in [Sub -> Submission], NEW tt \in [Sub -> Submission],
           CentsFinite(ss), NEW s \in Sub,
           \A t \in Sub \ {s} : tt[t] = ss[t],
           ss[s].status \in HOLDS_MONEY, tt[s].status \in HOLDS_MONEY
    PROVE  /\ CentsFinite(tt)
           /\ ss[s].payout <= spentByOrder(ss, HOLDS_MONEY)
           /\ spentByOrder(tt, HOLDS_MONEY)
                <= spentByOrder(ss, HOLDS_MONEY) - ss[s].payout + tt[s].payout
<1>1. /\ IsFiniteSet(Own(tt, s)) /\ Cardinality(Own(tt, s)) = tt[s].payout
      /\ IsFiniteSet(Own(ss, s)) /\ Cardinality(Own(ss, s)) = ss[s].payout
    BY OwnCents
<1>2. tt[s].payout \in Nat /\ ss[s].payout \in Nat
    BY DEF Submission
<1>3. Own(ss, s) \in SUBSET Cents(ss, HOLDS_MONEY)
    BY DEF Cents, Own
<1>4. Cents(tt, HOLDS_MONEY) \in
        SUBSET ((Cents(ss, HOLDS_MONEY) \ Own(ss, s)) \cup Own(tt, s))
    BY DEF Cents, Own
<1> DEFINE C == Cents(ss, HOLDS_MONEY)
           O == Own(ss, s)
           P == Own(tt, s)
           D == Cents(tt, HOLDS_MONEY)
           R == C \ O
<1>5. /\ IsFiniteSet(C) /\ IsFiniteSet(O) /\ IsFiniteSet(P)
      /\ O \in SUBSET C /\ D \in SUBSET (R \cup P)
    BY <1>1, <1>3, <1>4 DEF CentsFinite
<1>6. Cardinality(O) = ss[s].payout /\ Cardinality(P) = tt[s].payout
    BY <1>1
<1>7. spentByOrder(ss, HOLDS_MONEY) = Cardinality(C)
      /\ spentByOrder(tt, HOLDS_MONEY) = Cardinality(D)
      /\ (CentsFinite(tt) <=> IsFiniteSet(D))
    BY DEF spentByOrder, CentsFinite
<1> HIDE DEF C, O, P, D
<1>8. /\ IsFiniteSet(R)
      /\ Cardinality(R) = Cardinality(C) - Cardinality(O)
    <2>1. C \cap O = O
        BY <1>5
    <2>2. IsFiniteSet(C \ O) /\ Cardinality(C \ O) = Cardinality(C) - Cardinality(C \cap O)
        BY <1>5, FS_Difference
    <2> QED
        BY <2>1, <2>2
<1> HIDE DEF R
<1>9. /\ IsFiniteSet(R \cup P)
      /\ Cardinality(R \cup P) = Cardinality(R) + Cardinality(P) - Cardinality(R \cap P)
    BY <1>5, <1>8, FS_Union
<1>10. IsFiniteSet(R \cap P)
    BY <1>8, FS_Intersection
<1>11. /\ Cardinality(R \cap P) \in Nat /\ Cardinality(R) \in Nat
       /\ Cardinality(P) \in Nat /\ Cardinality(C) \in Nat /\ Cardinality(O) \in Nat
    BY <1>5, <1>8, <1>10, FS_CardinalityType
<1>12. IsFiniteSet(D) /\ Cardinality(D) <= Cardinality(R \cup P)
    BY <1>5, <1>9, FS_Subset
<1>13. Cardinality(D) \in Nat
    BY <1>12, FS_CardinalityType
<1> QED
    BY <1>2, <1>6, <1>7, <1>8, <1>9, <1>11, <1>12, <1>13

-----------------------------------------------------------------------------
(* What the helpers keep *)

LEMMA FreeType ==
    ASSUME NEW row \in Row, NEW ss, CentsFinite(ss)
    PROVE  Free(row, ss) \in Nat
<1>1. fundOf(row) \in Nat
    BY DEF fundOf, Lesser, Row
<1>2. payoutPool(fundOf(row), FeePercent) \in Nat
    BY <1>1, PoolType
<1>3. spentByOrder(ss, HOLDS_MONEY) \in Nat
    BY HeldType
<1> QED
    BY <1>2, <1>3 DEF Free, free, Greater

LEMMA SyncType ==
    ASSUME NEW row \in Row, NEW ss
    PROVE  /\ syncFundBusy(row, ss) \in Row
           /\ closeIfExhausted(row, ss) \in Row
BY DEF syncFundBusy, FundBusy, closeIfExhausted, Row, OrderStatus

LEMMA ExpireSlotsKeeps ==
    ASSUME NEW ss, Rows(ss)
    PROVE  Rows(expireSlots(ss)) /\ Returns(ss, expireSlots(ss))
BY DEF Rows, Returns, expireSlots, Submission, SubStatus, WellFormed, HOLDS_MONEY

LEMMA RejectSubmittedKeeps ==
    ASSUME NEW ss, Rows(ss), NEW who
    PROVE  Rows(rejectSubmitted(ss, who)) /\ Returns(ss, rejectSubmitted(ss, who))
BY DEF Rows, Returns, rejectSubmitted, Submission, SubStatus, WellFormed, HOLDS_MONEY

LEMMA DeleteInProgressKeeps ==
    ASSUME NEW ss, Rows(ss), NEW c
    PROVE  Rows(deleteInProgress(ss, c)) /\ Returns(ss, deleteInProgress(ss, c))
BY DEF Rows, Returns, deleteInProgress, Submission, SubStatus, WellFormed, HOLDS_MONEY

LEMMA ReturnsTwice ==
    ASSUME NEW ss, NEW tt, NEW uu, Returns(ss, tt), Returns(tt, uu)
    PROVE  Returns(ss, uu)
BY DEF Returns

-----------------------------------------------------------------------------
(* Type correctness *)

\* The sum of payouts is a number only if what is held is finite.
TypeInv == TypeOK /\ CentsFinite(subs)

LEMMA TypeInit == Init => TypeInv
<1> SUFFICES ASSUME Init PROVE TypeInv
    OBVIOUS
<1>1. AnyOffer \in Offers
    BY OffersAssumption DEF AnyOffer
<1>2. order \in Row /\ vetted \in Offers /\ removed \in BOOLEAN /\ stale \subseteq Read
    BY <1>1 DEF Init, NoOrder, Row, OrderStatus, Null
<1>3. Rows(subs)
    BY DEF Init, Rows, NoSubmission, Submission, SubStatus, WellFormed, HOLDS_MONEY
<1>4. Cents(subs, HOLDS_MONEY) = {}
    BY DEF Init, Cents, NoSubmission, HOLDS_MONEY
<1> QED
    BY <1>2, <1>3, <1>4, FS_EmptySet DEF TypeInv, TypeOK, Rows, CentsFinite

LEMMA ReadTyped ==
    ASSUME TypeInv, NEW r \in 0..MaxStale
    PROVE  ReadBy(r) \in Read
<1>1. Inflated(subs) \subseteq Video
    BY DEF TypeInv, TypeOK, Inflated, Submission, WellFormed
<1>2. ExhaustedBy(order, subs, HOLDS_MONEY) \in BOOLEAN
    BY DEF ExhaustedBy, exhausted
<1> QED
    BY <1>1, <1>2 DEF ReadBy, Read, Slots, TypeInv, TypeOK

LEMMA ReadsTyped == TypeInv => Reads \subseteq Read
<1> SUFFICES ASSUME TypeInv PROVE Now \in Read
    BY DEF Reads, TypeInv, TypeOK
<1> QED
    BY ReadTyped, BoundAssumption DEF Now

\* The terms a decision restores or strips are still terms of the order.
LEMMA CancelEditType ==
    ASSUME NEW row \in Row
    PROVE  /\ cancelEdit(row) \in Row
           /\ cancelEdit(row).version = row.version
           /\ cancelEdit(row).approvedBudget = row.approvedBudget
           /\ cancelEdit(row).budget = row.approvedBudget
           /\ cancelEdit(row).prevTerms = row.prevTerms
           /\ cancelEdit(row).cpm = IF row.prevTerms = NoTerms THEN row.cpm
                                    ELSE row.prevTerms.cpm
BY DEF cancelEdit, termsOf, Row, Terms

LEMMA UnlinkedType ==
    ASSUME NEW terms \in Terms \cup {NoTerms}
    PROVE  /\ unlinked(terms) \in Terms \cup {NoTerms}
           /\ unlinked(terms) = NoTerms <=> terms = NoTerms
           /\ terms # NoTerms => unlinked(terms).cpm = terms.cpm
<1>1. CASE terms = NoTerms
    BY <1>1 DEF unlinked
<1>2. CASE terms # NoTerms
    <2>1. terms \in Terms /\ terms.offer \in Offers
        BY <1>2 DEF Terms
    <2>2. withoutLink(terms.offer) \in Offers
        BY <2>1, OffersAssumption
    <2>3. unlinked(terms) = [terms EXCEPT !.offer = withoutLink(terms.offer)]
        BY <1>2 DEF unlinked
    <2>4. unlinked(terms) \in Terms /\ unlinked(terms).cpm = terms.cpm
        BY <2>1, <2>2, <2>3 DEF Terms
    <2> QED
        BY <1>2, <2>4, OffersAssumption
<1> QED
    BY <1>1, <1>2

\* One step of one row to another well-formed row keeps the rows well formed.
LEMMA OneRowKeeps ==
    ASSUME NEW ss, Rows(ss), NEW s \in Sub, NEW sub \in Submission, WellFormed(sub)
    PROVE  Rows([ss EXCEPT ![s] = sub])
BY DEF Rows

\* A row that holds no money afterwards returns what it held.
LEMMA OneRowReturns ==
    ASSUME NEW ss, Rows(ss), NEW s \in Sub, NEW sub,
           \/ sub.status \notin HOLDS_MONEY
           \/ /\ ss[s].status \in HOLDS_MONEY
              /\ sub.payout = ss[s].payout
    PROVE  Returns(ss, [ss EXCEPT ![s] = sub])
BY DEF Rows, Returns

\* A row that starts to hold, or settles, what it is owed.
LEMMA OneRowHolds ==
    ASSUME NEW ss, Rows(ss), CentsFinite(ss), NEW s \in Sub,
           NEW sub \in Submission, WellFormed(sub), sub.status \in HOLDS_MONEY
    PROVE  /\ CentsFinite([ss EXCEPT ![s] = sub])
           /\ spentByOrder([ss EXCEPT ![s] = sub], HOLDS_MONEY)
                <= spentByOrder(ss, HOLDS_MONEY) + sub.payout
<1> DEFINE tt == [ss EXCEPT ![s] = sub]
<1>1. ss \in [Sub -> Submission] /\ tt \in [Sub -> Submission]
    BY DEF Rows
<1>2. tt[s] = sub /\ \A t \in Sub \ {s} : tt[t] = ss[t]
    BY <1>1
<1> HIDE DEF tt
<1>3. /\ CentsFinite(tt)
      /\ spentByOrder(tt, HOLDS_MONEY) <= spentByOrder(ss, HOLDS_MONEY) + tt[s].payout
    BY <1>1, <1>2, ReservedMoney
<1> QED
    BY <1>2, <1>3 DEF tt

\* ReturnedMoney, for any typed rows.
LEMMA RowsReturned ==
    ASSUME NEW ss, Rows(ss), CentsFinite(ss), NEW tt, Rows(tt), Returns(ss, tt)
    PROVE  /\ CentsFinite(tt)
           /\ spentByOrder(tt, HOLDS_MONEY) <= spentByOrder(ss, HOLDS_MONEY)
BY ReturnedMoney DEF Rows

LEMMA TypeStep == TypeInv /\ [Next]_vars => TypeInv'
<1> SUFFICES ASSUME TypeInv, [Next]_vars PROVE TypeInv'
    OBVIOUS
<1> DEFINE Money == Rows(subs)' /\ CentsFinite(subs)'
<1>1. /\ order \in Row /\ Rows(subs) /\ CentsFinite(subs)
      /\ stale \subseteq Read /\ vetted \in Offers /\ removed \in BOOLEAN
    BY DEF TypeInv, TypeOK, Rows
<1>2. Reads \subseteq Read
    BY ReadsTyped
<1>3. \A seen \in Reads : seen.order \in Row
    BY <1>2 DEF Read
<1> DEFINE Goal == /\ order' \in Row /\ Money
                   /\ stale' \subseteq Read /\ vetted' \in Offers /\ removed' \in BOOLEAN
<1>4. SUFFICES Goal
    BY DEF TypeInv, TypeOK, Rows, CentsFinite
<1>5. ASSUME NEW seen, Answered(seen) PROVE stale' \subseteq Read
    BY <1>1, <1>5 DEF Answered
<1>6. subs' = subs => Money
    BY <1>1 DEF Rows, CentsFinite, Cents
<1>7. ASSUME NEW tt, Rows(tt), Returns(subs, tt), subs' = tt PROVE Money
    BY <1>1, <1>7, RowsReturned DEF Rows, CentsFinite, Cents
<1>8. ASSUME NEW s \in Sub, NEW sub \in Submission, WellFormed(sub),
             sub.status \in HOLDS_MONEY, subs' = [subs EXCEPT ![s] = sub]
      PROVE  Money
    BY <1>1, <1>8, OneRowHolds, OneRowKeeps
<1>9. ASSUME NEW s \in Sub, NEW sub \in Submission, WellFormed(sub),
             \/ sub.status \notin HOLDS_MONEY
             \/ /\ subs[s].status \in HOLDS_MONEY
                /\ sub.payout = subs[s].payout,
             subs' = [subs EXCEPT ![s] = sub]
      PROVE  Money
    BY <1>1, <1>9, <1>7, OneRowKeeps, OneRowReturns
<1>10. \A s \in Sub : subs[s] \in Submission /\ WellFormed(subs[s])
    BY <1>1 DEF Rows
<1> HIDE DEF Money
<1>11. CASE UNCHANGED vars
    BY <1>1, <1>6, <1>11 DEF vars
<1>12. ASSUME NEW o \in Offers, NEW b \in Budgets, Create(o, b)
       PROVE  Goal
    BY <1>1, <1>6, <1>12, MoneyAssumption DEF Create, Row, OrderStatus, Null, history
<1>13. ASSUME NEW seen \in Reads, NEW o \in Offers, NEW b \in Budgets,
              NEW d \in BOOLEAN, Update(seen, o, b, d)
       PROVE  Goal
    <2>1. termsOf(seen.order) \in Terms
        BY <1>3 DEF termsOf, Terms, Row
    <2>2. busyAfterEdit(order.fundBusy, seen.order) \in BOOLEAN
        BY <1>1, <1>3 DEF busyAfterEdit, Row
    <2> DEFINE kept == IF startsFreeze(seen.order) THEN termsOf(seen.order)
                       ELSE order.prevTerms
               busy == busyAfterEdit(order.fundBusy, seen.order)
    <2>3. order' \in Row
        <3>1. kept \in Terms \cup {NoTerms} /\ b \in Nat /\ order.version + 1 \in Nat
            BY <1>1, <2>1, MoneyAssumption DEF Row
        <3>2. order' = [order EXCEPT !.status = "PENDING_MODERATION", !.offer = o,
                                     !.budget = b, !.version = order.version + 1,
                                     !.prevTerms = kept, !.fundBusy = busy]
            BY <1>13 DEF Update
        <3> HIDE DEF kept, busy
        <3>3. busy \in BOOLEAN
            BY <2>2 DEF busy
        <3> QED
            BY <1>1, <3>1, <3>2, <3>3 DEF Row, OrderStatus
    <2> QED
        BY <1>1, <1>5, <1>6, <1>13, <2>3 DEF Update, history
<1>14. ASSUME NEW seen \in Reads, Close(seen)
       PROVE  Goal
    <2>1. order' \in Row
        BY <1>1, <1>14, CancelEditType DEF Close, Row, OrderStatus
    <2>2. Money
        BY <1>1, <1>6, <1>7, <1>14, ExpireSlotsKeeps DEF Close
    <2> QED
        BY <1>1, <1>5, <1>14, <2>1, <2>2 DEF Close, history
<1>15. CASE Extend
    BY <1>1, <1>6, <1>15 DEF Extend, Row, OrderStatus, history
<1>16. CASE Remove
    <2> DEFINE tt == [s \in Sub |-> IF subs[s].status = "NONE" THEN subs[s]
                                    ELSE [NoSubmission EXCEPT !.status = "DELETED"]]
    <2>1. Rows(tt) /\ Returns(subs, tt)
        BY <1>10 DEF Rows, Returns, NoSubmission, Submission, SubStatus, WellFormed,
                     HOLDS_MONEY
    <2>2. Money
        BY <1>7, <1>16, <2>1 DEF Remove
    <2> QED
        BY <1>1, <1>16, <2>2 DEF Remove, Row, OrderStatus, history
<1>17. ASSUME NEW card \in Reads, NEW seen \in Reads, NEW rate \in Rates,
              ModeratorApprove(card, seen, rate)
       PROVE  Goal
    <2> DEFINE approved(st) == [[order EXCEPT !.approvedBudget = seen.order.budget,
                                              !.cpm = rate] EXCEPT !.status = st]
    <2>1. \A st \in {"OPEN", "CLOSED"} : approved(st) \in Row
        BY <1>1, <1>3, MoneyAssumption DEF Row, OrderStatus
    <2>2. \E st \in {"OPEN", "CLOSED"} : order' = syncFundBusy(approved(st), subs)
        BY <1>17 DEF ModeratorApprove
    <2>3. order' \in Row
        BY <2>1, <2>2, SyncType
    <2>4. card.order.offer \in Offers
        BY <1>3 DEF Row
    <2> QED
        BY <1>1, <1>5, <1>6, <1>17, <2>3, <2>4 DEF ModeratorApprove
<1>18. ASSUME NEW card \in Reads, NEW seen \in Reads, ModeratorReject(card, seen)
       PROVE  Goal
    BY <1>1, <1>5, <1>6, <1>18 DEF ModeratorReject, Row, OrderStatus, history
<1>19. CASE ModeratorClose
    <2>1. withoutLink(order.offer) \in Offers /\ withoutLink(vetted) \in Offers
        BY <1>1, OffersAssumption DEF Row
    <2>2. unlinked(order.prevTerms) \in Terms \cup {NoTerms}
        BY <1>1, UnlinkedType DEF Row
    <2>3. order' \in Row
        BY <1>1, <1>19, <2>1, <2>2 DEF ModeratorClose, Row, OrderStatus
    <2>4. Money
        BY <1>1, <1>6, <1>7, <1>19, ExpireSlotsKeeps DEF ModeratorClose
    <2> QED
        BY <1>1, <1>19, <2>1, <2>3, <2>4 DEF ModeratorClose
<1>20. CASE BanAdvertiser
    <2> DEFINE burnt == expireSlots(subs)
    <2>1. Rows(burnt) /\ Returns(subs, burnt)
        BY <1>1, ExpireSlotsKeeps
    <2>2. /\ Rows(rejectSubmitted(burnt, Creator))
          /\ Returns(subs, rejectSubmitted(burnt, Creator))
        BY <2>1, RejectSubmittedKeeps, ReturnsTwice
    <2>3. Money
        BY <1>7, <1>20, <2>1, <2>2 DEF BanAdvertiser
    <2>4. order' \in Row
        BY <1>1, <1>20 DEF BanAdvertiser, Row, OrderStatus
    <2> QED
        BY <1>1, <1>20, <2>3, <2>4 DEF BanAdvertiser
<1>21. ASSUME NEW seen \in Reads, NEW s \in Sub, Claim(seen, s)
       PROVE  Goal
    <2> DEFINE sub == [subs[s] EXCEPT !.status = "IN_PROGRESS"]
    <2>1. subs' = [subs EXCEPT ![s] = sub]
        BY <1>21 DEF Claim
    <2>2. sub \in Submission /\ WellFormed(sub) /\ sub.status \notin HOLDS_MONEY
        BY <1>10, <1>21 DEF Claim, Submission, SubStatus, WellFormed, HOLDS_MONEY
    <2>3. Money
        BY <1>9, <2>1, <2>2
    <2> QED
        BY <1>1, <1>5, <1>21, <2>3 DEF Claim, history
<1>22. ASSUME NEW seen \in Reads, NEW s \in Sub, NEW v \in Video, NEW n \in ViewCounts,
              AttachVideo(seen, s, v, n)
       PROVE  Goal
    <2> DEFINE left == Free(order, subs)
               reserve == payoutFor(order.offer.minViews, order.cpm)
               held == IF payoutFor(n, order.cpm) > left THEN left ELSE reserve
               sub == [subs[s] EXCEPT !.status = "SUBMITTED", !.video = v, !.views = n,
                                      !.payout = held, !.terms = termsOf(order)]
    <2>1. left \in Nat /\ reserve \in Nat
        BY <1>1, FreeType, PayoutType, OffersAssumption DEF Row
    <2>2. held \in Nat
        BY <2>1
    <2>3. termsOf(order) \in Terms
        BY <1>1 DEF termsOf, Terms, Row
    <2>4. subs' = [subs EXCEPT ![s] = sub] /\ order' = syncFundBusy(order, subs')
        BY <1>22 DEF AttachVideo
    <2> HIDE DEF held
    <2>5. subs[s].status = "IN_PROGRESS"
        BY <1>22 DEF AttachVideo
    <2>6. sub \in Submission /\ WellFormed(sub) /\ sub.status \in HOLDS_MONEY
        BY <1>10, <2>2, <2>3, <2>5, SubAssumption, OffersAssumption, MoneyAssumption
        DEF Submission, SubStatus, WellFormed, HOLDS_MONEY
    <2> HIDE DEF sub
    <2>7. Money
        BY <1>8, <2>4, <2>6
    <2> QED
        BY <1>1, <1>5, <1>22, <2>4, <2>7, SyncType DEF AttachVideo, history
<1>23. ASSUME NEW c \in Creator, BanCreator(c)
       PROVE  Goal
    <2> DEFINE slotless == deleteInProgress(subs, c)
    <2>1. Rows(slotless) /\ Returns(subs, slotless)
        BY <1>1, DeleteInProgressKeeps
    <2>2. /\ Rows(rejectSubmitted(slotless, {c}))
          /\ Returns(subs, rejectSubmitted(slotless, {c}))
        BY <2>1, RejectSubmittedKeeps, ReturnsTwice
    <2>3. Money
        BY <1>7, <1>23, <2>2 DEF BanCreator
    <2> QED
        BY <1>1, <1>23, <2>3, SyncType DEF BanCreator, history
<1>24. ASSUME NEW s \in Sub, NEW n \in ViewCounts, ApproveVideo(s, n)
       PROVE  Goal
    <2> DEFINE earned == payoutFor(n, videoTerms(order, subs[s]).cpm)
               paid == Lesser(earned, Free(order, subs) + subs[s].payout)
               sub == [subs[s] EXCEPT !.status = "MODERATOR_APPROVED", !.views = n,
                                      !.counted = n,
                                      !.payout = paid]
    <2>1. subs[s].status = "SUBMITTED" /\ subs[s].terms \in Terms
        BY <1>10, <1>24 DEF ApproveVideo, Submission, WellFormed, HOLDS_MONEY
    <2>2. earned \in Nat
        BY <2>1, PayoutType, MoneyAssumption DEF videoTerms, Terms
    <2>3. Free(order, subs) \in Nat /\ subs[s].payout \in Nat
        BY <1>1, <1>10, FreeType DEF Submission
    <2>4. paid \in Nat
        BY <2>2, <2>3 DEF Lesser
    <2>5. subs' = [subs EXCEPT ![s] = sub]
          /\ order' = syncFundBusy(closeIfExhausted(order, subs'), subs')
        BY <1>24 DEF ApproveVideo
    <2> HIDE DEF paid
    <2>6. sub \in Submission /\ WellFormed(sub) /\ sub.status \in HOLDS_MONEY
        BY <1>10, <2>1, <2>4, MoneyAssumption
        DEF Submission, SubStatus, WellFormed, HOLDS_MONEY
    <2> HIDE DEF sub
    <2>7. Money
        BY <1>8, <2>5, <2>6
    <2> QED
        BY <1>1, <1>24, <2>5, <2>7, SyncType DEF ApproveVideo, history
<1>25. ASSUME NEW s \in Sub, NEW i \in BOOLEAN, RejectVideo(s, i)
       PROVE  Goal
    <2> DEFINE sub == [subs[s] EXCEPT !.status = "MODERATOR_REJECTED", !.payout = 0,
                                      !.inflated = i]
    <2>1. subs' = [subs EXCEPT ![s] = sub] /\ order' = syncFundBusy(order, subs')
        BY <1>25 DEF RejectVideo
    <2>2. sub \in Submission /\ WellFormed(sub) /\ sub.status \notin HOLDS_MONEY
        BY <1>10, <1>25 DEF RejectVideo, Submission, SubStatus, WellFormed, HOLDS_MONEY
    <2> HIDE DEF sub
    <2>3. Money
        BY <1>9, <2>1, <2>2
    <2> QED
        BY <1>1, <1>25, <2>1, <2>3, SyncType DEF RejectVideo, history
<1>26. ASSUME NEW s \in Sub, PublicationDeleted(s)
       PROVE  Goal
    <2> DEFINE sub == [subs[s] EXCEPT !.status = "MODERATOR_REJECTED", !.payout = 0]
    <2>1. subs' = [subs EXCEPT ![s] = sub] /\ order' = syncFundBusy(order, subs')
        BY <1>26 DEF PublicationDeleted
    <2>2. sub \in Submission /\ WellFormed(sub) /\ sub.status \notin HOLDS_MONEY
        BY <1>10, <1>26
        DEF PublicationDeleted, Submission, SubStatus, WellFormed, HOLDS_MONEY
    <2> HIDE DEF sub
    <2>3. Money
        BY <1>9, <2>1, <2>2
    <2> QED
        BY <1>1, <1>26, <2>1, <2>3, SyncType DEF PublicationDeleted, history
<1>27. ASSUME NEW s \in Sub, NEW n \in ViewCounts, FinalizeViews(s, n)
       PROVE  Goal
    <2> DEFINE sub == [subs[s] EXCEPT !.views = n, !.finalized = TRUE]
    <2>1. subs' = [subs EXCEPT ![s] = sub]
        BY <1>27 DEF FinalizeViews
    <2>2. /\ sub \in Submission /\ WellFormed(sub)
          /\ subs[s].status \in HOLDS_MONEY /\ sub.payout = subs[s].payout
        BY <1>10, <1>27, MoneyAssumption DEF FinalizeViews, Submission, SubStatus, WellFormed, HOLDS_MONEY
    <2> HIDE DEF sub
    <2>3. Money
        BY <1>9, <2>1, <2>2
    <2> QED
        BY <1>1, <1>27, <2>3 DEF FinalizeViews, history
<1>28. CASE Expire
    BY <1>1, <1>6, <1>28 DEF Expire, Row, OrderStatus, history
<1>29. ASSUME NEW s \in Sub, ExpireSlot(s)
       PROVE  Goal
    <2> DEFINE sub == [subs[s] EXCEPT !.status = "SLOT_EXPIRED"]
    <2>1. subs' = [subs EXCEPT ![s] = sub]
        BY <1>29 DEF ExpireSlot
    <2>2. sub \in Submission /\ WellFormed(sub) /\ sub.status \notin HOLDS_MONEY
        BY <1>10, <1>29 DEF ExpireSlot, Submission, SubStatus, WellFormed, HOLDS_MONEY
    <2> HIDE DEF sub
    <2>3. Money
        BY <1>9, <2>1, <2>2
    <2> QED
        BY <1>1, <1>29, <2>3 DEF ExpireSlot, history
<1>30. CASE ReadRows
    <2>1. \A r \in 1..MaxStale : ReadBy(r) \in Read
        BY ReadTyped, BoundAssumption
    <2> QED
        BY <1>1, <1>6, <1>30, <2>1 DEF ReadRows, history
<1>31. ASSUME NEW seen \in stale, GiveUp(seen)
       PROVE  Goal
    BY <1>1, <1>5, <1>6, <1>31 DEF GiveUp, history
<1> HIDE DEF Goal
<1> QED
    BY <1>11, <1>12, <1>13, <1>14, <1>15, <1>16, <1>17, <1>18, <1>19, <1>20, <1>21,
       <1>22, <1>23, <1>24, <1>25, <1>26, <1>27, <1>28, <1>29, <1>30, <1>31
    DEF Next, Advertiser, OrderModeration, Creators, VideoModeration, Jobs, Requests

\* Every row, every read in flight and the histories keep their types, and a
\* submission never carries money its status does not allow (the handlers of
\* orders.service.ts, submissions.service.ts and bans.service.ts).
THEOREM TypeCorrect == Spec => []TypeOK
<1>1. TypeInv => TypeOK
    BY DEF TypeInv
<1> QED
    BY <1>1, TypeInit, TypeStep, PTL DEF Spec

-----------------------------------------------------------------------------
(* The fund covers what is held *)

NoMoneyHeld(ss) == \A s \in Sub : ss[s].status \notin HOLDS_MONEY

\* A rate and an approved budget come together, at the first approval, and stay.
RatedTogether ==
    /\ order.cpm = Null <=> order.approvedBudget = Null
    /\ order.prevTerms # NoTerms => order.prevTerms.cpm # Null
    /\ order.status # "NEW" => order.budget # Null
    /\ order.status = "NEW" => order.approvedBudget = Null /\ stale = {}

\* Before the first approval, and after the order is removed, no row holds money.
NothingHeld ==
    order.approvedBudget = Null \/ order.status = "DELETED" => NoMoneyHeld(subs)

\* What an earlier read of the order still says about it: a moderator deciding
\* on an unedited version decides on the budget of today.
ReadOf(row) ==
    /\ Exists(row)
    /\ row.version <= order.version
    /\ row.version = order.version /\ order.status = "PENDING_MODERATION"
            => row.budget = order.budget
    /\ row.cpm # Null => order.cpm # Null
    /\ row.status = "OPEN" => row.cpm # Null

ReadsAgree == \A seen \in stale : ReadOf(seen.order)

FundInv ==
    /\ TypeInv
    /\ RatedTogether
    /\ NothingHeld
    /\ ReadsAgree
    /\ PublishedBudgetPaid
    /\ FundCovered

PUBLISHED == {"OPEN", "CLOSED", "EXPIRED"}

\* A step that sets no money term of the order, sends nothing to moderation and
\* publishes nothing.
QuietOrder ==
    /\ order'.budget = order.budget
    /\ order'.approvedBudget = order.approvedBudget
    /\ order'.cpm = order.cpm
    /\ order'.version = order.version
    /\ order'.prevTerms # NoTerms => order'.prevTerms.cpm # Null
    /\ order'.status = "NEW" <=> order.status = "NEW"
    /\ order'.status = "PENDING_MODERATION" => order.status = "PENDING_MODERATION"
    /\ order'.status \in PUBLISHED => order.status \in PUBLISHED
    /\ stale' \subseteq stale

\* It also reserves nothing, and removes an order only when nothing is held.
QuietMoney ==
    /\ Returns(subs, subs')
    /\ order'.status = "DELETED" => order.status = "DELETED" \/ NoMoneyHeld(subs')

LEMMA FundInit == Init => FundInv
<1> SUFFICES ASSUME Init PROVE FundInv
    OBVIOUS
<1>1. TypeInv
    BY TypeInit
<1>2. Cents(subs, HOLDS_MONEY) = {}
    BY DEF Init, Cents, NoSubmission, HOLDS_MONEY
<1>3. FundCovered
    BY <1>2, FS_EmptySet DEF Init, NoOrder, FundCovered, spentByOrder
<1>4. RatedTogether /\ NothingHeld /\ ReadsAgree /\ PublishedBudgetPaid
    BY DEF Init, NoOrder, NoSubmission, RatedTogether, NothingHeld, NoMoneyHeld,
           ReadsAgree, PublishedBudgetPaid, HOLDS_MONEY, Null
<1> QED
    BY <1>1, <1>3, <1>4 DEF FundInv

LEMMA ReadsAreReads ==
    ASSUME FundInv, NEW seen \in Reads, Exists(seen.order)
    PROVE  seen.order \in Row /\ ReadOf(seen.order)
<1>1. seen.order \in Row
    BY ReadsTyped DEF FundInv, Read
<1>2. order \in Row
    BY DEF FundInv, TypeInv, TypeOK
<1>3. CASE seen \in stale
    BY <1>1, <1>3 DEF FundInv, ReadsAgree
<1>4. CASE seen = Now
    <2>1. seen.order = order
        BY <1>4 DEF Now, ReadBy
    <2>2. order.version <= order.version
        BY <1>2 DEF Row
    <2>3. order.status = "OPEN" => order.cpm # Null
        BY DEF FundInv, PublishedBudgetPaid, RatedTogether
    <2> QED
        BY <1>1, <2>1, <2>2, <2>3 DEF ReadOf
<1> QED
    BY <1>3, <1>4 DEF Reads

LEMMA QuietOrderKeeps ==
    ASSUME FundInv, QuietOrder
    PROVE  RatedTogether' /\ ReadsAgree' /\ PublishedBudgetPaid'
<1>1. RatedTogether'
    BY DEF FundInv, QuietOrder, RatedTogether
<1>2. PublishedBudgetPaid'
    BY DEF FundInv, QuietOrder, PublishedBudgetPaid, PUBLISHED
<1>3. ReadsAgree'
    BY DEF FundInv, QuietOrder, ReadsAgree, ReadOf
<1> QED
    BY <1>1, <1>2, <1>3

LEMMA QuietKeeps ==
    ASSUME FundInv, TypeInv', QuietOrder, QuietMoney
    PROVE  FundInv'
<1>1. RatedTogether' /\ ReadsAgree' /\ PublishedBudgetPaid'
    BY QuietOrderKeeps
<1>2. NoMoneyHeld(subs) => NoMoneyHeld(subs')
    BY DEF QuietMoney, NoMoneyHeld, Returns
<1>3. NothingHeld'
    BY <1>2 DEF FundInv, NothingHeld, QuietOrder, QuietMoney, NoMoneyHeld
<1>4. FundCovered'
    <2> DEFINE held == spentByOrder(subs, HOLDS_MONEY)
               left == spentByOrder(subs', HOLDS_MONEY)
    <2>1. left <= held /\ left \in Nat /\ held \in Nat
        BY ReturnedMoney, HeldType
        DEF FundInv, TypeInv, TypeOK, QuietMoney, CentsFinite, Cents
    <2>2. order \in Row
        BY DEF FundInv, TypeInv, TypeOK
    <2>3. /\ payoutPool(order.budget, FeePercent) \in Nat
          /\ payoutPool(order.approvedBudget, FeePercent) \in Nat
        BY <2>2, PoolType DEF Row
    <2>4. IF order.approvedBudget = Null THEN held = 0
          ELSE /\ held <= payoutPool(order.budget, FeePercent)
               /\ held <= payoutPool(order.approvedBudget, FeePercent)
        BY DEF FundInv, FundCovered
    <2> HIDE DEF held, left
    <2>5. IF order.approvedBudget = Null THEN left = 0
          ELSE /\ left <= payoutPool(order.budget, FeePercent)
               /\ left <= payoutPool(order.approvedBudget, FeePercent)
        BY <2>1, <2>3, <2>4
    <2> QED
        BY <2>5 DEF FundCovered, QuietOrder, left
<1> QED
    BY <1>1, <1>3, <1>4 DEF FundInv

\* The pause flag is no money term.
LEMMA SyncKeeps ==
    ASSUME NEW row \in Row, NEW ss
    PROVE  LET tt == syncFundBusy(row, ss)
               cc == closeIfExhausted(row, ss)
           IN  /\ tt.budget = row.budget /\ tt.approvedBudget = row.approvedBudget
               /\ tt.cpm = row.cpm /\ tt.version = row.version
               /\ tt.prevTerms = row.prevTerms /\ tt.status = row.status
               /\ cc.budget = row.budget /\ cc.approvedBudget = row.approvedBudget
               /\ cc.cpm = row.cpm /\ cc.version = row.version
               /\ cc.prevTerms = row.prevTerms
               /\ cc.status = row.status \/ (row.status = "OPEN" /\ cc.status = "CLOSED")
BY DEF syncFundBusy, closeIfExhausted, Row

\* A step that changes no row of submissions is quiet about money.
LEMMA SameRowsReturn == Returns(subs, subs)
BY DEF Returns

\* No money is held when nothing is, whatever rows there are.
LEMMA NoMoneyIsNone ==
    ASSUME NoMoneyHeld(subs)
    PROVE  spentByOrder(subs, HOLDS_MONEY) = 0
<1>1. Cents(subs, HOLDS_MONEY) = {}
    BY DEF NoMoneyHeld, Cents
<1> QED
    BY <1>1, FS_EmptySet DEF spentByOrder

LEMMA FundStep == FundInv /\ [Next]_vars => FundInv'
<1> SUFFICES ASSUME FundInv, [Next]_vars PROVE FundInv'
    OBVIOUS
<1>1. TypeInv /\ TypeInv'
    BY TypeStep DEF FundInv
<1>2. order \in Row /\ Rows(subs) /\ CentsFinite(subs)
    BY <1>1 DEF TypeInv, TypeOK, Rows
<1>3. order' \in Row /\ Rows(subs') /\ CentsFinite(subs')
    BY <1>1 DEF TypeInv, TypeOK, Rows, CentsFinite, Cents
<1> DEFINE held == spentByOrder(subs, HOLDS_MONEY)
           held1 == spentByOrder(subs', HOLDS_MONEY)
<1>4. held \in Nat /\ held1 \in Nat
    BY <1>2, <1>3, HeldType
<1>5. subs' = subs => held1 = held
    OBVIOUS
<1>6. ASSUME NEW b \in Nat PROVE payoutPool(b, FeePercent) \in Nat
    BY <1>6, PoolType
<1>7. RatedTogether /\ NothingHeld /\ ReadsAgree /\ PublishedBudgetPaid /\ FundCovered
    BY DEF FundInv
<1>8. /\ order.approvedBudget = Null => held = 0
      /\ order.approvedBudget # Null =>
            /\ held <= payoutPool(order.budget, FeePercent)
            /\ held <= payoutPool(order.approvedBudget, FeePercent)
    BY <1>7 DEF FundCovered
<1>9. ASSUME order'.approvedBudget = Null => held1 = 0,
             order'.approvedBudget # Null =>
                /\ held1 <= payoutPool(order'.budget, FeePercent)
                /\ held1 <= payoutPool(order'.approvedBudget, FeePercent)
      PROVE  FundCovered'
    BY <1>9 DEF FundCovered
<1> HIDE DEF held, held1
<1>10. ASSUME RatedTogether', NothingHeld', ReadsAgree', PublishedBudgetPaid', FundCovered'
       PROVE  FundInv'
    BY <1>1, <1>10 DEF FundInv
<1>11. ASSUME QuietOrder, QuietMoney PROVE FundInv'
    BY <1>1, <1>11, QuietKeeps
<1>12. CASE UNCHANGED vars
    BY <1>2, <1>7, <1>11, <1>12, SameRowsReturn
    DEF vars, QuietOrder, QuietMoney, RatedTogether
<1>13. ASSUME NEW o \in Offers, NEW b \in Budgets, Create(o, b)
       PROVE  FundInv'
    <2>1. NoMoneyHeld(subs) /\ stale = {}
        BY <1>7, <1>13 DEF Create, RatedTogether, NothingHeld
    <2>2. held1 = 0
        BY <1>5, <1>13, <2>1, NoMoneyIsNone DEF Create, held
    <2>3. FundCovered'
        BY <1>9, <1>13, <2>2 DEF Create
    <2>4. RatedTogether' /\ NothingHeld' /\ ReadsAgree' /\ PublishedBudgetPaid'
        BY <1>13, <2>1, MoneyAssumption
        DEF Create, RatedTogether, NothingHeld, NoMoneyHeld, ReadsAgree,
            PublishedBudgetPaid, Null
    <2> QED
        BY <1>10, <2>3, <2>4
<1>14. ASSUME NEW seen \in Reads, NEW o \in Offers, NEW b \in Budgets,
              NEW d \in BOOLEAN, Update(seen, o, b, d)
       PROVE  FundInv'
    <2>1. ReadOf(seen.order)
        BY <1>14, ReadsAreReads DEF Update
    <2>2. /\ order'.status = "PENDING_MODERATION" /\ order'.budget = b
          /\ order'.approvedBudget = order.approvedBudget /\ order'.cpm = order.cpm
          /\ order'.version = order.version + 1
          /\ order'.prevTerms = IF startsFreeze(seen.order) THEN termsOf(seen.order)
                                ELSE order.prevTerms
          /\ stale' \subseteq stale /\ subs' = subs
          /\ order.status # "NEW"
        BY <1>2, <1>14 DEF Update, Answered, Row, FROZEN
    <2>3. order'.prevTerms # NoTerms => order'.prevTerms.cpm # Null
        BY <1>7, <2>1, <2>2 DEF RatedTogether, ReadOf, startsFreeze, termsOf
    <2>4. b # Null /\ order.version \in Nat
        BY <1>2, MoneyAssumption DEF Row
    <2>5. RatedTogether' /\ PublishedBudgetPaid'
        BY <1>7, <2>2, <2>3, <2>4 DEF RatedTogether, PublishedBudgetPaid
    <2>6. NothingHeld'
        BY <1>7, <2>2 DEF NothingHeld, NoMoneyHeld
    <2>7. ReadsAgree'
        <3> SUFFICES ASSUME NEW r \in stale' PROVE ReadOf(r.order)'
            BY DEF ReadsAgree
        <3>1. ReadOf(r.order) /\ r.order.version \in Nat
            BY <1>1, <1>7, <2>2 DEF ReadsAgree, TypeInv, TypeOK, Read, Row
        <3>2. r.order.version # order'.version /\ r.order.version <= order'.version
            BY <2>2, <2>4, <3>1 DEF ReadOf
        <3> QED
            BY <2>2, <3>1, <3>2 DEF ReadOf
    <2>8. FundCovered'
        <3>1. held <= payoutPool(b, FeePercent)
            BY <1>4, <1>6, <1>14, MoneyAssumption DEF Update, held
        <3> QED
            BY <1>5, <1>8, <1>9, <2>2, <3>1
    <2> QED
        BY <1>10, <2>5, <2>6, <2>7, <2>8
<1>15. ASSUME NEW seen \in Reads, Close(seen)
       PROVE  FundInv'
    <2>1. ReadOf(seen.order)
        BY <1>15, ReadsAreReads DEF Close
    <2>2. subs' = subs \/ subs' = expireSlots(subs)
        BY <1>15 DEF Close
    <2>3. Returns(subs, subs')
        BY <1>2, <2>2, SameRowsReturn, ExpireSlotsKeeps
    <2>4. order'.status = "CLOSED"
        BY <1>2, <1>15, CancelEditType DEF Close, Row
    <2>5. stale' \subseteq stale
        BY <1>15 DEF Close, Answered
    <2>6. CASE ~isFrozen(seen.order)
        <3>1. QuietOrder
            BY <1>2, <1>7, <1>15, <2>4, <2>5, <2>6
            DEF Close, QuietOrder, Row, RatedTogether, PUBLISHED
        <3> QED
            BY <1>11, <2>3, <2>4, <3>1 DEF QuietMoney
    <2>7. CASE isFrozen(seen.order)
        <3>1. order.cpm # Null /\ order.approvedBudget # Null
            BY <1>7, <2>1, <2>7 DEF isFrozen, ReadOf, RatedTogether
        <3>2. order' = [cancelEdit(order) EXCEPT !.status = "CLOSED"] /\ order.status \in FROZEN
            BY <1>15, <2>7 DEF Close
        <3>3. /\ order'.budget = order.approvedBudget
              /\ order'.approvedBudget = order.approvedBudget
              /\ order'.version = order.version /\ order'.prevTerms = order.prevTerms
              /\ order'.cpm = IF order.prevTerms = NoTerms THEN order.cpm
                              ELSE order.prevTerms.cpm
            BY <1>2, <3>2, CancelEditType DEF Row
        <3>4. order'.cpm # Null
            BY <1>7, <3>1, <3>3 DEF RatedTogether
        <3>5. RatedTogether' /\ PublishedBudgetPaid'
            BY <1>7, <2>4, <3>1, <3>3, <3>4 DEF RatedTogether, PublishedBudgetPaid
        <3>6. NothingHeld'
            BY <2>4, <3>1, <3>3 DEF NothingHeld
        <3>7. ReadsAgree'
            BY <1>7, <2>4, <2>5, <3>3, <3>4 DEF ReadsAgree, ReadOf
        <3>8. held1 <= held
            BY <1>2, <1>3, <2>3, RowsReturned DEF held, held1
        <3>9. FundCovered'
            <4>1. payoutPool(order.approvedBudget, FeePercent) \in Nat
                BY <1>2, <1>6 DEF Row
            <4> QED
                BY <1>4, <1>8, <1>9, <3>1, <3>3, <3>8, <4>1
        <3> QED
            BY <1>10, <3>5, <3>6, <3>7, <3>9
    <2> QED
        BY <2>6, <2>7
<1>16. CASE Extend
    BY <1>2, <1>7, <1>11, <1>16, SameRowsReturn
    DEF Extend, QuietOrder, QuietMoney, RatedTogether, Row, PUBLISHED, history
<1>17. CASE Remove
    <2>1. NoMoneyHeld(subs') /\ Returns(subs, subs')
        BY <1>17 DEF Remove, NoMoneyHeld, Returns, NoSubmission, HOLDS_MONEY, NO_VIDEO
    <2>2. QuietOrder
        BY <1>2, <1>7, <1>17
        DEF Remove, Exists, QuietOrder, RatedTogether, Row, PUBLISHED, history
    <2> QED
        BY <1>11, <2>1, <2>2 DEF QuietMoney
<1>18. ASSUME NEW card \in Reads, NEW seen \in Reads, NEW rate \in Rates,
              ModeratorApprove(card, seen, rate)
       PROVE  FundInv'
    <2>1. Exists(card.order) /\ card.order.version <= seen.order.version
          /\ order.status = "PENDING_MODERATION" /\ order.version = card.order.version
        BY <1>18 DEF ModeratorApprove, CardBefore, sameVersion
    <2>2. ReadOf(seen.order) /\ seen.order \in Row
        <3>1. CASE Exists(seen.order)
            BY <3>1, ReadsAreReads
        <3>2. CASE ~Exists(seen.order)
            <4>1. seen = Now
                BY <1>7, <3>2 DEF Reads, ReadsAgree, ReadOf
            <4> QED
                BY <2>1, <3>2, <4>1 DEF Now, ReadBy, Exists
        <3> QED
            BY <3>1, <3>2
    <2>3. seen.order.version = order.version /\ seen.order.budget = order.budget
        <3>1. seen.order.version <= order.version
            BY <2>2 DEF ReadOf
        <3>2. seen.order.version = order.version
            BY <1>2, <2>1, <2>2, <3>1 DEF Row
        <3> QED
            BY <2>1, <2>2, <3>2 DEF ReadOf
    <2> DEFINE st == IF exhausted(seen.order.budget, FeePercent, rate,
                                  seen.order.offer.minViews, spentByOrder(subs, ACCRUED))
                     THEN "CLOSED" ELSE "OPEN"
               row == [[order EXCEPT !.approvedBudget = seen.order.budget, !.cpm = rate]
                        EXCEPT !.status = st]
    <2>4. order' = syncFundBusy(row, subs) /\ subs' = subs /\ stale' \subseteq stale
        BY <1>18 DEF ModeratorApprove, Answered
    <2>5. st \in {"OPEN", "CLOSED"}
        OBVIOUS
    <2> HIDE DEF st
    <2>6. rate \in Nat /\ rate # Null
        BY MoneyAssumption
    <2>7. /\ row \in Row /\ row.budget = order.budget /\ row.approvedBudget = order.budget
          /\ row.cpm = rate /\ row.version = order.version
          /\ row.prevTerms = order.prevTerms /\ row.status = st
        BY <1>2, <2>3, <2>5, <2>6 DEF Row, OrderStatus
    <2> HIDE DEF row
    <2>8. /\ order'.budget = order.budget /\ order'.approvedBudget = order.budget
          /\ order'.cpm = rate /\ order'.version = order.version
          /\ order'.prevTerms = order.prevTerms /\ order'.status \in {"OPEN", "CLOSED"}
        BY <2>4, <2>5, <2>7, SyncKeeps
    <2>9. order.budget # Null /\ order.budget \in Nat
        BY <1>2, <1>7, <2>1 DEF RatedTogether, Row
    <2>10. RatedTogether' /\ PublishedBudgetPaid' /\ NothingHeld'
        BY <1>7, <2>6, <2>8, <2>9
        DEF RatedTogether, PublishedBudgetPaid, NothingHeld
    <2>11. ReadsAgree'
        BY <1>7, <2>4, <2>6, <2>8 DEF ReadsAgree, ReadOf
    <2>12. FundCovered'
        <3>1. payoutPool(order.budget, FeePercent) \in Nat
            BY <1>6, <2>9
        <3>2. held <= payoutPool(order.budget, FeePercent)
            BY <1>4, <1>8, <3>1
        <3> QED
            BY <1>5, <1>9, <2>4, <2>8, <2>9, <3>2
    <2> QED
        BY <1>10, <2>10, <2>11, <2>12
<1>19. ASSUME NEW card \in Reads, NEW seen \in Reads, ModeratorReject(card, seen)
       PROVE  FundInv'
    BY <1>2, <1>7, <1>11, <1>19, SameRowsReturn
    DEF ModeratorReject, Answered, QuietOrder, QuietMoney, RatedTogether, Row, PUBLISHED,
        history
<1>20. CASE ModeratorClose
    <2>1. subs' = subs \/ subs' = expireSlots(subs)
        BY <1>20 DEF ModeratorClose
    <2>2. Returns(subs, subs')
        BY <1>2, <2>1, SameRowsReturn, ExpireSlotsKeeps
    <2>3. order.prevTerms \in Terms \cup {NoTerms}
        BY <1>2 DEF Row
    <2> DEFINE offer == withoutLink(order.offer)
               terms == unlinked(order.prevTerms)
    <2>4. PICK st : /\ order' = [order EXCEPT !.offer = offer, !.prevTerms = terms,
                                              !.status = st]
                    /\ \/ st = order.status
                       \/ order.status \in {"OPEN", "EXPIRED"} /\ st = "CLOSED"
        BY <1>20 DEF ModeratorClose
    <2> HIDE DEF offer, terms
    <2>5. /\ order'.prevTerms = terms /\ order'.status = st
          /\ order'.budget = order.budget /\ order'.approvedBudget = order.approvedBudget
          /\ order'.cpm = order.cpm /\ order'.version = order.version
          /\ stale' = stale
        BY <1>2, <1>20, <2>4 DEF ModeratorClose, Row
    <2>6. order'.prevTerms # NoTerms => order'.prevTerms.cpm # Null
        BY <1>7, <2>3, <2>5, UnlinkedType DEF RatedTogether, terms
    <2>7. QuietOrder
        BY <2>4, <2>6, <2>5 DEF QuietOrder, PUBLISHED
    <2> QED
        BY <1>11, <2>2, <2>4, <2>7, <2>5 DEF QuietMoney
<1>21. CASE BanAdvertiser
    <2> DEFINE burnt == expireSlots(subs)
    <2>1. Rows(burnt) /\ Returns(subs, burnt)
        BY <1>2, ExpireSlotsKeeps
    <2>2. Returns(subs, rejectSubmitted(burnt, Creator))
        BY <2>1, RejectSubmittedKeeps, ReturnsTwice
    <2>3. Returns(subs, subs')
        BY <1>21, <2>1, <2>2 DEF BanAdvertiser
    <2>4. QuietOrder
        BY <1>2, <1>7, <1>21
        DEF BanAdvertiser, QuietOrder, RatedTogether, Row, PUBLISHED, FROZEN
    <2>5. order'.status # "DELETED"
        BY <1>2, <1>21 DEF BanAdvertiser, Row
    <2> QED
        BY <1>11, <2>3, <2>4, <2>5 DEF QuietMoney
<1>22. ASSUME order' = order, stale' \subseteq stale PROVE QuietOrder
    BY <1>7, <1>22 DEF QuietOrder, RatedTogether
<1>23. ASSUME NEW ss, order' = syncFundBusy(order, ss), stale' \subseteq stale
       PROVE  QuietOrder /\ order'.status = order.status
    BY <1>2, <1>7, <1>23, SyncKeeps DEF QuietOrder, RatedTogether
<1>24. ASSUME NEW s \in Sub, NEW sub, subs' = [subs EXCEPT ![s] = sub],
              \/ sub.status \notin HOLDS_MONEY
              \/ /\ subs[s].status \in HOLDS_MONEY
                 /\ sub.payout = subs[s].payout
       PROVE  Returns(subs, subs')
    BY <1>2, <1>24, OneRowReturns
<1>25. ASSUME NEW seen \in Reads, NEW s \in Sub, Claim(seen, s)
       PROVE  FundInv'
    <2> DEFINE sub == [subs[s] EXCEPT !.status = "IN_PROGRESS"]
    <2>1. subs' = [subs EXCEPT ![s] = sub] /\ order' = order /\ stale' \subseteq stale
        BY <1>25 DEF Claim, Answered
    <2>2. sub.status \notin HOLDS_MONEY
        BY <1>2 DEF Rows, Submission, HOLDS_MONEY
    <2> HIDE DEF sub
    <2> QED
        BY <1>11, <1>22, <1>24, <2>1, <2>2 DEF QuietMoney
<1>26. ASSUME NEW seen \in Reads, NEW s \in Sub, NEW v \in Video, NEW n \in ViewCounts,
              AttachVideo(seen, s, v, n)
       PROVE  FundInv'
    <2> DEFINE left == Free(order, subs)
               reserve == payoutFor(order.offer.minViews, order.cpm)
               paid == IF payoutFor(n, order.cpm) > left THEN left ELSE reserve
               sub == [subs[s] EXCEPT !.status = "SUBMITTED", !.video = v, !.views = n,
                                      !.payout = paid, !.terms = termsOf(order)]
    <2>1. /\ subs' = [subs EXCEPT ![s] = sub] /\ order' = syncFundBusy(order, subs')
          /\ stale' \subseteq stale /\ order.status \in ACCEPTS_VIDEOS
          /\ ~ExhaustedBy(order, subs, HOLDS_MONEY)
        BY <1>26 DEF AttachVideo, Answered
    <2>2. QuietOrder /\ order'.status = order.status
        BY <1>23, <2>1
    <2>3. RatedTogether' /\ ReadsAgree' /\ PublishedBudgetPaid'
        BY <2>2, QuietOrderKeeps
    <2>4. order.approvedBudget # Null /\ order.budget = order.approvedBudget
        BY <1>7, <2>1 DEF PublishedBudgetPaid, ACCEPTS_VIDEOS
    <2>5. NothingHeld'
        BY <2>1, <2>2, <2>4 DEF NothingHeld, QuietOrder, ACCEPTS_VIDEOS
    <2> DEFINE pool == payoutPool(order.budget, FeePercent)
    <2>6. fundOf(order) = order.budget
        BY <2>1 DEF fundOf, isFrozen, FROZEN, ACCEPTS_VIDEOS
    <2>7. pool \in Nat
        BY <1>2, <1>6 DEF Row
    <2>8. held <= pool
        BY <1>8, <2>4
    <2>9. left = Greater(0, pool - held)
        BY <2>6 DEF Free, free, held
    <2>10. left \in Nat /\ reserve \in Nat
        BY <1>2, FreeType, PayoutType, OffersAssumption DEF Row
    <2>11. ~(left < reserve)
        BY <2>1 DEF ExhaustedBy, exhausted, Free
    <2> HIDE DEF left, reserve, pool
    <2>12. reserve <= left
        BY <2>10, <2>11
    <2>13. left = pool - held
        BY <1>4, <2>7, <2>8, <2>9 DEF Greater
    <2>14. paid \in Nat /\ paid <= left
        BY <2>10, <2>12
    <2> HIDE DEF paid
    <2>15. sub.payout = paid /\ sub \in Submission /\ WellFormed(sub)
           /\ sub.status \in HOLDS_MONEY
        <3>1. subs'[s] = sub
            BY <1>2, <2>1 DEF Rows
        <3>2. sub \in Submission /\ WellFormed(sub)
            BY <1>3, <3>1 DEF Rows
        <3>3. sub.payout = paid /\ sub.status = "SUBMITTED"
            BY <1>2 DEF Rows, Submission
        <3> QED
            BY <3>2, <3>3 DEF HOLDS_MONEY
    <2> HIDE DEF sub
    <2>16. held1 <= held + paid
        BY <1>2, <2>1, <2>15, OneRowHolds DEF held, held1
    <2>17. held1 <= pool
        BY <1>4, <2>7, <2>10, <2>14, <2>16, <2>13
    <2>18. FundCovered'
        BY <1>9, <2>2, <2>4, <2>17 DEF QuietOrder, pool
    <2> QED
        BY <1>10, <2>3, <2>5, <2>18
<1>27. ASSUME NEW c \in Creator, BanCreator(c)
       PROVE  FundInv'
    <2> DEFINE slotless == deleteInProgress(subs, c)
    <2>1. Rows(slotless) /\ Returns(subs, slotless)
        BY <1>2, DeleteInProgressKeeps
    <2>2. Returns(subs, rejectSubmitted(slotless, {c}))
        BY <2>1, RejectSubmittedKeeps, ReturnsTwice
    <2>3. Returns(subs, subs')
        BY <1>27, <2>2 DEF BanCreator
    <2>4. /\ order' = order \/ order' = syncFundBusy(order, subs')
          /\ stale' \subseteq stale
        BY <1>27 DEF BanCreator, history
    <2>5. QuietOrder /\ order'.status = order.status
        BY <1>22, <1>23, <2>4
    <2> QED
        BY <1>11, <2>3, <2>5 DEF QuietMoney
<1>28. ASSUME NEW s \in Sub, NEW n \in ViewCounts, ApproveVideo(s, n)
       PROVE  FundInv'
    <2> DEFINE earned == payoutFor(n, videoTerms(order, subs[s]).cpm)
               limit == Free(order, subs) + subs[s].payout
               paid == Lesser(earned, limit)
               sub == [subs[s] EXCEPT !.status = "MODERATOR_APPROVED", !.views = n,
                                      !.counted = n,
                                      !.payout = paid]
    <2>1. /\ subs' = [subs EXCEPT ![s] = sub]
          /\ order' = syncFundBusy(closeIfExhausted(order, subs'), subs')
          /\ stale' = stale /\ subs[s].status = "SUBMITTED" /\ order.status # "REJECTED"
        BY <1>28 DEF ApproveVideo
    <2>2. closeIfExhausted(order, subs') \in Row
        BY <1>2, SyncType
    <2>3. QuietOrder /\ (order'.status = "DELETED" => order.status = "DELETED")
        BY <1>2, <1>7, <2>1, <2>2, SyncKeeps DEF QuietOrder, RatedTogether, PUBLISHED
    <2>4. RatedTogether' /\ ReadsAgree' /\ PublishedBudgetPaid'
        BY <2>3, QuietOrderKeeps
    <2>5. order.approvedBudget # Null /\ order.status # "DELETED" /\ order.cpm # Null
        BY <1>7, <2>1 DEF NothingHeld, NoMoneyHeld, HOLDS_MONEY, RatedTogether
    <2>6. NothingHeld'
        BY <2>3, <2>5 DEF NothingHeld, QuietOrder
    <2> DEFINE pool(b) == payoutPool(b, FeePercent)
               fund == fundOf(order)
    <2>7. order.budget \in Nat /\ order.approvedBudget \in Nat
        BY <1>2 DEF Row
    <2>8. fund \in Nat /\ fund <= order.budget /\ fund <= order.approvedBudget
        <3>1. CASE order.status \in FROZEN
            BY <2>5, <2>7, <3>1 DEF fundOf, isFrozen, Lesser
        <3>2. CASE order.status \notin FROZEN
            <4>1. order.status \in PUBLISHED
                BY <1>2, <1>7, <2>1, <2>5, <3>2
                DEF Row, OrderStatus, FROZEN, PUBLISHED, RatedTogether
            <4>2. order.budget = order.approvedBudget
                BY <1>7, <4>1 DEF PublishedBudgetPaid, PUBLISHED
            <4> QED
                BY <2>7, <3>2, <4>2 DEF fundOf, isFrozen
        <3> QED
            BY <3>1, <3>2
    <2>9. /\ pool(fund) \in Nat /\ pool(order.budget) \in Nat
          /\ pool(order.approvedBudget) \in Nat
          /\ pool(fund) <= pool(order.budget) /\ pool(fund) <= pool(order.approvedBudget)
        BY <1>6, <2>7, <2>8, PoolMonotone
    <2>10. Free(order, subs) = Greater(0, pool(fund) - held)
        BY DEF Free, free, held
    <2>11. held <= pool(order.budget) /\ held <= pool(order.approvedBudget)
        BY <1>7, <1>8, <2>5
    <2> HIDE DEF pool, fund
    <2>12. held + Free(order, subs) <= pool(order.budget)
           /\ held + Free(order, subs) <= pool(order.approvedBudget)
           /\ Free(order, subs) \in Nat
        BY <1>4, <2>9, <2>10, <2>11 DEF Greater
    <2>13. subs[s].payout \in Nat /\ subs[s].terms \in Terms
        BY <1>2, <2>1 DEF Rows, Submission, WellFormed, HOLDS_MONEY
    <2>14. earned \in Nat
        BY <2>13, PayoutType, MoneyAssumption DEF videoTerms, Terms
    <2>15. paid \in Nat /\ paid <= Free(order, subs) + subs[s].payout
        BY <2>12, <2>13, <2>14 DEF Lesser
    <2> HIDE DEF paid
    <2>16. /\ subs'[s] = sub /\ \A t \in Sub \ {s} : subs'[t] = subs[t]
           /\ sub.payout = paid /\ sub.status = "MODERATOR_APPROVED"
        BY <1>2, <2>1 DEF Rows, Submission
    <2> HIDE DEF sub
    <2>17. /\ subs[s].payout <= held
           /\ held1 <= held - subs[s].payout + paid
        BY <1>2, <1>3, <2>1, <2>16, SettledMoney DEF Rows, HOLDS_MONEY, held, held1
    <2>18. held1 <= pool(order.budget) /\ held1 <= pool(order.approvedBudget)
        BY <1>4, <2>9, <2>12, <2>13, <2>15, <2>17
    <2>19. FundCovered'
        BY <1>9, <2>3, <2>5, <2>18 DEF QuietOrder, pool
    <2> QED
        BY <1>10, <2>4, <2>6, <2>19
<1>29. ASSUME NEW s \in Sub, NEW i \in BOOLEAN, RejectVideo(s, i)
       PROVE  FundInv'
    <2> DEFINE sub == [subs[s] EXCEPT !.status = "MODERATOR_REJECTED", !.payout = 0,
                                      !.inflated = i]
    <2>1. /\ subs' = [subs EXCEPT ![s] = sub] /\ order' = syncFundBusy(order, subs')
          /\ stale' = stale
        BY <1>29 DEF RejectVideo
    <2>2. sub.status \notin HOLDS_MONEY
        BY <1>2 DEF Rows, Submission, HOLDS_MONEY
    <2> HIDE DEF sub
    <2> QED
        BY <1>11, <1>23, <1>24, <2>1, <2>2 DEF QuietMoney
<1>30. ASSUME NEW s \in Sub, PublicationDeleted(s)
       PROVE  FundInv'
    <2> DEFINE sub == [subs[s] EXCEPT !.status = "MODERATOR_REJECTED", !.payout = 0]
    <2>1. /\ subs' = [subs EXCEPT ![s] = sub] /\ order' = syncFundBusy(order, subs')
          /\ stale' = stale
        BY <1>30 DEF PublicationDeleted
    <2>2. sub.status \notin HOLDS_MONEY
        BY <1>2 DEF Rows, Submission, HOLDS_MONEY
    <2> HIDE DEF sub
    <2> QED
        BY <1>11, <1>23, <1>24, <2>1, <2>2 DEF QuietMoney
<1>31. ASSUME NEW s \in Sub, NEW n \in ViewCounts, FinalizeViews(s, n)
       PROVE  FundInv'
    <2> DEFINE sub == [subs[s] EXCEPT !.views = n, !.finalized = TRUE]
    <2>1. subs' = [subs EXCEPT ![s] = sub] /\ order' = order /\ stale' \subseteq stale
        BY <1>31 DEF FinalizeViews
    <2>2. subs[s].status \in HOLDS_MONEY /\ sub.payout = subs[s].payout
        BY <1>2, <1>31 DEF FinalizeViews, Rows, Submission, HOLDS_MONEY
    <2> HIDE DEF sub
    <2> QED
        BY <1>11, <1>22, <1>24, <2>1, <2>2 DEF QuietMoney
<1>32. CASE Expire
    BY <1>2, <1>7, <1>11, <1>32, SameRowsReturn
    DEF Expire, QuietOrder, QuietMoney, RatedTogether, Row, PUBLISHED, history
<1>33. ASSUME NEW s \in Sub, ExpireSlot(s)
       PROVE  FundInv'
    <2> DEFINE sub == [subs[s] EXCEPT !.status = "SLOT_EXPIRED"]
    <2>1. subs' = [subs EXCEPT ![s] = sub] /\ order' = order /\ stale' \subseteq stale
        BY <1>33 DEF ExpireSlot
    <2>2. sub.status \notin HOLDS_MONEY
        BY <1>2 DEF Rows, Submission, HOLDS_MONEY
    <2> HIDE DEF sub
    <2> QED
        BY <1>11, <1>22, <1>24, <2>1, <2>2 DEF QuietMoney
<1>34. CASE ReadRows
    <2>1. /\ order' = order /\ subs' = subs /\ Exists(order)
          /\ \E r \in 1..MaxStale : stale' = stale \cup {ReadBy(r)}
        BY <1>34 DEF ReadRows
    <2>2. ReadOf(order)
        <3>1. Now \in Reads /\ Now.order = order
            BY DEF Reads, Now, ReadBy
        <3> QED
            BY <2>1, <3>1, ReadsAreReads
    <2>3. ReadsAgree'
        BY <1>7, <2>1, <2>2 DEF ReadsAgree, ReadOf, ReadBy
    <2>4. RatedTogether' /\ NothingHeld' /\ PublishedBudgetPaid'
        BY <1>7, <2>1
        DEF RatedTogether, NothingHeld, NoMoneyHeld, PublishedBudgetPaid, Exists
    <2>5. FundCovered'
        BY <1>5, <1>7, <1>8, <1>9, <2>1
    <2> QED
        BY <1>10, <2>3, <2>4, <2>5
<1>35. ASSUME NEW seen \in stale, GiveUp(seen)
       PROVE  FundInv'
    <2>1. order' = order /\ subs' = subs /\ stale' \subseteq stale
        BY <1>35 DEF GiveUp, Answered
    <2> QED
        BY <1>11, <1>22, <2>1, SameRowsReturn DEF QuietMoney
<1> QED
    BY <1>12, <1>13, <1>14, <1>15, <1>16, <1>17, <1>18, <1>19, <1>20, <1>21, <1>25,
       <1>26, <1>27, <1>28, <1>29, <1>30, <1>31, <1>32, <1>33, <1>34, <1>35
    DEF Next, Advertiser, OrderModeration, Creators, VideoModeration, Jobs, Requests

\* Whatever requests interleave, reserves and accruals fit the pool of the
\* current and of the approved budget (lockBudget, fundOf and closeIfExhausted in
\* submissions.service.ts, the spent check of update in orders.service.ts).
THEOREM FundAlwaysCovered == Spec => []FundCovered
<1>1. FundInv => FundCovered
    BY DEF FundInv
<1> QED
    BY <1>1, FundInit, FundStep, PTL DEF Spec

\* No order reaches creators on a budget that no moderator approved
\* (moderatorApprove, and the rollback of close, in orders.service.ts).
THEOREM PublishedAlwaysPaid == Spec => []PublishedBudgetPaid
<1>1. FundInv => PublishedBudgetPaid
    BY DEF FundInv
<1> QED
    BY <1>1, FundInit, FundStep, PTL DEF Spec

-----------------------------------------------------------------------------
(* Creators are paid at the terms they took the order at.  The fairness of *)
(* a row is inductive by itself: only the submission and the approval of a *)
(* video set a payout, and both are bounded from below by the price of the *)
(* threshold.                                                              *)

\* More views never earn less.
LEMMA PayoutMonotone ==
    ASSUME NEW v \in Nat, NEW w \in Nat, NEW c \in Nat, v <= w
    PROVE  payoutFor(v, c) <= payoutFor(w, c)
<1>1. v * c \in Nat /\ w * c \in Nat /\ v * c <= w * c
    <2>1. w * c = v * c + (w - v) * c
        OBVIOUS
    <2>2. (w - v) * c \in Nat
        <3>1. w - v \in Nat
            OBVIOUS
        <3> QED
            BY <3>1
    <2> QED
        BY <2>1, <2>2
<1> DEFINE x == v * c
           y == w * c
<1>2. x \in Nat /\ y \in Nat /\ x <= y
    BY <1>1
<1> HIDE DEF x, y
<1>3. x \div 1000 <= y \div 1000
    BY <1>2
<1> QED
    BY <1>3 DEF x, y, payoutFor

FairRow(sub) ==
    /\ sub.status \in HOLDS_MONEY =>
          sub.payout >= payoutFor(sub.terms.offer.minViews, sub.terms.cpm)
    /\ sub.status = "MODERATOR_APPROVED" =>
          sub.payout <= payoutFor(sub.counted, sub.terms.cpm)

LEMMA FairRows == PayoutFair <=> \A s \in Sub : FairRow(subs[s])
BY DEF PayoutFair, FairRow

\* Rows that hold money afterwards are as they were.
Untouched(ss, tt) == \A s \in Sub : tt[s] = ss[s] \/ tt[s].status \notin HOLDS_MONEY

LEMMA UntouchedFair ==
    ASSUME PayoutFair, Untouched(subs, subs')
    PROVE  PayoutFair'
<1>1. ASSUME NEW s \in Sub PROVE FairRow(subs'[s])
    BY FairRows DEF Untouched, FairRow, HOLDS_MONEY
<1> QED
    BY <1>1 DEF PayoutFair, FairRow

\* One row is put in place.
LEMMA OneRowFair ==
    ASSUME PayoutFair, NEW s \in Sub, NEW sub,
           subs \in [Sub -> Submission],
           subs' = [subs EXCEPT ![s] = sub], FairRow(sub)
    PROVE  PayoutFair'
<1>1. ASSUME NEW t \in Sub PROVE FairRow(subs'[t])
    BY FairRows
<1> QED
    BY <1>1 DEF PayoutFair, FairRow

LEMMA HelpersLeave ==
    ASSUME Rows(subs)
    PROVE  /\ Untouched(subs, expireSlots(subs))
           /\ \A who : Untouched(subs, rejectSubmitted(expireSlots(subs), who))
           /\ \A c, who : Untouched(subs, rejectSubmitted(deleteInProgress(subs, c), who))
BY DEF Untouched, expireSlots, rejectSubmitted, deleteInProgress, HOLDS_MONEY, Rows, Submission

LEMMA FairStep ==
    ASSUME TypeInv, PayoutFair, [Next]_vars
    PROVE  PayoutFair'
<1>1. /\ Rows(subs) /\ order \in Row /\ subs \in [Sub -> Submission] /\ CentsFinite(subs)
    BY DEF TypeInv, TypeOK, Rows
<1>2. ASSUME subs' = subs PROVE PayoutFair'
    BY <1>2 DEF PayoutFair
<1>3. ASSUME subs' = expireSlots(subs) PROVE PayoutFair'
    BY <1>1, <1>3, HelpersLeave, UntouchedFair
<1>4. ASSUME NEW s \in Sub, NEW sub, subs' = [subs EXCEPT ![s] = sub],
             sub.status \notin HOLDS_MONEY
      PROVE  PayoutFair'
    BY <1>1, <1>4, UntouchedFair DEF Untouched
<1>5. CASE Advertiser
    <2>1. CASE \E o \in Offers, b \in Budgets : Create(o, b)
        BY <1>2, <2>1 DEF Create
    <2>2. CASE \E seen \in Reads, o \in Offers, b \in Budgets, d \in BOOLEAN :
                  Update(seen, o, b, d)
        BY <1>2, <2>2 DEF Update
    <2>3. CASE \E seen \in Reads : Close(seen)
        BY <1>2, <1>3, <2>3 DEF Close
    <2>4. CASE Extend
        BY <1>2, <2>4 DEF Extend
    <2>5. CASE Remove
        <3>1. \A s \in Sub : subs'[s] = subs[s] \/ subs'[s].status = "DELETED"
            BY <2>5 DEF Remove, NoSubmission
        <3> QED
            BY <3>1, UntouchedFair DEF Untouched, HOLDS_MONEY
    <2> QED
        BY <1>5, <2>1, <2>2, <2>3, <2>4, <2>5 DEF Advertiser
<1>6. CASE OrderModeration
    <2>1. CASE \E card, seen \in Reads, rate \in Rates : ModeratorApprove(card, seen, rate)
        BY <1>2, <2>1 DEF ModeratorApprove
    <2>2. CASE \E card, seen \in Reads : ModeratorReject(card, seen)
        BY <1>2, <2>2 DEF ModeratorReject
    <2>3. CASE ModeratorClose
        BY <1>2, <1>3, <2>3 DEF ModeratorClose
    <2>4. CASE BanAdvertiser
        BY <1>1, <1>3, <2>4, HelpersLeave, UntouchedFair DEF BanAdvertiser
    <2> QED
        BY <1>6, <2>1, <2>2, <2>3, <2>4 DEF OrderModeration
<1>7. CASE Creators
    <2>1. CASE \E seen \in Reads, s \in Sub : Claim(seen, s)
        <3>1. PICK seen \in Reads, s \in Sub : Claim(seen, s)
            BY <2>1
        <3>2. Untouched(subs, subs')
            BY <1>1, <3>1 DEF Claim, Untouched, HOLDS_MONEY, Submission
        <3> QED
            BY <3>2, UntouchedFair
    <2>2. CASE \E seen \in Reads, s \in Sub, v \in Video, n \in ViewCounts :
                  AttachVideo(seen, s, v, n)
        <3>1. PICK seen \in Reads, s \in Sub, v \in Video, n \in ViewCounts :
                  AttachVideo(seen, s, v, n)
            BY <2>2
        <3> DEFINE left == Free(order, subs)
                   reserve == payoutFor(order.offer.minViews, order.cpm)
                   paid == IF payoutFor(n, order.cpm) > left THEN left ELSE reserve
                   sub == [subs[s] EXCEPT !.status = "SUBMITTED", !.video = v, !.views = n,
                                          !.payout = paid, !.terms = termsOf(order)]
        <3>2. subs' = [subs EXCEPT ![s] = sub]
            BY <3>1 DEF AttachVideo
        <3>3. left >= reserve
            <4>1. ~ExhaustedBy(order, subs, HOLDS_MONEY)
                BY <3>1 DEF AttachVideo
            <4>2. ~(left < reserve)
                BY <4>1 DEF ExhaustedBy, exhausted, Free
            <4>3. left \in Nat
                BY <1>1, FreeType
            <4>4. reserve \in Nat
                BY <1>1, OffersAssumption, PayoutType DEF Row
            <4> HIDE DEF left, reserve
            <4> QED
                BY <4>2, <4>3, <4>4
        <3>4. reserve \in Nat
            BY <1>1, OffersAssumption, PayoutType DEF Row
        <3>5. /\ sub.status = "SUBMITTED" /\ sub.payout = paid
              /\ sub.terms.offer.minViews = order.offer.minViews
              /\ sub.terms.cpm = order.cpm
            BY <1>1 DEF Submission, termsOf
        <3>6. FairRow(sub)
            <4>1. paid >= reserve
                BY <3>3, <3>4
            <4> HIDE DEF paid, sub, left
            <4> QED
                BY <3>5, <4>1 DEF FairRow
        <3> HIDE DEF sub
        <3> QED
            BY <1>1, <3>2, <3>6, OneRowFair
    <2>3. CASE \E c \in Creator : BanCreator(c)
        BY <1>1, <2>3, HelpersLeave, UntouchedFair DEF BanCreator
    <2> QED
        BY <1>7, <2>1, <2>2, <2>3 DEF Creators
<1>8. CASE VideoModeration
    <2>1. CASE \E s \in Sub, n \in ViewCounts : ApproveVideo(s, n)
        <3>1. PICK s \in Sub, n \in ViewCounts : ApproveVideo(s, n)
            BY <2>1
        <3> DEFINE terms == subs[s].terms
                   earned == payoutFor(n, terms.cpm)
                   price == payoutFor(terms.offer.minViews, terms.cpm)
                   room == Free(order, subs) + subs[s].payout
                   sub == [subs[s] EXCEPT !.status = "MODERATOR_APPROVED", !.views = n,
                                          !.counted = n,
                                          !.payout = Lesser(earned, room)]
        <3>2. /\ subs' = [subs EXCEPT ![s] = sub] /\ subs[s].status = "SUBMITTED"
              /\ n >= terms.offer.minViews
            BY <3>1 DEF ApproveVideo, videoTerms
        <3>3. terms \in Terms /\ terms.offer.minViews \in Nat /\ terms.cpm \in Nat
            BY <1>1, <3>2, OffersAssumption DEF Rows, WellFormed, Submission, HOLDS_MONEY, Terms
        <3>4. n \in Nat /\ subs[s].payout \in Nat /\ Free(order, subs) \in Nat
            BY <1>1, <3>1, FreeType, MoneyAssumption DEF Submission
        <3>5. earned \in Nat /\ price \in Nat /\ price <= earned
            BY <3>2, <3>3, <3>4, PayoutType, PayoutMonotone
        <3>6. subs[s].payout >= price
            BY <3>2 DEF PayoutFair, HOLDS_MONEY
        <3>7. /\ sub.status = "MODERATOR_APPROVED" /\ sub.payout = Lesser(earned, room)
              /\ sub.counted = n /\ sub.terms = terms
            BY <1>1 DEF Submission
        <3> HIDE DEF terms, earned, price, sub
        <3>8. Lesser(earned, room) >= price /\ Lesser(earned, room) <= earned
            BY <3>4, <3>5, <3>6 DEF Lesser
        <3> HIDE DEF room
        <3>9. FairRow(sub)
            BY <3>7, <3>8 DEF FairRow, earned, price
        <3> QED
            BY <1>1, <3>2, <3>9, OneRowFair
    <2>2. CASE \E s \in Sub, i \in BOOLEAN : RejectVideo(s, i)
        <3>1. PICK s \in Sub, i \in BOOLEAN : RejectVideo(s, i)
            BY <2>2
        <3>2. Untouched(subs, subs')
            BY <1>1, <3>1 DEF RejectVideo, Untouched, HOLDS_MONEY, Submission
        <3> QED
            BY <3>2, UntouchedFair
    <2>3. CASE \E s \in Sub : PublicationDeleted(s)
        <3>1. PICK s \in Sub : PublicationDeleted(s)
            BY <2>3
        <3>2. Untouched(subs, subs')
            BY <1>1, <3>1 DEF PublicationDeleted, Untouched, HOLDS_MONEY, Submission
        <3> QED
            BY <3>2, UntouchedFair
    <2>4. CASE \E s \in Sub, n \in ViewCounts : FinalizeViews(s, n)
        <3>1. PICK s \in Sub, n \in ViewCounts : FinalizeViews(s, n)
            BY <2>4
        <3> DEFINE sub == [subs[s] EXCEPT !.views = n, !.finalized = TRUE]
        <3>2. subs' = [subs EXCEPT ![s] = sub]
            BY <3>1 DEF FinalizeViews
        <3>3. /\ sub.status = subs[s].status /\ sub.payout = subs[s].payout
              /\ sub.counted = subs[s].counted /\ sub.terms = subs[s].terms
            BY <1>1 DEF Submission
        <3>4. FairRow(subs[s])
            BY FairRows
        <3> HIDE DEF sub
        <3>5. FairRow(sub)
            BY <3>3, <3>4 DEF FairRow
        <3> QED
            BY <1>1, <3>2, <3>5, OneRowFair
    <2> QED
        BY <1>8, <2>1, <2>2, <2>3, <2>4 DEF VideoModeration
<1>9. CASE Jobs
    <2>1. CASE Expire
        BY <1>2, <2>1 DEF Expire
    <2>2. CASE \E s \in Sub : ExpireSlot(s)
        <3>1. PICK s \in Sub : ExpireSlot(s)
            BY <2>2
        <3>2. Untouched(subs, subs')
            BY <1>1, <3>1 DEF ExpireSlot, Untouched, HOLDS_MONEY, Submission
        <3> QED
            BY <3>2, UntouchedFair
    <2> QED
        BY <1>9, <2>1, <2>2 DEF Jobs
<1>10. CASE Requests
    BY <1>2, <1>10 DEF Requests, ReadRows, GiveUp
<1>11. CASE UNCHANGED vars
    BY <1>2, <1>11 DEF vars
<1> QED
    BY <1>5, <1>6, <1>7, <1>8, <1>9, <1>10, <1>11 DEF Next

\* However an order is edited, what is held for a video covers its threshold at
\* the rate it was submitted at, and an accrual is no more than the views it was
\* approved at earn, whatever count ends the hold (videoTerms, lockBudget,
\* attachVideo, moderatorApprove and finalizeViews in submissions.service.ts).
THEOREM PayoutAlwaysFair == Spec => []PayoutFair
<1>1. Init => PayoutFair
    BY DEF Init, NoSubmission, PayoutFair, HOLDS_MONEY
<1>2. TypeInv /\ PayoutFair /\ [Next]_vars => PayoutFair'
    BY FairStep
<1> QED
    BY <1>1, <1>2, TypeInit, TypeStep, PTL DEF Spec

-----------------------------------------------------------------------------
(* OrderFund implements FundLedger.  FundInv says that every step leaves   *)
(* the promises covered; what is left to show is that a step changes them  *)
(* as a ledger may.                                                        *)

-----------------------------------------------------------------------------
(* The mapping *)

EntryOf(sub) == [kind |-> KindOf(sub), amount |-> sub.payout]

LEMMA KindIs ==
    ASSUME NEW sub
    PROVE  /\ sub.status = "SUBMITTED" => KindOf(sub) = "reserve"
           /\ sub.status = "MODERATOR_APPROVED" /\ ~sub.finalized => KindOf(sub) = "accrual"
           /\ sub.status = "MODERATOR_APPROVED" /\ sub.finalized => KindOf(sub) = "final"
           /\ sub.status \notin HOLDS_MONEY => KindOf(sub) = "none"
BY DEF KindOf, HOLDS_MONEY

\* A row that holds no money is promised nothing.
LEMMA EmptyEntry ==
    ASSUME NEW sub, WellFormed(sub), sub.status \notin HOLDS_MONEY
    PROVE  EntryOf(sub) = Ledger!Nothing
BY KindIs DEF EntryOf, Ledger!Nothing, WellFormed

LEMMA ProvidedType ==
    ASSUME order \in Row
    PROVE  Provided \in Nat
<1>1. order.budget \in Nat /\ order.approvedBudget \in Nat
    BY DEF Row
<1>2. /\ payoutPool(order.budget, FeePercent) \in Nat
      /\ payoutPool(order.approvedBudget, FeePercent) \in Nat
    BY <1>1, PoolType
<1> QED
    BY <1>2 DEF Provided, Lesser

\* The ledger's sum is what the submissions hold.
LEMMA PromisedIsHeld ==
    ASSUME Rows(subs)
    PROVE  Ledger!Promised = spentByOrder(subs, HOLDS_MONEY)
<1> DEFINE own(s) == {s} \X (1 .. subs[s].payout)
           holders == {x \in Sub : subs[x].status \in HOLDS_MONEY}
<1>1. ASSUME NEW s \in Sub PROVE Entries[s].amount = subs[s].payout
    BY DEF Entries
<1>2. ASSUME NEW s \in Sub, s \notin holders PROVE own(s) = {}
    <2>1. subs[s].payout = 0
        BY <1>2 DEF Rows, WellFormed
    <2>2. 1 .. 0 = {}
        OBVIOUS
    <2> QED
        BY <2>1, <2>2
<1>3. UNION {{s} \X (1 .. Entries[s].amount) : s \in Sub} = UNION {own(s) : s \in Sub}
    BY <1>1
<1>4. UNION {own(s) : s \in Sub} = UNION {own(s) : s \in holders}
    BY <1>2, Zenon
<1> QED
    BY <1>3, <1>4 DEF Ledger!Promised, Ledger!Cardinality, spentByOrder, Cents, Cardinality

LEMMA CoveredByFund == FundInv => Ledger!Covered
<1> SUFFICES ASSUME FundInv PROVE Ledger!Covered
    OBVIOUS
<1>1. Rows(subs) /\ order \in Row
    BY DEF FundInv, TypeInv, TypeOK, Rows
<1>2. Ledger!Promised = spentByOrder(subs, HOLDS_MONEY)
    BY <1>1, PromisedIsHeld
<1>3. spentByOrder(subs, HOLDS_MONEY) <= Provided
    BY DEF FundInv, FundCovered, Provided, Lesser
<1> QED
    BY <1>2, <1>3 DEF Ledger!Covered

\* One promise is no more than there is.
AmountsFit ==
    \A s \in Sub : subs[s].status \in HOLDS_MONEY => subs[s].payout \in 0 .. Provided

LEMMA AmountFits == FundInv => AmountsFit
<1> SUFFICES ASSUME FundInv, NEW s \in Sub, subs[s].status \in HOLDS_MONEY
             PROVE  subs[s].payout \in 0 .. Provided
    BY DEF AmountsFit
<1>1. Rows(subs) /\ order \in Row /\ CentsFinite(subs)
    BY DEF FundInv, TypeInv, TypeOK, Rows
<1>2. subs[s].payout <= spentByOrder(subs, HOLDS_MONEY)
    BY <1>1, SettledMoney DEF Rows
<1>3. spentByOrder(subs, HOLDS_MONEY) <= Provided
    BY DEF FundInv, FundCovered, Provided, Lesser
<1>4. subs[s].payout \in Nat /\ Provided \in Nat /\ spentByOrder(subs, HOLDS_MONEY) \in Nat
    BY <1>1, ProvidedType, HeldType DEF Rows, Submission
<1> QED
    BY <1>2, <1>3, <1>4

-----------------------------------------------------------------------------
(* Steps *)

\* Rows that hold money keep it, and no others come to.
SameMoney(ss, tt) ==
    \A s \in Sub :
        \/ tt[s] = ss[s]
        \/ ss[s].status \notin HOLDS_MONEY /\ tt[s].status \notin HOLDS_MONEY

LEMMA SameEntries ==
    ASSUME Rows(subs), Rows(subs'), SameMoney(subs, subs')
    PROVE  Entries' = Entries
<1>1. ASSUME NEW s \in Sub PROVE EntryOf(subs'[s]) = EntryOf(subs[s])
    BY EmptyEntry DEF SameMoney, Rows
<1> QED
    BY <1>1 DEF Entries, EntryOf

SamePool ==
    order'.budget = order.budget /\ order'.approvedBudget = order.approvedBudget

LEMMA PoolKept == SamePool => Provided' = Provided
BY DEF SamePool, Provided

\* Rows of a set that were on review hold nothing afterwards, and the others are
\* as they were.
Freed(ss, tt, who) ==
    /\ \A s \in who : ss[s].status = "SUBMITTED" /\ tt[s].status \notin HOLDS_MONEY
    /\ \A s \in Sub \ who : \/ tt[s] = ss[s]
                            \/ /\ ss[s].status \notin HOLDS_MONEY
                               /\ tt[s].status \notin HOLDS_MONEY

LEMMA FreedReleases ==
    ASSUME Rows(subs), Rows(subs'), NEW who \in SUBSET Sub, Freed(subs, subs', who), SamePool
    PROVE  Ledger!Release(who)
<1>1. ASSUME NEW s \in who PROVE EntryOf(subs'[s]) = Ledger!Nothing /\ KindOf(subs[s]) = "reserve"
    BY EmptyEntry, KindIs DEF Freed, Rows
<1>2. ASSUME NEW s \in Sub \ who PROVE EntryOf(subs'[s]) = EntryOf(subs[s])
    BY EmptyEntry DEF Freed, Rows
<1>3. Entries' = [s \in Sub |-> IF s \in who THEN Ledger!Nothing ELSE Entries[s]]
    BY <1>1, <1>2 DEF Entries, EntryOf
<1>4. \A s \in who : Entries[s].kind = "reserve"
    BY <1>1 DEF Entries
<1> QED
    BY <1>3, <1>4, PoolKept DEF Ledger!Release

\* One row changes.
LEMMA OneEntry ==
    ASSUME NEW s \in Sub, \A t \in Sub \ {s} : subs'[t] = subs[t], SamePool
    PROVE  Ledger!Put(s, KindOf(subs'[s]), subs'[s].payout)
<1>1. Entries' = [Entries EXCEPT ![s] = [kind |-> KindOf(subs'[s]), amount |-> subs'[s].payout]]
    BY DEF Entries
<1> QED
    BY <1>1, PoolKept DEF Ledger!Put

\* A change of the promises as a ledger makes it.
Booked ==
    \/ Ledger!Provide
    \/ \E s \in Sub : Ledger!Reserve(s) \/ Ledger!Accrue(s) \/ Ledger!Settle(s) \/ Ledger!Cancel(s)
    \/ \E ss \in SUBSET Sub : Ledger!Release(ss)

LEMMA QuietBooked ==
    ASSUME FundInv, FundInv', SameMoney(subs, subs')
    PROVE  Booked
<1>1. Rows(subs) /\ Rows(subs)' /\ order' \in Row
    BY DEF FundInv, TypeInv, TypeOK, Rows
<1>2. Entries' = Entries
    BY <1>1, SameEntries DEF Rows
<1>3. Provided' \in Nat
    <2>1. order'.budget \in Nat /\ order'.approvedBudget \in Nat
        BY <1>1 DEF Row
    <2>2. /\ payoutPool(order'.budget, FeePercent) \in Nat
          /\ payoutPool(order'.approvedBudget, FeePercent) \in Nat
        BY <2>1, PoolType
    <2> QED
        BY <2>2 DEF Provided, Lesser
<1> QED
    BY <1>2, <1>3 DEF Booked, Ledger!Provide

LEMMA SlotsHoldNothing ==
    ASSUME Rows(subs)
    PROVE  SameMoney(subs, expireSlots(subs))
BY DEF SameMoney, expireSlots, HOLDS_MONEY, Rows, Submission

LEMMA SyncKeepsPool ==
    ASSUME NEW row \in Row, NEW ss
    PROVE  /\ syncFundBusy(row, ss).budget = row.budget
           /\ syncFundBusy(row, ss).approvedBudget = row.approvedBudget
           /\ closeIfExhausted(row, ss).budget = row.budget
           /\ closeIfExhausted(row, ss).approvedBudget = row.approvedBudget
           /\ closeIfExhausted(row, ss) \in Row
BY DEF syncFundBusy, closeIfExhausted, Row, OrderStatus

LEMMA StepBooked ==
    ASSUME FundInv, FundInv', Next
    PROVE  Booked
<1>1. /\ Rows(subs) /\ order \in Row /\ subs \in [Sub -> Submission]
      /\ Rows(subs') /\ subs' \in [Sub -> Submission]
    BY DEF FundInv, TypeInv, TypeOK, Rows
<1>2. ASSUME subs' = subs PROVE Booked
    BY <1>2, QuietBooked DEF SameMoney
<1>3. ASSUME subs' = expireSlots(subs) PROVE Booked
    BY <1>1, <1>3, SlotsHoldNothing, QuietBooked
<1>4. ASSUME NEW s \in Sub, NEW sub, subs' = [subs EXCEPT ![s] = sub],
             subs[s].status \notin HOLDS_MONEY, sub.status \notin HOLDS_MONEY
      PROVE  Booked
    BY <1>1, <1>4, QuietBooked DEF SameMoney
<1>5. AmountsFit'
    BY AmountFits, PTL
<1>6. CASE Advertiser
    <2>1. CASE \E o \in Offers, b \in Budgets : Create(o, b)
        BY <1>2, <2>1 DEF Create
    <2>2. CASE \E seen \in Reads, o \in Offers, b \in Budgets, d \in BOOLEAN :
                  Update(seen, o, b, d)
        BY <1>2, <2>2 DEF Update
    <2>3. CASE \E seen \in Reads : Close(seen)
        BY <1>2, <1>3, <2>3 DEF Close
    <2>4. CASE Extend
        BY <1>2, <2>4 DEF Extend
    <2>5. CASE Remove
        <3>1. \A s \in Sub : subs[s].status \notin HOLDS_MONEY
            BY <2>5 DEF Remove, NO_VIDEO, HOLDS_MONEY
        <3>2. \A s \in Sub : subs'[s].status \notin HOLDS_MONEY
            BY <2>5, <3>1 DEF Remove, NoSubmission, HOLDS_MONEY
        <3> QED
            BY <3>1, <3>2, QuietBooked DEF SameMoney
    <2> QED
        BY <1>6, <2>1, <2>2, <2>3, <2>4, <2>5 DEF Advertiser
<1>7. CASE OrderModeration
    <2>1. CASE \E card, seen \in Reads, rate \in Rates : ModeratorApprove(card, seen, rate)
        BY <1>2, <2>1 DEF ModeratorApprove
    <2>2. CASE \E card, seen \in Reads : ModeratorReject(card, seen)
        BY <1>2, <2>2 DEF ModeratorReject
    <2>3. CASE ModeratorClose
        BY <1>2, <1>3, <2>3 DEF ModeratorClose
    <2>4. CASE BanAdvertiser
        <3>1. CASE order.status = "OPEN"
            BY <1>3, <2>4, <3>1 DEF BanAdvertiser
        <3>2. CASE order.status # "OPEN"
            <4> DEFINE who == {s \in Sub : subs[s].status = "SUBMITTED"}
            <4>1. subs' = rejectSubmitted(expireSlots(subs), Creator)
                BY <2>4, <3>2 DEF BanAdvertiser
            <4>2. \A s \in Sub : CreatorOf[s] \in Creator
                BY SubAssumption
            <4>3. Freed(subs, subs', who)
                BY <1>1, <4>1, <4>2
                DEF Freed, rejectSubmitted, expireSlots, HOLDS_MONEY, Rows, Submission
            <4>4. SamePool
                BY <1>1, <2>4 DEF BanAdvertiser, SamePool, Row
            <4>5. who \in SUBSET Sub
                OBVIOUS
            <4> HIDE DEF who
            <4> QED
                BY <1>1, <4>3, <4>4, <4>5, FreedReleases DEF Booked
        <3> QED
            BY <3>1, <3>2
    <2> QED
        BY <1>7, <2>1, <2>2, <2>3, <2>4 DEF OrderModeration
<1>8. CASE Creators
    <2>1. CASE \E seen \in Reads, s \in Sub : Claim(seen, s)
        <3>1. PICK seen \in Reads, s \in Sub : Claim(seen, s)
            BY <2>1
        <3> DEFINE sub == [subs[s] EXCEPT !.status = "IN_PROGRESS"]
        <3>2. subs' = [subs EXCEPT ![s] = sub] /\ subs[s].status = "NONE"
            BY <3>1 DEF Claim
        <3>3. sub.status = "IN_PROGRESS"
            BY <1>1 DEF Submission
        <3> HIDE DEF sub
        <3> QED
            BY <1>4, <3>2, <3>3 DEF HOLDS_MONEY
    <2>2. CASE \E seen \in Reads, s \in Sub, v \in Video, n \in ViewCounts :
                  AttachVideo(seen, s, v, n)
        <3>1. PICK seen \in Reads, s \in Sub, v \in Video, n \in ViewCounts :
                  AttachVideo(seen, s, v, n)
            BY <2>2
        <3>2. /\ subs[s].status = "IN_PROGRESS"
              /\ subs'[s].status = "SUBMITTED"
              /\ \A t \in Sub \ {s} : subs'[t] = subs[t]
            BY <1>1, <3>1 DEF AttachVideo, Submission
        <3>3. SamePool
            BY <1>1, <3>1, SyncKeepsPool DEF AttachVideo, SamePool
        <3>4. Ledger!Put(s, "reserve", subs'[s].payout)
            BY <3>2, <3>3, OneEntry, KindIs
        <3>5. subs'[s].payout \in 0 .. Provided
            BY <1>5, <3>2, <3>3, PoolKept DEF AmountsFit, HOLDS_MONEY
        <3>6. Entries[s].kind = "none"
            BY <3>2, KindIs DEF Entries, HOLDS_MONEY
        <3> QED
            BY <3>4, <3>5, <3>6 DEF Booked, Ledger!Reserve
    <2>3. CASE \E c \in Creator : BanCreator(c)
        <3>1. PICK c \in Creator : BanCreator(c)
            BY <2>3
        <3> DEFINE who == {s \in Sub : subs[s].status = "SUBMITTED" /\ CreatorOf[s] = c}
        <3>2. subs' = rejectSubmitted(deleteInProgress(subs, c), {c})
            BY <3>1 DEF BanCreator
        <3>3. Freed(subs, subs', who)
            BY <1>1, <3>2
            DEF Freed, rejectSubmitted, deleteInProgress, HOLDS_MONEY, Rows, Submission
        <3>4. SamePool
            BY <1>1, <3>1, SyncKeepsPool DEF BanCreator, SamePool
        <3>5. who \in SUBSET Sub
            OBVIOUS
        <3> HIDE DEF who
        <3> QED
            BY <1>1, <3>3, <3>4, <3>5, FreedReleases DEF Booked
    <2> QED
        BY <1>8, <2>1, <2>2, <2>3 DEF Creators
<1>9. CASE VideoModeration
    <2>1. CASE \E s \in Sub, n \in ViewCounts : ApproveVideo(s, n)
        <3>1. PICK s \in Sub, n \in ViewCounts : ApproveVideo(s, n)
            BY <2>1
        <3>2. /\ subs[s].status = "SUBMITTED"
              /\ subs'[s].status = "MODERATOR_APPROVED"
              /\ subs'[s].finalized = subs[s].finalized
              /\ \A t \in Sub \ {s} : subs'[t] = subs[t]
            BY <1>1, <3>1 DEF ApproveVideo, Submission
        <3>3. ~subs[s].finalized
            BY <1>1, <3>2 DEF Rows, WellFormed
        <3>4. SamePool
            BY <1>1, <3>1, SyncKeepsPool DEF ApproveVideo, SamePool
        <3>5. Ledger!Put(s, "accrual", subs'[s].payout)
            BY <3>2, <3>3, <3>4, OneEntry, KindIs
        <3>6. subs'[s].payout \in 0 .. Provided
            BY <1>5, <3>2, <3>4, PoolKept DEF AmountsFit, HOLDS_MONEY
        <3>7. Entries[s].kind = "reserve"
            BY <3>2, KindIs DEF Entries
        <3> QED
            BY <3>5, <3>6, <3>7 DEF Booked, Ledger!Accrue
    <2>2. CASE \E s \in Sub, i \in BOOLEAN : RejectVideo(s, i)
        <3>1. PICK s \in Sub, i \in BOOLEAN : RejectVideo(s, i)
            BY <2>2
        <3>2. /\ subs[s].status = "SUBMITTED"
              /\ subs'[s].status = "MODERATOR_REJECTED"
              /\ \A t \in Sub \ {s} : subs'[t] = subs[t]
            BY <1>1, <3>1 DEF RejectVideo, Submission
        <3>3. SamePool
            BY <1>1, <3>1, SyncKeepsPool DEF RejectVideo, SamePool
        <3>4. Freed(subs, subs', {s})
            BY <3>2 DEF Freed, HOLDS_MONEY
        <3> QED
            BY <1>1, <3>3, <3>4, FreedReleases DEF Booked
    <2>3. CASE \E s \in Sub : PublicationDeleted(s)
        <3>1. PICK s \in Sub : PublicationDeleted(s)
            BY <2>3
        <3>2. /\ subs[s].status = "MODERATOR_APPROVED" /\ ~subs[s].finalized
              /\ subs'[s].status = "MODERATOR_REJECTED" /\ subs'[s].payout = 0
              /\ \A t \in Sub \ {s} : subs'[t] = subs[t]
            BY <1>1, <3>1 DEF PublicationDeleted, Submission
        <3>3. SamePool
            BY <1>1, <3>1, SyncKeepsPool DEF PublicationDeleted, SamePool
        <3>4. Ledger!Put(s, "none", 0)
            BY <3>2, <3>3, OneEntry, KindIs DEF HOLDS_MONEY
        <3>5. Entries[s].kind = "accrual"
            BY <3>2, KindIs DEF Entries
        <3> QED
            BY <3>4, <3>5 DEF Booked, Ledger!Cancel
    <2>4. CASE \E s \in Sub, n \in ViewCounts : FinalizeViews(s, n)
        <3>1. PICK s \in Sub, n \in ViewCounts : FinalizeViews(s, n)
            BY <2>4
        <3>2. /\ subs[s].status = "MODERATOR_APPROVED" /\ ~subs[s].finalized
              /\ subs'[s].status = "MODERATOR_APPROVED" /\ subs'[s].finalized
              /\ subs'[s].payout = subs[s].payout
              /\ \A t \in Sub \ {s} : subs'[t] = subs[t]
            BY <1>1, <3>1 DEF FinalizeViews, Submission
        <3>3. SamePool
            BY <3>1 DEF FinalizeViews, SamePool
        <3>4. Ledger!Put(s, "final", subs[s].payout)
            BY <3>2, <3>3, OneEntry, KindIs
        <3>5. Entries[s].kind = "accrual" /\ Entries[s].amount = subs[s].payout
            BY <3>2, KindIs DEF Entries
        <3> QED
            BY <3>4, <3>5 DEF Booked, Ledger!Settle
    <2> QED
        BY <1>9, <2>1, <2>2, <2>3, <2>4 DEF VideoModeration
<1>10. CASE Jobs
    <2>1. CASE Expire
        BY <1>2, <2>1 DEF Expire
    <2>2. CASE \E s \in Sub : ExpireSlot(s)
        <3>1. PICK s \in Sub : ExpireSlot(s)
            BY <2>2
        <3> DEFINE sub == [subs[s] EXCEPT !.status = "SLOT_EXPIRED"]
        <3>2. subs' = [subs EXCEPT ![s] = sub] /\ subs[s].status = "IN_PROGRESS"
            BY <3>1 DEF ExpireSlot
        <3>3. sub.status = "SLOT_EXPIRED"
            BY <1>1 DEF Submission
        <3> HIDE DEF sub
        <3> QED
            BY <1>4, <3>2, <3>3 DEF HOLDS_MONEY
    <2> QED
        BY <1>10, <2>1, <2>2 DEF Jobs
<1>11. CASE Requests
    BY <1>2, <1>11 DEF Requests, ReadRows, GiveUp
<1> QED
    BY <1>6, <1>7, <1>8, <1>9, <1>10, <1>11 DEF Next

-----------------------------------------------------------------------------
(* The refinement *)

LEMMA LedgerInit == Init => Ledger!Init
<1> SUFFICES ASSUME Init PROVE Ledger!Init
    OBVIOUS
<1>1. Provided = 0
    BY DEF Init, NoOrder, Provided, Null
<1>2. \A s \in Sub : KindOf(subs[s]) = "none" /\ subs[s].payout = 0
    BY KindIs DEF Init, NoSubmission, HOLDS_MONEY
<1> QED
    BY <1>1, <1>2 DEF Ledger!Init, Entries, Ledger!Nothing

LEMMA LedgerStep ==
    ASSUME FundInv, FundInv', [Next]_vars
    PROVE  [Ledger!Next]_(Ledger!ledger)
<1>1. CASE Next
    <2>1. Booked
        BY <1>1, StepBooked
    <2>2. Ledger!Covered'
        BY CoveredByFund, PTL
    <2> QED
        BY <2>1, <2>2 DEF Booked, Ledger!Next
<1>2. CASE UNCHANGED vars
    BY <1>2 DEF vars, Ledger!ledger, Provided, Entries
<1> QED
    BY <1>1, <1>2

\* An order, with all its edits, reviews, removals and bans and with requests
\* that work from old reads, is a ledger of promises within the paid pool
\* (order-status.ts, orders.service.ts, submissions.service.ts, bans.service.ts).
THEOREM FundIsLedger == Spec => LedgerKept
<1>1. FundInv /\ [Next]_vars => FundInv'
    BY FundStep
<1>2. FundInv /\ FundInv' /\ [Next]_vars => [Ledger!Next]_(Ledger!ledger)
    BY LedgerStep
<1> QED
    BY <1>1, <1>2, FundInit, LedgerInit, PTL DEF Spec, LedgerKept, Ledger!Spec

-----------------------------------------------------------------------------
(***************************************************************************)
(* What a single step of an order may never do, for every set of           *)
(* submissions, offers, budgets, rates and requests in flight: publish     *)
(* what the moderator has not seen, leave an open order used up or a pause *)
(* that does not fit the sums, and do harm on a read that still holds.     *)
(***************************************************************************)

(* Offers *)

\* Without its link an offer is the same offer, and stays so.
LEMMA LinkDropped ==
    ASSUME NEW o \in Offers
    PROVE  /\ withoutLink(o) \in Offers
           /\ withoutLink(o).minViews = o.minViews
           /\ withoutLink(o).link = FALSE
           /\ withoutLink(withoutLink(o)) = withoutLink(o)
<1>1. {"minViews", "link"} \subseteq DOMAIN o /\ withoutLink(o) \in Offers
    BY OffersAssumption
<1> QED
    BY <1>1 DEF withoutLink

LEMMA SameThreshold ==
    ASSUME NEW o \in Offers, NEW p \in Offers, SameButLink(o, p)
    PROVE  o.minViews = p.minViews
BY LinkDropped DEF SameButLink

-----------------------------------------------------------------------------
(* What the steps rest on *)

\* An order on review is what was read of it in the same version, but for a link
\* that a moderator has removed since.
OffersAgree ==
    \A seen \in stale :
        order.status = "PENDING_MODERATION" /\ seen.order.version = order.version =>
            /\ SameButLink(seen.order.offer, order.offer)
            /\ order.offer.link => seen.order.offer.link

\* A pause is only on while all the free money is reserved.
BusyHonest ==
    order.status \in {"OPEN", "EXPIRED"} /\ order.fundBusy =>
        /\ ExhaustedBy(order, subs, HOLDS_MONEY)
        /\ ~ExhaustedBy(order, subs, ACCRUED)

RemovedStaysClosed == removed => order.status \in {"CLOSED", "DELETED"}

StepInv == FundInv /\ OffersAgree /\ BusyHonest /\ RemovedStaysClosed

LEMMA StepInit == Init => StepInv
BY FundInit DEF Init, NoOrder, StepInv, OffersAgree, BusyHonest, RemovedStaysClosed

\* The read a request decides on in a fresh step is what is there.
LEMMA FreshSeen ==
    ASSUME Fresh, NEW seen \in Reads, Answered(seen)
    PROVE  /\ seen.order = order
           /\ seen.exhausted = ExhaustedBy(order, subs, HOLDS_MONEY)
           /\ seen.slots = Slots(subs)
           /\ seen.inflated = Inflated(subs)
<1>1. seen = ReadBy(seen.by)
    <2>1. CASE seen = Now
        BY <2>1 DEF Now, ReadBy
    <2>2. CASE seen \in stale
        BY <2>2 DEF Fresh, Answered
    <2> QED
        BY <2>1, <2>2 DEF Reads
<1> QED
    BY <1>1 DEF ReadBy

\* Reads of the version on review agree with it, those made just now too.
LEMMA SeenAgrees ==
    ASSUME StepInv, NEW seen \in Reads, Exists(seen.order),
           order.status = "PENDING_MODERATION", seen.order.version = order.version
    PROVE  /\ SameButLink(seen.order.offer, order.offer)
           /\ order.offer.link => seen.order.offer.link
           /\ seen.order.budget = order.budget
           /\ seen.order.offer.minViews = order.offer.minViews
<1>1. SameButLink(seen.order.offer, order.offer) /\ (order.offer.link => seen.order.offer.link)
    BY DEF StepInv, OffersAgree, Reads, Now, ReadBy, SameButLink
<1>2. FundInv
    BY DEF StepInv
<1>3. seen.order \in Row /\ ReadOf(seen.order)
    BY <1>2, ReadsAreReads
<1>4. order \in Row
    BY <1>2 DEF FundInv, TypeInv, TypeOK
<1>5. seen.order.offer.minViews = order.offer.minViews
    BY <1>1, <1>3, <1>4, SameThreshold DEF Row
<1> QED
    BY <1>1, <1>3, <1>5 DEF ReadOf

\* A decision on an order is one on the version that was read.
LEMMA DecidedVersion ==
    ASSUME StepInv, NEW card \in Reads, NEW seen \in Reads, CardBefore(card, seen),
           Exists(seen.order), sameVersion(order, card.order)
    PROVE  seen.order.version = order.version /\ card.order.version = order.version
<1>1. FundInv
    BY DEF StepInv
<1>2. seen.order \in Row /\ ReadOf(seen.order) /\ order \in Row
    BY <1>1, ReadsAreReads DEF FundInv, TypeInv, TypeOK
<1> QED
    BY <1>2 DEF CardBefore, sameVersion, ReadOf, Row

LEMMA SeenExists ==
    ASSUME StepInv, NEW seen \in Reads, Exists(order)
    PROVE  Exists(seen.order)
BY DEF StepInv, FundInv, ReadsAgree, ReadOf, Reads, Now, ReadBy

-----------------------------------------------------------------------------
(* Sums of a step *)

\* What is exhausted depends on these fields of the order only,
SamePlan(row1, row2) ==
    /\ fundOf(row2) = fundOf(row1)
    /\ row2.cpm = row1.cpm
    /\ row2.offer.minViews = row1.offer.minViews

\* and on these of the submissions.
SameHeld(ss, tt) ==
    \A s \in Sub :
        \/ tt[s].status = ss[s].status /\ tt[s].payout = ss[s].payout
        \/ tt[s].status \notin HOLDS_MONEY /\ ss[s].status \notin HOLDS_MONEY

LEMMA SameExhausted ==
    ASSUME NEW row1, NEW row2, SamePlan(row1, row2), NEW ss, NEW tt, SameHeld(ss, tt)
    PROVE  /\ ExhaustedBy(row2, tt, HOLDS_MONEY) = ExhaustedBy(row1, ss, HOLDS_MONEY)
           /\ ExhaustedBy(row2, tt, ACCRUED) = ExhaustedBy(row1, ss, ACCRUED)
<1>1. Cents(tt, HOLDS_MONEY) = Cents(ss, HOLDS_MONEY)
    BY DEF SameHeld, Cents
<1>2. Cents(tt, ACCRUED) = Cents(ss, ACCRUED)
    BY DEF SameHeld, Cents, HOLDS_MONEY, ACCRUED
<1> QED
    BY <1>1, <1>2 DEF SamePlan, ExhaustedBy, spentByOrder

LEMMA NothingChanged ==
    ASSUME NEW row, NEW ss
    PROVE  SamePlan(row, row) /\ SameHeld(ss, ss)
BY DEF SamePlan, SameHeld

\* The recomputed pause fits the sums, and changes nothing else.
LEMMA SyncFits ==
    ASSUME NEW row \in Row, NEW ss
    PROVE  /\ syncFundBusy(row, ss).fundBusy = FundBusy(row, ss)
           /\ syncFundBusy(row, ss).status = row.status
           /\ syncFundBusy(row, ss).offer = row.offer
           /\ syncFundBusy(row, ss).prevTerms = row.prevTerms
           /\ syncFundBusy(row, ss).cpm = row.cpm
           /\ SamePlan(row, syncFundBusy(row, ss))
           /\ FundBusy(syncFundBusy(row, ss), ss) = FundBusy(row, ss)
<1> DEFINE r == syncFundBusy(row, ss)
<1>1. /\ r.fundBusy = FundBusy(row, ss) /\ r.status = row.status /\ r.offer = row.offer
      /\ r.cpm = row.cpm /\ r.budget = row.budget /\ r.approvedBudget = row.approvedBudget
      /\ r.prevTerms = row.prevTerms
    BY DEF syncFundBusy, Row
<1> HIDE DEF r
<1>2. SamePlan(row, r)
    BY <1>1 DEF SamePlan, fundOf, isFrozen
<1>3. FundBusy(r, ss) = FundBusy(row, ss)
    BY <1>1, <1>2, NothingChanged, SameExhausted DEF FundBusy
<1> QED
    BY <1>1, <1>2, <1>3 DEF r

\* Accruals only given back leave as much room or more.
LEMMA LessAccrued ==
    ASSUME NEW ss \in [Sub -> Submission], NEW tt \in [Sub -> Submission], CentsFinite(ss),
           \A s \in Sub : tt[s].status \in ACCRUED =>
                              tt[s].status = ss[s].status /\ tt[s].payout = ss[s].payout,
           NEW row \in Row, ~ExhaustedBy(row, ss, ACCRUED)
    PROVE  ~ExhaustedBy(row, tt, ACCRUED)
<1>1. Cents(tt, ACCRUED) \in SUBSET Cents(ss, ACCRUED)
    BY DEF Cents
<1>2. Cents(ss, ACCRUED) \in SUBSET Cents(ss, HOLDS_MONEY)
    BY DEF Cents, ACCRUED, HOLDS_MONEY
<1> DEFINE m == spentByOrder(tt, ACCRUED)
           n == spentByOrder(ss, ACCRUED)
           pool == payoutPool(fundOf(row), FeePercent)
           price == payoutFor(row.offer.minViews, row.cpm)
<1>3. IsFiniteSet(Cents(ss, ACCRUED))
    BY <1>2, FS_Subset DEF CentsFinite
<1>4. IsFiniteSet(Cents(tt, ACCRUED)) /\ m <= n
    BY <1>1, <1>3, FS_Subset DEF spentByOrder
<1>5. m \in Nat /\ n \in Nat
    BY <1>3, <1>4, FS_CardinalityType DEF spentByOrder
<1>6. pool \in Nat /\ price \in Nat
    <2>1. fundOf(row) \in Nat
        BY DEF fundOf, Lesser, Row
    <2> QED
        BY <2>1, PoolType, PayoutType, OffersAssumption DEF Row
<1>7. row.cpm # Null /\ ~(Greater(0, pool - n) < price)
    BY DEF ExhaustedBy, exhausted, free
<1> HIDE DEF m, n, pool, price
<1>8. ~(Greater(0, pool - m) < price)
    BY <1>4, <1>5, <1>6, <1>7 DEF Greater
<1> QED
    BY <1>7, <1>8 DEF ExhaustedBy, exhausted, free, m, pool, price

-----------------------------------------------------------------------------
(* The three kinds of steps *)

\* The order is out of sight, or closed for good with every slot burnt;
Off ==
    \/ order'.status \notin PUBLISHED
    \/ order'.status = "CLOSED" /\ Slots(subs') = {}

\* or the pause is recomputed, with room left in an open order;
Synced(row) ==
    /\ row \in Row
    /\ order' = syncFundBusy(row, subs')
    /\ row.status = "OPEN" /\ OpenNotExhausted => ~ExhaustedBy(row, subs', ACCRUED)

\* or nothing changes that the sums depend on.
Kept ==
    /\ SamePlan(order, order') /\ SameHeld(subs, subs')
    /\ order'.fundBusy = order.fundBusy
    /\ \/ order'.status = order.status
       \/ order.status = "OPEN" /\ order'.status \in {"CLOSED", "EXPIRED"}
       \/ Reopens
    /\ \/ Slots(subs') \subseteq Slots(subs)
       \/ \E seen \in Reads, s \in Sub : Claim(seen, s)

LEMMA SameRows ==
    ASSUME order' = order, SameHeld(subs, subs'),
           \/ Slots(subs') \subseteq Slots(subs)
           \/ \E seen \in Reads, s \in Sub : Claim(seen, s)
    PROVE  Kept
BY NothingChanged DEF Kept

LEMMA NewStatus ==
    ASSUME order \in Row, NEW st \in {"OPEN", "CLOSED", "EXPIRED"}, subs' = subs,
           order' = [order EXCEPT !.status = st],
           \/ order.status = "OPEN"
           \/ order.status = "EXPIRED" /\ st = "OPEN"
    PROVE  Kept
<1>1. /\ order'.status = st /\ order'.fundBusy = order.fundBusy
      /\ order'.budget = order.budget /\ order'.cpm = order.cpm
      /\ order'.approvedBudget = order.approvedBudget /\ order'.offer = order.offer
    BY DEF Row
<1>2. ~isFrozen(order) /\ ~isFrozen(order')
    BY <1>1 DEF isFrozen, FROZEN
<1>3. SamePlan(order, order')
    BY <1>1, <1>2 DEF SamePlan, fundOf
<1> QED
    BY <1>1, <1>3, NothingChanged DEF Kept, Reopens

LEMMA NoSlotsLeft == Slots(expireSlots(subs)) = {}
BY DEF Slots, expireSlots

\* Steps of one submission that accrue nothing.
LEMMA SyncedRow ==
    ASSUME TypeInv, TypeInv', order' = syncFundBusy(order, subs'),
           \A s \in Sub : subs'[s].status \in ACCRUED =>
               subs'[s].status = subs[s].status /\ subs'[s].payout = subs[s].payout
    PROVE  Synced(order)
<1>1. order \in Row /\ CentsFinite(subs)
    BY DEF TypeInv, TypeOK
<1>2. subs \in [Sub -> Submission] /\ subs' \in [Sub -> Submission]
    BY DEF TypeInv, TypeOK
<1>3. ~ExhaustedBy(order, subs, ACCRUED) => ~ExhaustedBy(order, subs', ACCRUED)
    BY <1>1, <1>2, LessAccrued
<1> QED
    BY <1>1, <1>3 DEF Synced, OpenNotExhausted

LEMMA AdvertiserShape ==
    ASSUME StepInv, Advertiser
    PROVE  Off \/ Kept
<1>1. order \in Row
    BY DEF StepInv, FundInv, TypeInv, TypeOK
<1>2. ASSUME NEW o \in Offers, NEW b \in Budgets, Create(o, b)
      PROVE  Off
    BY <1>2 DEF Create, Off, PUBLISHED
<1>3. ASSUME NEW seen \in Reads, NEW o \in Offers, NEW b \in Budgets, NEW d \in BOOLEAN,
             Update(seen, o, b, d)
      PROVE  Off
    <2>1. order'.status = "PENDING_MODERATION"
        BY <1>1, <1>3 DEF Update, Row
    <2> QED
        BY <2>1 DEF Off, PUBLISHED
<1>4. ASSUME NEW seen \in Reads, Close(seen)
      PROVE  Off \/ Kept
    <2>1. CASE isFrozen(seen.order)
        <3>1. cancelEdit(order) \in Row
            BY <1>1, CancelEditType, <1>4, <2>1 DEF Close
        <3>2. order'.status = "CLOSED" /\ subs' = expireSlots(subs)
            BY <1>4, <2>1, <3>1 DEF Close, Row
        <3> QED
            BY <3>2, NoSlotsLeft DEF Off
    <2>2. CASE ~isFrozen(seen.order)
        <3>1. /\ order' = [order EXCEPT !.status = "CLOSED"] /\ subs' = subs
              /\ order.status = "OPEN"
            BY <1>4, <2>2 DEF Close
        <3> QED
            BY <1>1, <3>1, NewStatus
    <2> QED
        BY <2>1, <2>2
<1>5. CASE Extend
    BY <1>1, <1>5, NewStatus DEF Extend
<1>6. CASE Remove
    <2>1. order'.status = "DELETED"
        BY <1>1, <1>6 DEF Remove, Row
    <2> QED
        BY <2>1 DEF Off, PUBLISHED
<1> QED
    BY <1>2, <1>3, <1>4, <1>5, <1>6 DEF Advertiser

LEMMA ApproveShape ==
    ASSUME StepInv, NEW card \in Reads, NEW seen \in Reads, NEW rate \in Rates,
           ModeratorApprove(card, seen, rate)
    PROVE  \E row : Synced(row)
<1>1. order \in Row /\ order.status = "PENDING_MODERATION"
    BY DEF StepInv, FundInv, TypeInv, TypeOK, ModeratorApprove
<1>2. Exists(seen.order)
    BY <1>1, SeenExists DEF Exists
<1>3. seen.order.version = order.version
    BY <1>2, DecidedVersion DEF ModeratorApprove
<1>4. /\ seen.order.budget = order.budget
      /\ seen.order.offer.minViews = order.offer.minViews
    BY <1>1, <1>2, <1>3, SeenAgrees
<1> DEFINE full == exhausted(order.budget, FeePercent, rate, order.offer.minViews,
                             spentByOrder(subs, ACCRUED))
           st == IF full THEN "CLOSED" ELSE "OPEN"
           row == [[order EXCEPT !.approvedBudget = order.budget, !.cpm = rate]
                     EXCEPT !.status = st]
<1>5. subs' = subs /\ order' = syncFundBusy(row, subs)
    BY <1>4 DEF ModeratorApprove
<1>6. st \in {"OPEN", "CLOSED"} /\ rate \in Nat
    BY MoneyAssumption
<1> HIDE DEF full
<1>7. st = "OPEN" => ~full
    OBVIOUS
<1> HIDE DEF st
<1>8. /\ row \in Row /\ row.status = st /\ row.budget = order.budget
      /\ row.cpm = rate /\ row.offer = order.offer
    BY <1>1, <1>6 DEF Row, OrderStatus
<1> HIDE DEF row
<1>9. fundOf(row) = order.budget
    BY <1>6, <1>8 DEF fundOf, isFrozen, FROZEN
<1>10. ExhaustedBy(row, subs, ACCRUED) = full
    BY <1>8, <1>9 DEF ExhaustedBy, full
<1> QED
    BY <1>5, <1>7, <1>8, <1>10 DEF Synced

LEMMA ModerationShape ==
    ASSUME StepInv, OrderModeration
    PROVE  Off \/ Kept \/ \E row : Synced(row)
<1>1. order \in Row
    BY DEF StepInv, FundInv, TypeInv, TypeOK
<1>2. ASSUME NEW card \in Reads, NEW seen \in Reads, ModeratorReject(card, seen)
      PROVE  Off
    <2>1. order'.status \in {"REJECTED", "EDIT_REJECTED"}
        BY <1>1, <1>2 DEF ModeratorReject, Row
    <2> QED
        BY <2>1 DEF Off, PUBLISHED
<1>3. CASE ModeratorClose
    <2>1. CASE order.status \in {"OPEN", "EXPIRED"}
        <3>1. order'.status = "CLOSED" /\ subs' = expireSlots(subs)
            BY <1>1, <1>3, <2>1 DEF ModeratorClose, Row
        <3> QED
            BY <3>1, NoSlotsLeft DEF Off
    <2>2. CASE order.status \notin {"OPEN", "EXPIRED"}
        <3> DEFINE offer == withoutLink(order.offer)
                   terms == unlinked(order.prevTerms)
        <3>1. subs' = subs /\ order' = [order EXCEPT !.offer = offer, !.prevTerms = terms]
            BY <1>1, <1>3, <2>2 DEF ModeratorClose, Row
        <3>2. offer.minViews = order.offer.minViews
            BY <1>1, LinkDropped DEF Row
        <3> HIDE DEF offer, terms
        <3>3. /\ order'.status = order.status /\ order'.fundBusy = order.fundBusy
              /\ order'.budget = order.budget /\ order'.cpm = order.cpm
              /\ order'.approvedBudget = order.approvedBudget /\ order'.offer = offer
            BY <1>1, <3>1 DEF Row
        <3>4. SamePlan(order, order')
            BY <3>2, <3>3 DEF SamePlan, fundOf, isFrozen
        <3> QED
            BY <3>1, <3>3, <3>4, NothingChanged DEF Kept
    <2> QED
        BY <2>1, <2>2
<1>4. CASE BanAdvertiser
    <2>1. CASE order.status = "OPEN"
        <3>1. order'.status = "CLOSED" /\ subs' = expireSlots(subs)
            BY <1>1, <1>4, <2>1 DEF BanAdvertiser, Row
        <3> QED
            BY <3>1, NoSlotsLeft DEF Off
    <2>2. CASE order.status # "OPEN"
        <3>1. order'.status = "REJECTED"
            BY <1>1, <1>4, <2>2 DEF BanAdvertiser, Row
        <3> QED
            BY <3>1 DEF Off, PUBLISHED
    <2> QED
        BY <2>1, <2>2
<1> QED
    BY <1>2, <1>3, <1>4, ApproveShape DEF OrderModeration

LEMMA CreatorsShape ==
    ASSUME StepInv, TypeInv', Creators
    PROVE  Kept \/ \E row : Synced(row)
<1>1. TypeInv
    BY DEF StepInv, FundInv
<1>2. subs \in [Sub -> Submission] /\ subs' \in [Sub -> Submission]
    BY <1>1 DEF TypeInv, TypeOK
<1>3. ASSUME NEW seen \in Reads, NEW s \in Sub, Claim(seen, s)
      PROVE  Kept
    <2>1. /\ \A t \in Sub \ {s} : subs'[t] = subs[t]
          /\ subs'[s].status = "IN_PROGRESS" /\ subs[s].status = "NONE"
        BY <1>2, <1>3 DEF Claim, Submission
    <2>2. SameHeld(subs, subs')
        BY <2>1 DEF SameHeld, HOLDS_MONEY
    <2> QED
        BY <1>3, <2>2, SameRows DEF Claim
<1>4. ASSUME NEW seen \in Reads, NEW s \in Sub, NEW v \in Video, NEW n \in ViewCounts,
             AttachVideo(seen, s, v, n)
      PROVE  Synced(order)
    <2>1. /\ \A t \in Sub \ {s} : subs'[t] = subs[t]
          /\ subs'[s].status = "SUBMITTED"
          /\ order' = syncFundBusy(order, subs')
        BY <1>2, <1>4 DEF AttachVideo, Submission
    <2> QED
        BY <1>1, <2>1, SyncedRow DEF ACCRUED
<1>5. ASSUME NEW c \in Creator, BanCreator(c)
      PROVE  Kept \/ Synced(order)
    <2>1. subs' = rejectSubmitted(deleteInProgress(subs, c), {c})
        BY <1>5 DEF BanCreator
    <2>2. CASE InReview(c) = {}
        <3>1. ASSUME NEW s \in Sub
              PROVE  \/ subs'[s] = subs[s]
                     \/ subs[s].status = "IN_PROGRESS" /\ subs'[s].status = "DELETED"
            BY <1>2, <2>1, <2>2 DEF rejectSubmitted, deleteInProgress, InReview, Submission
        <3>2. SameHeld(subs, subs') /\ Slots(subs') \subseteq Slots(subs)
            BY <3>1 DEF SameHeld, HOLDS_MONEY, Slots
        <3> QED
            BY <1>5, <2>2, <3>2, SameRows DEF BanCreator
    <2>3. CASE InReview(c) # {}
        <3>1. ASSUME NEW s \in Sub
              PROVE  subs'[s] = subs[s] \/ subs'[s].status \in {"DELETED", "MODERATOR_REJECTED"}
            BY <1>2, <2>1 DEF rejectSubmitted, deleteInProgress, Submission
        <3>2. order' = syncFundBusy(order, subs')
            BY <1>5, <2>3 DEF BanCreator
        <3> QED
            BY <1>1, <3>1, <3>2, SyncedRow DEF ACCRUED
    <2> QED
        BY <2>2, <2>3
<1> QED
    BY <1>3, <1>4, <1>5 DEF Creators

LEMMA VideosShape ==
    ASSUME StepInv, TypeInv', VideoModeration
    PROVE  Kept \/ \E row : Synced(row)
<1>1. TypeInv
    BY DEF StepInv, FundInv
<1>2. /\ subs \in [Sub -> Submission] /\ subs' \in [Sub -> Submission]
      /\ order \in Row
    BY <1>1 DEF TypeInv, TypeOK
<1>3. ASSUME NEW s \in Sub, NEW n \in ViewCounts, ApproveVideo(s, n)
      PROVE  \E row : Synced(row)
    <2> DEFINE row == closeIfExhausted(order, subs')
    <2>1. order' = syncFundBusy(row, subs')
        BY <1>3 DEF ApproveVideo
    <2>2. row \in Row
        BY <1>2, SyncType
    <2>3. row.status = "OPEN" => ~ExhaustedBy(row, subs', ACCRUED)
        BY <1>2 DEF closeIfExhausted, Row
    <2> HIDE DEF row
    <2> QED
        BY <2>1, <2>2, <2>3 DEF Synced
<1>4. ASSUME NEW s \in Sub, NEW i \in BOOLEAN, RejectVideo(s, i)
      PROVE  Synced(order)
    <2>1. /\ \A t \in Sub \ {s} : subs'[t] = subs[t]
          /\ subs'[s].status = "MODERATOR_REJECTED"
          /\ order' = syncFundBusy(order, subs')
        BY <1>2, <1>4 DEF RejectVideo, Submission
    <2> QED
        BY <1>1, <2>1, SyncedRow DEF ACCRUED
<1>5. ASSUME NEW s \in Sub, PublicationDeleted(s)
      PROVE  Synced(order)
    <2>1. /\ \A t \in Sub \ {s} : subs'[t] = subs[t]
          /\ subs'[s].status = "MODERATOR_REJECTED"
          /\ order' = syncFundBusy(order, subs')
        BY <1>2, <1>5 DEF PublicationDeleted, Submission
    <2> QED
        BY <1>1, <2>1, SyncedRow DEF ACCRUED
<1>6. ASSUME NEW s \in Sub, NEW n \in ViewCounts, FinalizeViews(s, n)
      PROVE  Kept
    <2>1. /\ \A t \in Sub \ {s} : subs'[t] = subs[t]
          /\ subs'[s].status = subs[s].status /\ subs'[s].payout = subs[s].payout
        BY <1>2, <1>6 DEF FinalizeViews, Submission
    <2>2. SameHeld(subs, subs') /\ Slots(subs') \subseteq Slots(subs)
        BY <2>1 DEF SameHeld, Slots
    <2> QED
        BY <1>6, <2>2, SameRows DEF FinalizeViews
<1> QED
    BY <1>3, <1>4, <1>5, <1>6 DEF VideoModeration

\* Every step is of one of the three kinds.
LEMMA StepShape ==
    ASSUME StepInv, TypeInv', [Next]_vars
    PROVE  Off \/ Kept \/ \E row : Synced(row)
<1>1. order \in Row /\ subs \in [Sub -> Submission]
    BY DEF StepInv, FundInv, TypeInv, TypeOK
<1>2. ASSUME order' = order, subs' = subs
      PROVE  Kept
    BY <1>2, SameRows, NothingChanged
<1>3. CASE Expire
    BY <1>1, <1>3, NewStatus DEF Expire
<1>4. ASSUME NEW s \in Sub, ExpireSlot(s)
      PROVE  Kept
    <2>1. /\ \A t \in Sub \ {s} : subs'[t] = subs[t]
          /\ subs[s].status = "IN_PROGRESS" /\ subs'[s].status = "SLOT_EXPIRED"
        BY <1>1, <1>4 DEF ExpireSlot, Submission
    <2>2. SameHeld(subs, subs') /\ Slots(subs') \subseteq Slots(subs)
        BY <2>1 DEF SameHeld, HOLDS_MONEY, Slots
    <2> QED
        BY <1>4, <2>2, SameRows DEF ExpireSlot
<1>5. CASE Requests
    BY <1>2, <1>5 DEF Requests, ReadRows, GiveUp
<1>6. CASE UNCHANGED vars
    BY <1>2, <1>6 DEF vars
<1> QED
    BY <1>3, <1>4, <1>5, <1>6, AdvertiserShape, ModerationShape, CreatorsShape, VideosShape
    DEF Next, Jobs

-----------------------------------------------------------------------------
(* The pause and the room left *)

\* Same sums before and after.
LEMMA KeptSums ==
    ASSUME Kept
    PROVE  /\ ExhaustedBy(order', subs', HOLDS_MONEY) = ExhaustedBy(order, subs, HOLDS_MONEY)
           /\ ExhaustedBy(order', subs', ACCRUED) = ExhaustedBy(order, subs, ACCRUED)
BY SameExhausted DEF Kept

LEMMA BusyStep ==
    ASSUME StepInv, TypeInv', [Next]_vars
    PROVE  BusyHonest'
<1>1. CASE Off
    BY <1>1 DEF Off, BusyHonest, PUBLISHED
<1>2. CASE Kept
    <2>1. order'.status \in {"OPEN", "EXPIRED"} => order.status \in {"OPEN", "EXPIRED"}
        BY <1>2 DEF Kept, Reopens
    <2> QED
        BY <1>2, <2>1, KeptSums DEF BusyHonest, StepInv, Kept
<1>3. ASSUME NEW row, Synced(row)
      PROVE  BusyHonest'
    <2>1. row \in Row /\ order' = syncFundBusy(row, subs')
        BY <1>3 DEF Synced
    <2>2. order'.fundBusy = FundBusy(order', subs')
        BY <2>1, SyncFits
    <2> QED
        BY <2>2 DEF BusyHonest, FundBusy
<1> QED
    BY <1>1, <1>2, <1>3, StepShape

\* Steps of the videos close an open order at most, and start no pause of a frozen one.
LEMMA VideoSteps ==
    ASSUME order \in Row, Creators \/ VideoModeration
    PROVE  /\ \/ order'.status = order.status
              \/ order.status = "OPEN" /\ order'.status = "CLOSED"
           /\ order'.offer = order.offer /\ order'.prevTerms = order.prevTerms
           /\ order'.cpm = order.cpm /\ order'.version = order.version
           /\ order'.status \notin FUND_BUSY_STATUSES => (order'.fundBusy => order.fundBusy)
           /\ stale' \subseteq stale /\ vetted' = vetted /\ removed' = removed
<1>1. stale' \subseteq stale /\ vetted' = vetted /\ removed' = removed
    BY DEF Creators, VideoModeration, Claim, AttachVideo, BanCreator, ApproveVideo,
        RejectVideo, PublicationDeleted, FinalizeViews, Answered, history
<1>2. \/ order' = order
      \/ \E ss : order' = syncFundBusy(order, ss)
      \/ \E ss : order' = syncFundBusy(closeIfExhausted(order, ss), ss)
    BY DEF Creators, VideoModeration, Claim, AttachVideo, BanCreator, ApproveVideo,
        RejectVideo, PublicationDeleted, FinalizeViews
<1>3. ASSUME NEW row \in Row, NEW ss, order' = syncFundBusy(row, ss)
      PROVE  /\ order'.status = row.status /\ order'.version = row.version
             /\ order'.offer = row.offer /\ order'.prevTerms = row.prevTerms
             /\ order'.cpm = row.cpm
             /\ order'.status \notin FUND_BUSY_STATUSES => ~order'.fundBusy
    BY <1>3 DEF syncFundBusy, FundBusy, Row
<1>4. ASSUME NEW ss
      PROVE  /\ closeIfExhausted(order, ss) \in Row
             /\ \/ closeIfExhausted(order, ss).status = order.status
                \/ order.status = "OPEN" /\ closeIfExhausted(order, ss).status = "CLOSED"
             /\ closeIfExhausted(order, ss).version = order.version
             /\ closeIfExhausted(order, ss).offer = order.offer
             /\ closeIfExhausted(order, ss).prevTerms = order.prevTerms
             /\ closeIfExhausted(order, ss).cpm = order.cpm
    BY SyncType DEF closeIfExhausted, Row
<1> QED
    BY <1>1, <1>2, <1>3, <1>4

LEMMA ClosedStep ==
    ASSUME StepInv, [Next]_vars
    PROVE  RemovedStaysClosed'
<1>1. order \in Row /\ RemovedStaysClosed
    BY DEF StepInv, FundInv, TypeInv, TypeOK
<1>2. ASSUME removed' = removed, order'.status = order.status
      PROVE  RemovedStaysClosed'
    BY <1>1, <1>2 DEF RemovedStaysClosed
<1>3. ASSUME removed' = removed, order.status \notin {"CLOSED", "DELETED"}
      PROVE  RemovedStaysClosed'
    BY <1>1, <1>3 DEF RemovedStaysClosed
<1>4. CASE Advertiser
    <2>1. CASE Remove
        BY <1>1, <2>1 DEF Remove, RemovedStaysClosed, history, Row
    <2> QED
        BY <1>3, <1>4, <2>1 DEF Advertiser, Create, Update, Close, Extend, history, FROZEN
<1>5. CASE OrderModeration
    <2>1. CASE ModeratorClose
        BY <1>1, <2>1 DEF ModeratorClose, RemovedStaysClosed, Row
    <2>2. CASE BanAdvertiser
        BY <1>1, <2>2 DEF BanAdvertiser, RemovedStaysClosed, Row, FROZEN
    <2> QED
        BY <1>3, <1>5, <2>1, <2>2 DEF OrderModeration, ModeratorApprove, ModeratorReject, history
<1>6. CASE Creators \/ VideoModeration
    BY <1>1, <1>2, <1>3, <1>6, VideoSteps
<1>7. CASE Jobs
    BY <1>2, <1>3, <1>7 DEF Jobs, Expire, ExpireSlot, history
<1>8. CASE Requests \/ UNCHANGED vars
    BY <1>2, <1>8 DEF Requests, ReadRows, GiveUp, vars, history
<1> QED
    BY <1>4, <1>5, <1>6, <1>7, <1>8 DEF Next

LEMMA OffersStep ==
    ASSUME StepInv, TypeInv', [Next]_vars
    PROVE  OffersAgree'
<1>1. order \in Row /\ OffersAgree /\ stale \subseteq Read
    BY DEF StepInv, FundInv, TypeInv, TypeOK
<1>2. ASSUME order'.status # "PENDING_MODERATION"
      PROVE  OffersAgree'
    BY <1>2 DEF OffersAgree
<1>3. ASSUME stale' \subseteq stale, order'.version = order.version,
             order'.status = order.status, order'.offer = order.offer
      PROVE  OffersAgree'
    BY <1>1, <1>3 DEF OffersAgree
<1>4. CASE Advertiser
    <2>1. ASSUME NEW o \in Offers, NEW b \in Budgets, Create(o, b)
          PROVE  OffersAgree'
        BY <2>1 DEF Create, StepInv, FundInv, RatedTogether, OffersAgree
    <2>2. ASSUME NEW seen \in Reads, NEW o \in Offers, NEW b \in Budgets, NEW d \in BOOLEAN,
                 Update(seen, o, b, d)
          PROVE  OffersAgree'
        <3>1. order'.version = order.version + 1 /\ stale' \subseteq stale
            BY <1>1, <2>2 DEF Update, Answered, Row
        <3>2. ASSUME NEW r \in stale
              PROVE  r.order.version # order.version + 1
            <4>1. r.order.version <= order.version
                BY DEF StepInv, FundInv, ReadsAgree, ReadOf
            <4>2. r.order.version \in Nat /\ order.version \in Nat
                BY <1>1 DEF Read, Row
            <4> QED
                BY <4>1, <4>2
        <3> QED
            BY <3>1, <3>2 DEF OffersAgree
    <2>3. ASSUME NEW seen \in Reads, Close(seen)
          PROVE  OffersAgree'
        <3>1. cancelEdit(order) \in Row
            BY <1>1, CancelEditType
        <3>2. order'.status = "CLOSED"
            BY <1>1, <2>3, <3>1 DEF Close, Row
        <3> QED
            BY <1>2, <3>2
    <2>4. CASE Extend \/ Remove
        BY <1>1, <1>2, <2>4 DEF Extend, Remove, Row
    <2> QED
        BY <1>4, <2>1, <2>2, <2>3, <2>4 DEF Advertiser
<1>5. CASE OrderModeration
    <2>1. ASSUME NEW card \in Reads, NEW seen \in Reads, NEW rate \in Rates,
                 ModeratorApprove(card, seen, rate)
          PROVE  OffersAgree'
        <3> DEFINE row1 == [order EXCEPT !.approvedBudget = seen.order.budget, !.cpm = rate]
        <3>1. row1 \in Row
            <4>1. seen.order.budget \in Nat /\ rate \in Nat
                BY ReadsTyped, MoneyAssumption DEF StepInv, FundInv, Read, Row
            <4> QED
                BY <1>1, <4>1 DEF Row
        <3>2. \E st \in {"OPEN", "CLOSED"} :
                  order' = syncFundBusy([row1 EXCEPT !.status = st], subs)
            BY <2>1 DEF ModeratorApprove
        <3> HIDE DEF row1
        <3>3. \A st \in {"OPEN", "CLOSED"} :
                  /\ [row1 EXCEPT !.status = st] \in Row
                  /\ [row1 EXCEPT !.status = st].status = st
            BY <3>1 DEF Row, OrderStatus
        <3>4. order'.status \in {"OPEN", "CLOSED"}
            <4>1. PICK st \in {"OPEN", "CLOSED"} :
                      order' = syncFundBusy([row1 EXCEPT !.status = st], subs)
                BY <3>2
            <4> DEFINE row2 == [row1 EXCEPT !.status = st]
            <4>2. row2 \in Row /\ row2.status = st /\ order' = syncFundBusy(row2, subs)
                BY <3>3, <4>1
            <4> HIDE DEF row2
            <4> QED
                BY <4>2, SyncFits
        <3> QED
            BY <1>2, <3>4
    <2>2. ASSUME NEW card \in Reads, NEW seen \in Reads, ModeratorReject(card, seen)
          PROVE  OffersAgree'
        BY <1>1, <1>2, <2>2 DEF ModeratorReject, Row
    <2>3. CASE ModeratorClose
        <3> DEFINE offer == withoutLink(order.offer)
                   terms == unlinked(order.prevTerms)
                   st == IF order.status \in {"OPEN", "EXPIRED"} THEN "CLOSED" ELSE order.status
        <3>1. /\ order' = [order EXCEPT !.offer = offer, !.prevTerms = terms, !.status = st]
              /\ stale' = stale
            BY <2>3 DEF ModeratorClose
        <3>2. offer.link = FALSE /\ withoutLink(offer) = offer
            BY <1>1, LinkDropped DEF Row
        <3>3. withoutLink(order.offer) = offer
            OBVIOUS
        <3> HIDE DEF offer, terms
        <3>4. order'.offer = offer /\ order'.version = order.version /\ order'.status = st
            BY <1>1, <3>1 DEF Row
        <3>5. order'.status = "PENDING_MODERATION" => order.status = "PENDING_MODERATION"
            BY <3>4
        <3> HIDE DEF st
        <3>6. ASSUME NEW r \in stale', order'.status = "PENDING_MODERATION",
                     r.order.version = order'.version
              PROVE  SameButLink(r.order.offer, order'.offer) /\ ~order'.offer.link
            <4>1. SameButLink(r.order.offer, order.offer)
                BY <1>1, <3>1, <3>4, <3>5, <3>6 DEF OffersAgree
            <4> QED
                BY <3>2, <3>3, <3>4, <4>1 DEF SameButLink
        <3> QED
            BY <3>6 DEF OffersAgree
    <2>4. CASE BanAdvertiser
        BY <1>1, <1>2, <2>4 DEF BanAdvertiser, Row
    <2> QED
        BY <1>5, <2>1, <2>2, <2>3, <2>4 DEF OrderModeration
<1>6. CASE Creators \/ VideoModeration
    BY <1>1, <1>2, <1>3, <1>6, VideoSteps
<1>7. CASE Jobs
    BY <1>1, <1>2, <1>3, <1>7 DEF Jobs, Expire, ExpireSlot, Row
<1>8. CASE ReadRows
    <2>1. order' = order /\ \E r \in 1..MaxStale : stale' = stale \cup {ReadBy(r)}
        BY <1>8 DEF ReadRows
    <2> QED
        BY <1>1, <2>1 DEF OffersAgree, ReadBy, SameButLink
<1>9. CASE UNCHANGED vars \/ \E seen \in stale : GiveUp(seen)
    BY <1>3, <1>9 DEF vars, GiveUp, Answered
<1> QED
    BY <1>4, <1>5, <1>6, <1>7, <1>8, <1>9 DEF Next, Requests

LEMMA StepKeeps == StepInv /\ [Next]_vars => StepInv'
<1> SUFFICES ASSUME StepInv, [Next]_vars PROVE StepInv'
    OBVIOUS
<1>1. FundInv'
    BY FundStep DEF StepInv
<1>2. TypeInv'
    BY <1>1 DEF FundInv
<1> QED
    BY <1>1, <1>2, OffersStep, BusyStep, ClosedStep DEF StepInv

\* A slot is taken where there is room and no pause, unless the order was read
\* before it changed.
LEMMA FreshClaim ==
    ASSUME StepInv, Fresh, NEW seen \in Reads, NEW s \in Sub, Claim(seen, s)
    PROVE  ~order.fundBusy /\ ~FundBusy(order, subs)
<1>1. seen.order = order /\ seen.exhausted = ExhaustedBy(order, subs, HOLDS_MONEY)
    BY FreshSeen DEF Claim
<1> QED
    BY <1>1 DEF Claim, StepInv, BusyHonest, FundBusy

LEMMA SyncStep ==
    ASSUME StepInv, TypeInv', [Next]_vars, ~Reopens
    PROVE  /\ OpenNotExhausted => OpenNotExhausted'
           /\ Fresh /\ PauseExact => PauseExact'
<1>1. CASE Off
    BY <1>1 DEF Off, OpenNotExhausted, PauseExact, PUBLISHED, FUND_BUSY_STATUSES
<1>2. CASE Kept
    <2>1. \/ order'.status = order.status
          \/ order.status = "OPEN" /\ order'.status \in {"CLOSED", "EXPIRED"}
        BY <1>2 DEF Kept
    <2>2. OpenNotExhausted => OpenNotExhausted'
        BY <1>2, <2>1, KeptSums DEF OpenNotExhausted
    <2>3. FundBusy(order', subs') = FundBusy(order, subs)
          \/ order'.status \notin FUND_BUSY_STATUSES
        BY <1>2, <2>1, KeptSums DEF FundBusy, FUND_BUSY_STATUSES
    <2>4. ASSUME Fresh, PauseExact, order'.status \in FUND_BUSY_STATUSES, Slots(subs') # {}
          PROVE  order'.fundBusy <=> FundBusy(order', subs')
        <3>1. order.status \in FUND_BUSY_STATUSES
            BY <2>1, <2>4 DEF FUND_BUSY_STATUSES
        <3>2. CASE Slots(subs) # {}
            BY <1>2, <2>3, <2>4, <3>1, <3>2 DEF PauseExact, Kept
        <3>3. CASE Slots(subs) = {}
            <4>1. \E seen \in Reads, s \in Sub : Claim(seen, s)
                BY <1>2, <2>4, <3>3 DEF Kept
            <4>2. ~order.fundBusy /\ ~FundBusy(order, subs)
                BY <2>4, <4>1, FreshClaim
            <4> QED
                BY <1>2, <2>3, <2>4, <4>2 DEF Kept
        <3> QED
            BY <3>2, <3>3
    <2> QED
        BY <2>2, <2>4 DEF PauseExact
<1>3. ASSUME NEW row, Synced(row)
      PROVE  PauseExact' /\ (OpenNotExhausted => OpenNotExhausted')
    <2>1. row \in Row /\ order' = syncFundBusy(row, subs')
        BY <1>3 DEF Synced
    <2>2. /\ order'.fundBusy = FundBusy(order', subs') /\ order'.status = row.status
          /\ SamePlan(row, order')
        BY <2>1, SyncFits
    <2>3. ExhaustedBy(order', subs', ACCRUED) = ExhaustedBy(row, subs', ACCRUED)
        BY <2>2, NothingChanged, SameExhausted
    <2> QED
        BY <1>3, <2>2, <2>3 DEF PauseExact, OpenNotExhausted, Synced
<1> QED
    BY <1>1, <1>2, <1>3, StepShape

\* Whatever requests interleave, no step but the reopening leaves an open order
\* used up, and none leaves a slot whose pause does not fit the sums, but for a
\* claim on a read of the order before it was closed (syncFundBusy,
\* closeIfExhausted and moderatorApprove; claim in submissions.service.ts).
THEOREM AlwaysSynced == Spec => SyncKept
<1>1. StepInv /\ StepInv' /\ [Next]_vars =>
          [~Reopens => /\ OpenNotExhausted => OpenNotExhausted'
                       /\ Fresh /\ PauseExact => PauseExact']_vars
    BY SyncStep DEF StepInv, FundInv
<1> QED
    BY <1>1, StepInit, StepKeeps, PTL DEF Spec, SyncKept

-----------------------------------------------------------------------------
(* What is published *)

\* Only an approval opens an order on review.
LEMMA OnlyApproved ==
    ASSUME order \in Row, Next, order.status = "PENDING_MODERATION", order'.status = "OPEN"
    PROVE  \E card, seen \in Reads, rate \in Rates : ModeratorApprove(card, seen, rate)
<1>1. ~Advertiser
    <2>1. ASSUME NEW seen \in Reads, Close(seen)
          PROVE  FALSE
        <3>1. cancelEdit(order) \in Row
            BY CancelEditType
        <3>2. order'.status = "CLOSED"
            BY <2>1, <3>1 DEF Close, Row
        <3> QED
            BY <3>2
    <2> QED
        BY <2>1 DEF Advertiser, Create, Update, Extend, Remove, Row
<1>2. ~(Creators \/ VideoModeration)
    BY VideoSteps
<1>3. ~(Jobs \/ Requests)
    BY DEF Jobs, Requests, Expire, ExpireSlot, ReadRows, GiveUp
<1>4. ~BanAdvertiser /\ ~ModeratorClose /\ ~ \E card, seen \in Reads : ModeratorReject(card, seen)
    BY DEF BanAdvertiser, ModeratorClose, ModeratorReject, Row
<1> QED
    BY <1>1, <1>2, <1>3, <1>4 DEF Next, OrderModeration

\* What is approved is the order of the card, with the link if the card has it.
LEMMA ApprovedIsSeen ==
    ASSUME StepInv, NEW card \in Reads, NEW seen \in Reads, NEW rate \in Rates,
           ModeratorApprove(card, seen, rate)
    PROVE  /\ order'.status \in {"OPEN", "CLOSED"}
           /\ order'.budget = order'.approvedBudget
           /\ SameButLink(order'.offer, vetted')
           /\ order'.offer.link => vetted'.link
<1>1. order \in Row /\ order.status = "PENDING_MODERATION"
    BY DEF StepInv, FundInv, TypeInv, TypeOK, ModeratorApprove
<1>2. Exists(seen.order) /\ Exists(card.order)
    BY <1>1, SeenExists DEF Exists
<1>3. seen.order.version = order.version /\ card.order.version = order.version
    BY <1>2, DecidedVersion DEF ModeratorApprove
<1>4. seen.order.budget = order.budget
    BY <1>1, <1>2, <1>3, SeenAgrees
<1> DEFINE row1 == [order EXCEPT !.approvedBudget = order.budget, !.cpm = rate]
<1>5. \E st \in {"OPEN", "CLOSED"} : order' = syncFundBusy([row1 EXCEPT !.status = st], subs)
    BY <1>4 DEF ModeratorApprove
<1>6. PICK st \in {"OPEN", "CLOSED"} : order' = syncFundBusy([row1 EXCEPT !.status = st], subs)
    BY <1>5
<1> DEFINE row2 == [row1 EXCEPT !.status = st]
<1>7. /\ row2 \in Row /\ row2.status = st /\ row2.offer = order.offer
      /\ row2.budget = order.budget /\ row2.approvedBudget = order.budget
    <2>1. rate \in Nat
        BY MoneyAssumption
    <2> QED
        BY <1>1, <2>1 DEF Row, OrderStatus
<1>8. order' = syncFundBusy(row2, subs)
    BY <1>6
<1> HIDE DEF row2
<1>9. /\ order'.status = st /\ order'.offer = order.offer
      /\ order'.budget = order.budget /\ order'.approvedBudget = order.budget
    BY <1>7, <1>8 DEF syncFundBusy, Row
<1>10. /\ SameButLink(card.order.offer, order.offer)
       /\ order.offer.link => card.order.offer.link
    BY <1>1, <1>2, <1>3, SeenAgrees
<1>11. vetted' = card.order.offer
    BY DEF ModeratorApprove
<1> QED
    BY <1>9, <1>10, <1>11 DEF SameButLink

\* However many edits and reviews run at once, what an approval opens is what was
\* on the moderator's screen, on the budget approved with it (the version guard of
\* transitionOrder, and moderatorApprove in orders.service.ts).
THEOREM AlwaysApprovedAsSeen == Spec => ApprovedAsSeen
<1>1. StepInv /\ [Next]_vars =>
          [order.status = "PENDING_MODERATION" /\ order'.status = "OPEN" =>
              /\ SameButLink(order'.offer, vetted')
              /\ order'.budget = order'.approvedBudget]_vars
    <2> SUFFICES ASSUME StepInv, Next,
                        order.status = "PENDING_MODERATION", order'.status = "OPEN"
                 PROVE  /\ SameButLink(order'.offer, vetted')
                        /\ order'.budget = order'.approvedBudget
        OBVIOUS
    <2>1. order \in Row
        BY DEF StepInv, FundInv, TypeInv, TypeOK
    <2> QED
        BY <2>1, OnlyApproved, ApprovedIsSeen
<1> QED
    BY <1>1, StepInit, StepKeeps, PTL DEF Spec, ApprovedAsSeen

-----------------------------------------------------------------------------
(* No harm on a read that still holds: the order *)

OrderIntact ==
    /\ FrozenNotBusy /\ SnapshotVetted
    /\ ShownOfferVetted /\ RemovedLinkStaysOut

\* Out of sight, and not frozen either.
LEMMA HiddenIntact ==
    ASSUME order'.status \notin PUBLISHED, ~isFrozen(order')
    PROVE  OrderIntact'
BY DEF OrderIntact, FrozenNotBusy, SnapshotVetted, ShownOfferVetted, RemovedLinkStaysOut,
    PUBLISHED

\* The same order, published or frozen no sooner than it was.
LEMMA SameIntact ==
    ASSUME OrderIntact, vetted' = vetted, order'.offer = order.offer,
           order'.prevTerms = order.prevTerms,
           order'.status \in PUBLISHED => order.status \in PUBLISHED,
           isFrozen(order') => isFrozen(order) /\ (order'.fundBusy => order.fundBusy)
    PROVE  OrderIntact'
BY DEF OrderIntact, FrozenNotBusy, SnapshotVetted, ShownOfferVetted, RemovedLinkStaysOut,
    PUBLISHED

LEMMA AdvertiserIntact ==
    ASSUME StepInv, Fresh, OrderIntact, Advertiser
    PROVE  OrderIntact'
<1>1. order \in Row
    BY DEF StepInv, FundInv, TypeInv, TypeOK
<1>2. ASSUME NEW o \in Offers, NEW b \in Budgets, Create(o, b)
      PROVE  OrderIntact'
    BY <1>2, HiddenIntact DEF Create, isFrozen, PUBLISHED
<1>3. ASSUME NEW seen \in Reads, NEW o \in Offers, NEW b \in Budgets, NEW d \in BOOLEAN,
             Update(seen, o, b, d)
      PROVE  OrderIntact'
    <2>1. seen.order = order
        BY <1>3, FreshSeen DEF Update
    <2> DEFINE kept == IF startsFreeze(order) THEN termsOf(order) ELSE order.prevTerms
               busy == busyAfterEdit(order.fundBusy, order)
    <2>2. /\ order' = [order EXCEPT !.status = "PENDING_MODERATION", !.offer = o,
                                    !.budget = b, !.version = order.version + 1,
                                    !.prevTerms = kept, !.fundBusy = busy]
          /\ order.status \in FROZEN \cup {"OPEN"} /\ vetted' = vetted
        BY <1>3, <2>1 DEF Update, history
    <2> HIDE DEF kept, busy
    <2>3. /\ order'.status = "PENDING_MODERATION" /\ order'.cpm = order.cpm
          /\ order'.prevTerms = kept /\ order'.fundBusy = busy
        BY <1>1, <2>2 DEF Row
    <2>4. order'.status \notin PUBLISHED
        BY <2>3 DEF PUBLISHED
    <2>5. CASE startsFreeze(order)
        <3>1. order.status = "OPEN" /\ kept = termsOf(order) /\ ~busy
            BY <2>5 DEF startsFreeze, kept, busy, busyAfterEdit
        <3>2. termsOf(order) \in Terms /\ termsOf(order).offer = order.offer
            BY <1>1 DEF termsOf, Terms, Row
        <3>3. kept # NoTerms
            BY <3>1, <3>2, OffersAssumption
        <3>4. FrozenNotBusy' /\ SnapshotVetted'
            BY <2>2, <2>3, <3>1, <3>2, <3>3
            DEF FrozenNotBusy, SnapshotVetted, OrderIntact, ShownOfferVetted,
                RemovedLinkStaysOut
        <3> QED
            BY <2>4, <3>4 DEF OrderIntact, ShownOfferVetted, RemovedLinkStaysOut, PUBLISHED
    <2>6. CASE ~startsFreeze(order)
        <3>1. order.status \in FROZEN /\ kept = order.prevTerms /\ (busy => order.fundBusy)
            BY <2>2, <2>6 DEF startsFreeze, kept, busy, busyAfterEdit
        <3>2. isFrozen(order') => isFrozen(order)
            BY <2>3, <3>1 DEF isFrozen
        <3>3. FrozenNotBusy' /\ SnapshotVetted'
            BY <2>2, <2>3, <3>1, <3>2 DEF FrozenNotBusy, SnapshotVetted, OrderIntact
        <3> QED
            BY <2>4, <3>3 DEF OrderIntact, ShownOfferVetted, RemovedLinkStaysOut, PUBLISHED
    <2> QED
        BY <2>5, <2>6
<1>4. ASSUME NEW seen \in Reads, Close(seen)
      PROVE  OrderIntact'
    <2>1. seen.order = order /\ vetted' = vetted
        BY <1>4, FreshSeen DEF Close, history
    <2>2. CASE isFrozen(order)
        <3> DEFINE row == cancelEdit(order)
        <3>1. row \in Row
            BY <1>1, CancelEditType
        <3>2. row.offer = order.prevTerms.offer
            BY <1>1, <2>2 DEF cancelEdit, OrderIntact, SnapshotVetted, Row
        <3>3. order' = [row EXCEPT !.status = "CLOSED"]
            BY <1>4, <2>1, <2>2 DEF Close
        <3> HIDE DEF row
        <3>4. order'.offer = order.prevTerms.offer /\ order'.status = "CLOSED"
            BY <3>1, <3>2, <3>3 DEF Row
        <3>5. ShownOfferVetted' /\ RemovedLinkStaysOut'
            BY <2>1, <2>2, <3>4
            DEF OrderIntact, SnapshotVetted, ShownOfferVetted, RemovedLinkStaysOut
        <3> QED
            BY <3>4, <3>5 DEF OrderIntact, FrozenNotBusy, SnapshotVetted, isFrozen, FROZEN
    <2>3. CASE ~isFrozen(order)
        <3>1. order' = [order EXCEPT !.status = "CLOSED"] /\ order.status = "OPEN"
            BY <1>4, <2>1, <2>3 DEF Close
        <3>2. /\ order'.status = "CLOSED" /\ order'.offer = order.offer
              /\ order'.prevTerms = order.prevTerms
            BY <1>1, <3>1 DEF Row
        <3> QED
            BY <2>1, <3>1, <3>2, SameIntact DEF isFrozen, FROZEN, PUBLISHED
    <2> QED
        BY <2>2, <2>3
<1>5. CASE Extend
    <2>1. /\ order'.status = "OPEN" /\ order'.offer = order.offer
          /\ order'.prevTerms = order.prevTerms
        BY <1>1, <1>5 DEF Extend, Row
    <2> QED
        BY <1>5, <2>1, SameIntact DEF Extend, isFrozen, FROZEN, PUBLISHED, history
<1>6. CASE Remove
    <2>1. order'.status = "DELETED"
        BY <1>1, <1>6 DEF Remove, Row
    <2> QED
        BY <2>1, HiddenIntact DEF isFrozen, FROZEN, PUBLISHED
<1> QED
    BY <1>2, <1>3, <1>4, <1>5, <1>6 DEF Advertiser

\* Taking the link away takes it from all that may be shown.
LEMMA UnlinkedIntact ==
    ASSUME StepInv, OrderIntact, ModeratorClose, vetted \in Offers
    PROVE  OrderIntact'
<1>1. order \in Row
    BY DEF StepInv, FundInv, TypeInv, TypeOK
<1> DEFINE offer == withoutLink(order.offer)
           terms == unlinked(order.prevTerms)
           st == IF order.status \in {"OPEN", "EXPIRED"} THEN "CLOSED" ELSE order.status
<1>2. /\ order' = [order EXCEPT !.offer = offer, !.prevTerms = terms, !.status = st]
      /\ vetted' = withoutLink(vetted)
    BY DEF ModeratorClose
<1>3. offer.link = FALSE /\ withoutLink(offer) = offer
    BY <1>1, LinkDropped DEF Row
<1>4. vetted'.link = FALSE /\ withoutLink(vetted') = vetted'
    BY <1>2, LinkDropped
<1>5. SameButLink(order.offer, vetted) => offer = vetted'
    BY <1>2 DEF SameButLink
<1>6. order.prevTerms # NoTerms /\ SameButLink(order.prevTerms.offer, vetted) =>
          terms # NoTerms /\ terms.offer = vetted'
    <2>1. order.prevTerms \in Terms \cup {NoTerms}
        BY <1>1 DEF Row
    <2>2. terms # NoTerms <=> order.prevTerms # NoTerms
        BY <2>1, UnlinkedType
    <2>3. ASSUME order.prevTerms # NoTerms
          PROVE  terms.offer = withoutLink(order.prevTerms.offer)
        BY <2>1, <2>3 DEF unlinked, Terms
    <2> QED
        BY <1>2, <2>2, <2>3 DEF SameButLink
<1> HIDE DEF offer, terms
<1>7. /\ order'.offer = offer /\ order'.prevTerms = terms /\ order'.status = st
      /\ order'.cpm = order.cpm /\ order'.fundBusy = order.fundBusy
    BY <1>1, <1>2 DEF Row
<1>8. isFrozen(order') => isFrozen(order)
    BY <1>7 DEF isFrozen, FROZEN
<1>9. order'.status \in PUBLISHED => order.status \in PUBLISHED
    BY <1>7 DEF PUBLISHED
<1> HIDE DEF st
<1>10. FrozenNotBusy' /\ SnapshotVetted'
    BY <1>3, <1>4, <1>6, <1>7, <1>8 DEF OrderIntact, FrozenNotBusy, SnapshotVetted, SameButLink
<1>11. ShownOfferVetted' /\ RemovedLinkStaysOut'
    BY <1>3, <1>4, <1>5, <1>7, <1>9
    DEF OrderIntact, ShownOfferVetted, RemovedLinkStaysOut, SameButLink, PUBLISHED
<1> QED
    BY <1>10, <1>11 DEF OrderIntact

LEMMA ModerationIntact ==
    ASSUME StepInv, OrderIntact, OrderModeration
    PROVE  OrderIntact'
<1>1. order \in Row /\ vetted \in Offers
    BY DEF StepInv, FundInv, TypeInv, TypeOK
<1>2. ASSUME NEW card \in Reads, NEW seen \in Reads, NEW rate \in Rates,
             ModeratorApprove(card, seen, rate)
      PROVE  OrderIntact'
    <2>1. order'.status \in {"OPEN", "CLOSED"} /\ SameButLink(order'.offer, vetted')
          /\ (order'.offer.link => vetted'.link)
        BY <1>2, ApprovedIsSeen
    <2> QED
        BY <2>1 DEF OrderIntact, FrozenNotBusy, SnapshotVetted, ShownOfferVetted,
            RemovedLinkStaysOut, isFrozen, FROZEN
<1>3. ASSUME NEW card \in Reads, NEW seen \in Reads, ModeratorReject(card, seen)
      PROVE  OrderIntact'
    <2>1. \E st \in {"REJECTED", "EDIT_REJECTED"} : order' = [order EXCEPT !.status = st]
        BY <1>3 DEF ModeratorReject
    <2>2. /\ order'.status \in {"REJECTED", "EDIT_REJECTED"} /\ order'.offer = order.offer
          /\ order'.prevTerms = order.prevTerms /\ order'.cpm = order.cpm
          /\ order'.fundBusy = order.fundBusy
        BY <1>1, <2>1 DEF Row
    <2>3. vetted' = vetted /\ order.status = "PENDING_MODERATION"
        BY <1>3 DEF ModeratorReject, history
    <2> QED
        BY <2>2, <2>3, SameIntact DEF isFrozen, FROZEN, PUBLISHED
<1>4. CASE BanAdvertiser
    <2>1. \E st \in {"CLOSED", "REJECTED"} :
              /\ order' = [order EXCEPT !.status = st]
              /\ st = "CLOSED" => order.status = "OPEN"
        BY <1>4 DEF BanAdvertiser
    <2>2. /\ order'.status \in {"CLOSED", "REJECTED"} /\ order'.offer = order.offer
          /\ order'.prevTerms = order.prevTerms
          /\ order'.status = "CLOSED" => order.status = "OPEN"
        BY <1>1, <2>1 DEF Row
    <2>3. vetted' = vetted
        BY <1>4 DEF BanAdvertiser
    <2> QED
        BY <2>2, <2>3, SameIntact DEF isFrozen, FROZEN, PUBLISHED
<1> QED
    BY <1>1, <1>2, <1>3, <1>4, UnlinkedIntact DEF OrderModeration

LEMMA OrderStep ==
    ASSUME StepInv, Fresh, OrderIntact, [Next]_vars
    PROVE  OrderIntact'
<1>1. order \in Row
    BY DEF StepInv, FundInv, TypeInv, TypeOK
<1>2. CASE Creators \/ VideoModeration
    <2>1. /\ \/ order'.status = order.status
             \/ order.status = "OPEN" /\ order'.status = "CLOSED"
          /\ order'.offer = order.offer /\ order'.prevTerms = order.prevTerms
          /\ order'.cpm = order.cpm /\ vetted' = vetted
          /\ order'.status \notin FUND_BUSY_STATUSES => (order'.fundBusy => order.fundBusy)
        BY <1>1, <1>2, VideoSteps
    <2> QED
        BY <2>1, SameIntact DEF isFrozen, FROZEN, PUBLISHED, FUND_BUSY_STATUSES
<1>3. CASE Expire
    <2>1. /\ order'.status = "EXPIRED" /\ order'.offer = order.offer
          /\ order'.prevTerms = order.prevTerms
        BY <1>1, <1>3 DEF Expire, Row
    <2> QED
        BY <1>3, <2>1, SameIntact DEF Expire, history, isFrozen, FROZEN, PUBLISHED
<1>4. ASSUME order' = order, vetted' = vetted
      PROVE  OrderIntact'
    BY <1>4, SameIntact
<1>5. CASE Requests \/ UNCHANGED vars \/ \E s \in Sub : ExpireSlot(s)
    BY <1>4, <1>5 DEF Requests, ReadRows, GiveUp, ExpireSlot, history, vars
<1> QED
    BY <1>2, <1>3, <1>5, AdvertiserIntact, ModerationIntact DEF Next, Jobs

-----------------------------------------------------------------------------
(* No harm on a read that still holds: the submissions *)

\* A slot is only taken by a claim, a video only sent for review by its creator.
ClaimedOrSlot(s) ==
    subs'[s].status = "IN_PROGRESS" =>
        \/ subs[s].status = "IN_PROGRESS"
        \/ \E seen \in Reads : Claim(seen, s)

SentOrOnReview(s) ==
    subs'[s].status = "SUBMITTED" =>
        \/ subs'[s] = subs[s]
        \/ \E seen \in Reads, v \in Video, n \in ViewCounts : AttachVideo(seen, s, v, n)

LEMMA HelperRows ==
    ASSUME NEW s \in Sub, NEW ss \in [Sub -> Submission], NEW who, NEW c
    PROVE  /\ expireSlots(ss) \in [Sub -> Submission]
           /\ expireSlots(ss)[s].status # "IN_PROGRESS"
           /\ expireSlots(ss)[s].status = "SUBMITTED" => expireSlots(ss)[s] = ss[s]
           /\ rejectSubmitted(ss, who)[s].status \in {"IN_PROGRESS", "SUBMITTED"} =>
                  rejectSubmitted(ss, who)[s] = ss[s]
           /\ deleteInProgress(ss, c) \in [Sub -> Submission]
           /\ deleteInProgress(ss, c)[s].status \in {"IN_PROGRESS", "SUBMITTED"} =>
                  deleteInProgress(ss, c)[s] = ss[s]
BY DEF expireSlots, rejectSubmitted, deleteInProgress, Submission, SubStatus

LEMMA RowSteps ==
    ASSUME StepInv, [Next]_vars, NEW s \in Sub
    PROVE  ClaimedOrSlot(s) /\ SentOrOnReview(s)
<1>1. subs \in [Sub -> Submission]
    BY DEF StepInv, FundInv, TypeInv, TypeOK
<1>2. ASSUME subs'[s].status \in {"IN_PROGRESS", "SUBMITTED"} => subs'[s] = subs[s]
      PROVE  ClaimedOrSlot(s) /\ SentOrOnReview(s)
    BY <1>2 DEF ClaimedOrSlot, SentOrOnReview
<1>3. ASSUME subs' \in {subs, expireSlots(subs), rejectSubmitted(expireSlots(subs), Creator)}
      PROVE  ClaimedOrSlot(s) /\ SentOrOnReview(s)
    <2>1. /\ expireSlots(subs) \in [Sub -> Submission]
          /\ expireSlots(subs)[s].status \in {"IN_PROGRESS", "SUBMITTED"} =>
                 expireSlots(subs)[s] = subs[s]
        BY <1>1, HelperRows
    <2>2. rejectSubmitted(expireSlots(subs), Creator)[s].status \in {"IN_PROGRESS", "SUBMITTED"} =>
              rejectSubmitted(expireSlots(subs), Creator)[s] = expireSlots(subs)[s]
        BY <2>1, HelperRows
    <2> QED
        BY <1>2, <1>3, <2>1, <2>2
<1>4. CASE Advertiser
    <2>1. CASE Remove
        <3>1. subs'[s].status \in {"NONE", "DELETED"}
            BY <2>1 DEF Remove, NoSubmission
        <3> QED
            BY <1>2, <3>1
    <2>2. CASE subs' \in {subs, expireSlots(subs)}
        BY <1>3, <2>2
    <2> QED
        BY <1>4, <2>1, <2>2 DEF Advertiser, Create, Update, Close, Extend
<1>5. CASE OrderModeration
    <2>1. subs' \in {subs, expireSlots(subs), rejectSubmitted(expireSlots(subs), Creator)}
        BY <1>5 DEF OrderModeration, ModeratorApprove, ModeratorReject, ModeratorClose,
            BanAdvertiser, history
    <2> QED
        BY <1>3, <2>1
<1>6. ASSUME NEW seen \in Reads, NEW t \in Sub, Claim(seen, t)
      PROVE  ClaimedOrSlot(s) /\ SentOrOnReview(s)
    <2>1. CASE t = s
        <3>1. subs'[s].status = "IN_PROGRESS"
            BY <1>1, <1>6, <2>1 DEF Claim, Submission
        <3> QED
            BY <1>6, <2>1, <3>1 DEF ClaimedOrSlot, SentOrOnReview
    <2>2. CASE t # s
        BY <1>1, <1>2, <1>6, <2>2 DEF Claim
    <2> QED
        BY <2>1, <2>2
<1>7. ASSUME NEW seen \in Reads, NEW t \in Sub, NEW v \in Video, NEW n \in ViewCounts,
             AttachVideo(seen, t, v, n)
      PROVE  ClaimedOrSlot(s) /\ SentOrOnReview(s)
    <2>1. CASE t = s
        <3>1. subs'[s].status = "SUBMITTED"
            BY <1>1, <1>7, <2>1 DEF AttachVideo, Submission
        <3> QED
            BY <1>7, <2>1, <3>1 DEF ClaimedOrSlot, SentOrOnReview
    <2>2. CASE t # s
        BY <1>1, <1>2, <1>7, <2>2 DEF AttachVideo
    <2> QED
        BY <2>1, <2>2
<1>8. ASSUME NEW c \in Creator, BanCreator(c)
      PROVE  ClaimedOrSlot(s) /\ SentOrOnReview(s)
    <2> DEFINE ss == deleteInProgress(subs, c)
    <2>1. /\ ss \in [Sub -> Submission]
          /\ ss[s].status \in {"IN_PROGRESS", "SUBMITTED"} => ss[s] = subs[s]
        BY <1>1, HelperRows
    <2>2. subs' = rejectSubmitted(ss, {c})
        BY <1>8 DEF BanCreator
    <2> HIDE DEF ss
    <2>3. subs'[s].status \in {"IN_PROGRESS", "SUBMITTED"} => subs'[s] = ss[s]
        BY <2>1, <2>2, HelperRows
    <2> QED
        BY <1>2, <2>1, <2>3
<1>9. ASSUME NEW t \in Sub, t # s => subs'[s] = subs[s],
              subs'[t].status \notin {"IN_PROGRESS", "SUBMITTED"}
       PROVE  ClaimedOrSlot(s) /\ SentOrOnReview(s)
    BY <1>2, <1>9
<1>10. CASE VideoModeration
    <2>1. ASSUME NEW t \in Sub, NEW n \in ViewCounts, ApproveVideo(t, n)
          PROVE  ClaimedOrSlot(s) /\ SentOrOnReview(s)
        <3>1. t # s => subs'[s] = subs[s]
            BY <1>1, <2>1 DEF ApproveVideo
        <3>2. subs'[t].status = "MODERATOR_APPROVED"
            BY <1>1, <2>1 DEF ApproveVideo, Submission
        <3> QED
            BY <1>9, <3>1, <3>2
    <2>2. ASSUME NEW t \in Sub, NEW i \in BOOLEAN, RejectVideo(t, i)
          PROVE  ClaimedOrSlot(s) /\ SentOrOnReview(s)
        <3>1. t # s => subs'[s] = subs[s]
            BY <1>1, <2>2 DEF RejectVideo
        <3>2. subs'[t].status = "MODERATOR_REJECTED"
            BY <1>1, <2>2 DEF RejectVideo, Submission
        <3> QED
            BY <1>9, <3>1, <3>2
    <2>3. ASSUME NEW t \in Sub, PublicationDeleted(t)
          PROVE  ClaimedOrSlot(s) /\ SentOrOnReview(s)
        <3>1. t # s => subs'[s] = subs[s]
            BY <1>1, <2>3 DEF PublicationDeleted
        <3>2. subs'[t].status = "MODERATOR_REJECTED"
            BY <1>1, <2>3 DEF PublicationDeleted, Submission
        <3> QED
            BY <1>9, <3>1, <3>2
    <2>4. ASSUME NEW t \in Sub, NEW n \in ViewCounts, FinalizeViews(t, n)
          PROVE  ClaimedOrSlot(s) /\ SentOrOnReview(s)
        <3>1. t # s => subs'[s] = subs[s]
            BY <1>1, <2>4 DEF FinalizeViews
        <3>2. subs'[t].status = "MODERATOR_APPROVED"
            BY <1>1, <2>4 DEF FinalizeViews, Submission
        <3> QED
            BY <1>9, <3>1, <3>2
    <2> QED
        BY <1>10, <2>1, <2>2, <2>3, <2>4 DEF VideoModeration
<1>11. ASSUME NEW t \in Sub, ExpireSlot(t)
       PROVE  ClaimedOrSlot(s) /\ SentOrOnReview(s)
    <2>1. t # s => subs'[s] = subs[s]
        BY <1>1, <1>11 DEF ExpireSlot
    <2>2. subs'[t].status = "SLOT_EXPIRED"
        BY <1>1, <1>11 DEF ExpireSlot, Submission
    <2> QED
        BY <1>9, <2>1, <2>2
<1>12. CASE Expire \/ Requests \/ UNCHANGED vars
    BY <1>3, <1>12 DEF Expire, Requests, ReadRows, GiveUp, vars
<1> QED
    BY <1>4, <1>5, <1>6, <1>7, <1>8, <1>10, <1>11, <1>12 DEF Next, Creators, Jobs

LEMMA RemovedStep ==
    ASSUME StepInv, Fresh, RemovedTakesNoVideos, [Next]_vars
    PROVE  RemovedTakesNoVideos'
<1>1. ASSUME NEW seen \in Reads, NEW s \in Sub, Claim(seen, s)
      PROVE  ~removed'
    <2>1. order.status = "OPEN"
        BY <1>1, FreshSeen DEF Claim
    <2> QED
        BY <1>1, <2>1 DEF Claim, history, StepInv, RemovedStaysClosed
<1>2. CASE \E seen \in Reads, s \in Sub : Claim(seen, s)
    BY <1>1, <1>2 DEF RemovedTakesNoVideos
<1>3. CASE ~ \E seen \in Reads, s \in Sub : Claim(seen, s)
    <2>1. Slots(subs') \subseteq Slots(subs)
        BY <1>3, RowSteps DEF Slots, ClaimedOrSlot
    <2>2. removed' = removed \/ ModeratorClose \/ BanAdvertiser
        BY DEF Next, Advertiser, OrderModeration, Creators, VideoModeration, Jobs, Requests,
            Create, Update, Close, Extend, Remove, ModeratorApprove, ModeratorReject, Claim,
            AttachVideo, BanCreator, ApproveVideo, RejectVideo, PublicationDeleted,
            FinalizeViews, Expire, ExpireSlot, ReadRows, GiveUp, history, vars
    <2>3. CASE ModeratorClose \/ BanAdvertiser
        <3>1. removed' = removed \/ Slots(subs') = {}
            BY <2>3, NoSlotsLeft DEF ModeratorClose, BanAdvertiser, StepInv, FundInv, TypeInv,
                TypeOK
        <3> QED
            BY <2>1, <3>1 DEF RemovedTakesNoVideos
    <2> QED
        BY <2>1, <2>2, <2>3 DEF RemovedTakesNoVideos
<1> QED
    BY <1>2, <1>3

\* What a creator sends for review on a read that still holds.
LEMMA FreshVideo ==
    ASSUME StepInv, Fresh, NEW seen \in Reads, NEW s \in Sub, NEW v \in Video,
           NEW n \in ViewCounts, AttachVideo(seen, s, v, n)
    PROVE  /\ subs'[s].views >= subs'[s].terms.offer.minViews
           /\ subs'[s].video \notin Inflated(subs)
<1>1. subs \in [Sub -> Submission]
    BY DEF StepInv, FundInv, TypeInv, TypeOK
<1>2. seen.order = order /\ seen.inflated = Inflated(subs)
    BY FreshSeen DEF AttachVideo
<1>3. \E p : subs' = [subs EXCEPT ![s] =
                        [subs[s] EXCEPT !.status = "SUBMITTED", !.video = v, !.views = n,
                                        !.payout = p, !.terms = termsOf(order)]]
    BY DEF AttachVideo
<1>4. /\ subs'[s].views = n /\ subs'[s].video = v /\ subs'[s].terms = termsOf(order)
    BY <1>1, <1>3 DEF Submission
<1> QED
    BY <1>2, <1>4 DEF AttachVideo, termsOf

LEMMA HarmStep ==
    ASSUME StepInv, Fresh, [Next]_vars
    PROVE  /\ Intact => Intact'
           /\ \A s \in Sub :
                 subs[s].status = "IN_PROGRESS" /\ subs'[s].status = "SUBMITTED" =>
                     subs'[s].video \notin Inflated(subs)
<1>1. Intact => OrderIntact /\ OrderIntact'
    BY OrderStep DEF Intact, OrderIntact
<1>2. Intact => RemovedTakesNoVideos'
    BY RemovedStep DEF Intact
<1>3. ASSUME ThresholdMet, NEW s \in Sub, subs'[s].status = "SUBMITTED"
      PROVE  subs'[s].views >= subs'[s].terms.offer.minViews
    <2>1. CASE subs'[s] = subs[s]
        BY <1>3, <2>1 DEF ThresholdMet
    <2> QED
        BY <1>3, <2>1, RowSteps, FreshVideo DEF SentOrOnReview
<1>4. ASSUME NEW s \in Sub, subs[s].status = "IN_PROGRESS", subs'[s].status = "SUBMITTED"
      PROVE  subs'[s].video \notin Inflated(subs)
    BY <1>4, RowSteps, FreshVideo DEF SentOrOnReview
<1> QED
    BY <1>1, <1>2, <1>3, <1>4 DEF Intact, OrderIntact, ThresholdMet

\* Whatever the requests in flight have read, a step that decides on what is still
\* there publishes no unvetted offer and no removed link, keeps the two pauses apart,
\* and takes no video that is too small, inflated or of a removed order (update and
\* close in orders.service.ts, claim and attachVideo in submissions.service.ts).
THEOREM FreshReadsDoNoHarm == Spec => HarmOnlyByStaleRead
<1>1. StepInv /\ [Next]_vars =>
          [Fresh => /\ Intact => Intact'
                    /\ \A s \in Sub :
                          subs[s].status = "IN_PROGRESS" /\ subs'[s].status = "SUBMITTED" =>
                              subs'[s].video \notin Inflated(subs)]_vars
    BY HarmStep
<1> QED
    BY <1>1, StepInit, StepKeeps, PTL DEF Spec, HarmOnlyByStaleRead

=============================================================================
