--------------------------- MODULE Services_proofs ---------------------------
(***************************************************************************)
(* Theorems about three services of the backend that share nothing: the    *)
(* payouts of a creator, for any videos, accruals, amounts and calls; the  *)
(* support chat, for any users, messages, limits and topics; the lease of  *)
(* the background tasks, for any number of copies and any interval.        *)
(***************************************************************************)
EXTENDS Payouts, Talk, JobLease, FiniteSetTheorems, TLAPS

-----------------------------------------------------------------------------
(* Sums *)

CentsOf(rows, cents) == UNION {{x} \X (1..cents[x]) : x \in rows}

LEMMA CentsOfOne ==
    ASSUME NEW x, NEW n \in Nat
    PROVE  IsFiniteSet({x} \X (1..n)) /\ Cardinality({x} \X (1..n)) = n
<1>1. IsFiniteSet({x}) /\ Cardinality({x}) = 1
    BY FS_Singleton
<1>2. IsFiniteSet(1..n) /\ Cardinality(1..n) = n
    <2>1. IsFiniteSet(1..n) /\ Cardinality(1..n) = IF 1 > n THEN 0 ELSE n - 1 + 1
        BY FS_Interval
    <2> QED
        BY <2>1
<1>3. IsFiniteSet({x} \X (1..n)) /\ Cardinality({x} \X (1..n)) = 1 * n
    BY <1>1, <1>2, FS_Product
<1> QED
    BY <1>3

\* A sum of finitely many whole amounts is a whole amount.
LEMMA TotalType ==
    ASSUME NEW rows, IsFiniteSet(rows), NEW cents, \A x \in rows : cents[x] \in Nat
    PROVE  IsFiniteSet(CentsOf(rows, cents)) /\ Total(rows, cents) \in Nat
<1> DEFINE own(x) == {x} \X (1..cents[x])
           parts == {own(x) : x \in rows}
           f == [x \in rows |-> own(x)]
<1>1. f \in Surjection(rows, parts)
    BY DEF Surjection
<1>2. IsFiniteSet(parts)
    <2> HIDE DEF f, parts
    <2> QED
        BY <1>1, FS_Surjection
<1>3. \A T \in parts : IsFiniteSet(T)
    <2> SUFFICES ASSUME NEW x \in rows
                 PROVE  IsFiniteSet(own(x))
        OBVIOUS
    <2>1. cents[x] \in Nat
        OBVIOUS
    <2> QED
        BY <2>1, CentsOfOne
<1>4. IsFiniteSet(UNION parts)
    <2> HIDE DEF parts
    <2> QED
        BY <1>2, <1>3, FS_UNION
<1> QED
    BY <1>4, FS_CardinalityType DEF CentsOf, Total

\* More rows have no smaller sum.
LEMMA TotalMonotone ==
    ASSUME NEW more, IsFiniteSet(more), NEW rows, rows \subseteq more,
           NEW cents, \A x \in more : cents[x] \in Nat
    PROVE  Total(rows, cents) <= Total(more, cents)
<1>1. IsFiniteSet(CentsOf(more, cents))
    BY TotalType
<1>2. CentsOf(rows, cents) \in SUBSET CentsOf(more, cents)
    BY DEF CentsOf
<1>3. Cardinality(CentsOf(rows, cents)) <= Cardinality(CentsOf(more, cents))
    BY <1>1, <1>2, FS_Subset
<1> QED
    BY <1>3 DEF CentsOf, Total

\* The sum over two sets of rows that have none in common.
LEMMA TotalOfBoth ==
    ASSUME NEW some, IsFiniteSet(some), NEW others, IsFiniteSet(others),
           some \cap others = {},
           NEW cents, \A x \in some \cup others : cents[x] \in Nat
    PROVE  Total(some \cup others, cents) = Total(some, cents) + Total(others, cents)
<1> DEFINE A == CentsOf(some, cents)
           B == CentsOf(others, cents)
<1>1. IsFiniteSet(A) /\ IsFiniteSet(B)
    BY TotalType
<1>2. CentsOf(some \cup others, cents) = A \cup B
    BY DEF CentsOf
<1>3. A \cap B = {}
    BY DEF CentsOf
<1> HIDE DEF A, B
<1>4. Cardinality(A \cup B) = Cardinality(A) + Cardinality(B) - Cardinality(A \cap B)
    BY <1>1, FS_Union
<1>5. Cardinality(A \cap B) = 0 /\ Cardinality(A) \in Nat /\ Cardinality(B) \in Nat
    BY <1>1, <1>3, FS_EmptySet, FS_CardinalityType
<1>6. Cardinality(A \cup B) = Cardinality(A) + Cardinality(B)
    BY <1>4, <1>5
<1>7. /\ Total(some \cup others, cents) = Cardinality(CentsOf(some \cup others, cents))
      /\ Total(some, cents) = Cardinality(A)
      /\ Total(others, cents) = Cardinality(B)
    BY DEF Total, CentsOf, A, B
<1> QED
    BY <1>2, <1>6, <1>7

LEMMA TotalOfOne ==
    ASSUME NEW x, NEW cents, cents[x] \in Nat
    PROVE  Total({x}, cents) = cents[x]
<1>1. UNION {{y} \X (1..cents[y]) : y \in {x}} = {x} \X (1..cents[x])
    OBVIOUS
<1> QED
    BY <1>1, CentsOfOne DEF Total

\* Only the amounts of the rows summed matter.
LEMMA TotalSame ==
    ASSUME NEW rows, NEW cents, NEW others, \A x \in rows : cents[x] = others[x]
    PROVE  Total(rows, cents) = Total(rows, others)
<1>1. {{x} \X (1..cents[x]) : x \in rows} = {{x} \X (1..others[x]) : x \in rows}
    OBVIOUS
<1> QED
    BY <1>1 DEF Total

-----------------------------------------------------------------------------
(* Types *)

Call == [at : Steps, amount : Nat, earned : Nat, held : Nat, available : Nat]
PayoutRow == [status : PayoutStatus, amount : Nat]

\* The rows that take from the balance, and what is in them.
Withdrawing == {p \in Payout : payouts[p].status \in HOLDS_BALANCE}
AmountOf == [p \in Payout |-> payouts[p].amount]

\* What may be withdrawn: released, or cancelled between two sums of a balance.
Released == In({"RELEASED"}) \cup raced

LEMMA SumTypes ==
    ASSUME PayoutsTypeOK
    PROVE  /\ earnedMinor \in Nat /\ heldMinor \in Nat /\ withdrawnMinor \in Nat
           /\ \A rows \in SUBSET Sub : IsFiniteSet(rows) /\ Total(rows, Earns) \in Nat
<1>1. ASSUME NEW rows \in SUBSET Sub
      PROVE  IsFiniteSet(rows) /\ Total(rows, Earns) \in Nat
    <2>1. IsFiniteSet(rows)
        BY PayoutsAssumption, FS_Subset
    <2>2. \A x \in rows : Earns[x] \in Nat
        BY PayoutsAssumption
    <2> QED
        BY <2>1, <2>2, TotalType
<1>2. earnedMinor \in Nat /\ heldMinor \in Nat
    BY <1>1 DEF earnedMinor, heldMinor, In
<1>3. withdrawnMinor \in Nat
    <2>1. IsFiniteSet(Withdrawing)
        BY PayoutsAssumption, FS_Subset DEF Withdrawing
    <2>2. \A p \in Withdrawing : AmountOf[p] \in Nat
        BY DEF PayoutsTypeOK, Withdrawing, AmountOf
    <2>3. Total(Withdrawing, AmountOf) \in Nat
        BY <2>1, <2>2, TotalType
    <2> QED
        BY <2>3 DEF withdrawnMinor, Withdrawing, AmountOf
<1> QED
    BY <1>1, <1>2, <1>3

\* One call moves, and a lock is handed on.
LEMMA CallType ==
    ASSUME PayoutsTypeOK, NEW r \in Request, NEW v \in Call,
           req' = [req EXCEPT ![r] = v],
           userLock' \in Request \cup {NoCall}, payouts' \in [Payout -> PayoutRow],
           UNCHANGED <<accrual, wallet, raced>>
    PROVE  PayoutsTypeOK'
BY DEF PayoutsTypeOK, Call, PayoutRow

LEMMA UnaskedCall == Unasked \in Call /\ Unasked.at = "IDLE"
BY DEF Unasked, Call, Steps

LEMMA PayoutsTypeStep == PayoutsTypeOK /\ [PayoutsNext]_payoutVars => PayoutsTypeOK'
<1> SUFFICES ASSUME PayoutsTypeOK, [PayoutsNext]_payoutVars
             PROVE  PayoutsTypeOK'
    OBVIOUS
<1>0. /\ req \in [Request -> Call] /\ payouts \in [Payout -> PayoutRow]
      /\ userLock \in Request \cup {NoCall} /\ accrual \in [Sub -> Accrual]
    BY DEF PayoutsTypeOK, Call, PayoutRow
<1>1. ASSUME NEW r \in Request, NEW a \in Amounts, requestPayout(r, a)
      PROVE  PayoutsTypeOK'
    <2> DEFINE v == [Unasked EXCEPT !.at = "WAITING", !.amount = a]
    <2>1. v \in Call
        BY UnaskedCall, PayoutsAssumption DEF Call, Steps
    <2>2. req' = [req EXCEPT ![r] = v] /\ UNCHANGED <<accrual, payouts, wallet, userLock, raced>>
        BY <1>1 DEF requestPayout
    <2> HIDE DEF v
    <2> QED
        BY <1>0, <2>1, <2>2, CallType
<1>2. ASSUME NEW r \in Request, LockUser(r)
      PROVE  PayoutsTypeOK'
    BY <1>0, <1>2 DEF LockUser, PayoutsTypeOK, Call, PayoutRow, Steps
<1>3. ASSUME NEW r \in Request, Ends(r), UNCHANGED <<accrual, wallet, raced>>,
             payouts' \in [Payout -> PayoutRow]
      PROVE  PayoutsTypeOK'
    BY <1>0, <1>3, UnaskedCall, CallType DEF Ends, unlocked
<1>4. ASSUME NEW r \in Request, RefuseWithoutWallet(r) \/ RefusePayout(r)
      PROVE  PayoutsTypeOK'
    BY <1>0, <1>3, <1>4 DEF RefuseWithoutWallet, RefusePayout
<1>5. ASSUME NEW r \in Request, ReadEarned(r)
      PROVE  PayoutsTypeOK'
    <2> DEFINE v == [req[r] EXCEPT !.at = "EARNED", !.earned = earnedMinor]
    <2>1. v \in Call
        BY <1>0, SumTypes DEF Call, Steps
    <2> HIDE DEF v
    <2> QED
        BY <1>0, <1>5, <2>1, CallType DEF ReadEarned, v
<1>6. ASSUME NEW r \in Request, ReadHeld(r)
      PROVE  PayoutsTypeOK'
    <2> DEFINE v == [req[r] EXCEPT !.at = "HELD", !.held = heldMinor]
    <2>1. v \in Call
        BY <1>0, SumTypes DEF Call, Steps
    <2> HIDE DEF v
    <2> QED
        BY <1>0, <1>6, <2>1, CallType DEF ReadHeld, v
<1>7. ASSUME NEW r \in Request, ReadPayouts(r)
      PROVE  PayoutsTypeOK'
    <2> DEFINE n == availableMinor(req[r].earned, req[r].held, withdrawnMinor)
               v == [req[r] EXCEPT !.at = "BALANCE", !.available = n]
    <2>1. n \in Nat
        BY <1>0, SumTypes DEF availableMinor, Call
    <2>2. req' = [req EXCEPT ![r] = v]
        BY <1>7 DEF ReadPayouts
    <2> HIDE DEF n
    <2>3. v \in Call
        BY <1>0, <2>1 DEF Call, Steps
    <2> HIDE DEF v
    <2> QED
        BY <1>0, <1>7, <2>2, <2>3, CallType DEF ReadPayouts
<1>8. ASSUME NEW r \in Request, NEW p \in Payout, CreatePayout(r, p)
      PROVE  PayoutsTypeOK'
    <2>1. payouts' \in [Payout -> PayoutRow]
        BY <1>0, <1>8 DEF CreatePayout, PayoutRow, PayoutStatus, Call
    <2> QED
        BY <1>3, <1>8, <2>1 DEF CreatePayout
<1>9. CASE updateWallet
    BY <1>9 DEF updateWallet, PayoutsTypeOK
<1>10. ASSUME NEW p \in Payout, markPaid(p) \/ reject(p)
       PROVE  PayoutsTypeOK'
    BY <1>10 DEF markPaid, reject, transitionStatus, PayoutsTypeOK, PayoutStatus
<1>11. ASSUME NEW s \in Sub, ApproveVideo(s) \/ FinalizeViews(s) \/ PublicationDeleted(s)
       PROVE  PayoutsTypeOK'
    <2>1. accrual' \in [Sub -> Accrual] /\ raced' \subseteq Sub
        BY <1>0, <1>11 DEF ApproveVideo, FinalizeViews, PublicationDeleted, Accrual, PayoutsTypeOK
    <2> QED
        BY <1>11, <2>1 DEF ApproveVideo, FinalizeViews, PublicationDeleted, PayoutsTypeOK
<1>12. CASE UNCHANGED payoutVars
    BY <1>12 DEF payoutVars, PayoutsTypeOK
<1> QED
    BY <1>1, <1>2, <1>4, <1>5, <1>6, <1>7, <1>8, <1>9, <1>10, <1>11, <1>12
       DEF PayoutsNext, Proceed, Moderators

LEMMA PayoutsTypeInit == PayoutsInit => PayoutsTypeOK
<1> SUFFICES ASSUME PayoutsInit
             PROVE  PayoutsTypeOK
    OBVIOUS
<1>1. req \in [Request -> Call]
    BY UnaskedCall DEF PayoutsInit
<1>2. accrual \in [Sub -> Accrual] /\ raced \subseteq Sub
    BY DEF PayoutsInit, Accrual
<1>3. payouts \in [Payout -> PayoutRow]
    <2>1. [status |-> "NONE", amount |-> 0] \in PayoutRow
        BY DEF PayoutRow, PayoutStatus
    <2> QED
        BY <2>1 DEF PayoutsInit
<1>4. wallet \in BOOLEAN /\ userLock \in Request \cup {NoCall}
    BY DEF PayoutsInit
<1> QED
    BY <1>1, <1>2, <1>3, <1>4 DEF PayoutsTypeOK, Call, PayoutRow

\* Rows, calls and sums keep their types; no balance is below zero.
THEOREM PayoutsTypeCorrect == PayoutsSpec => []PayoutsTypeOK
BY PayoutsTypeInit, PayoutsTypeStep, PTL DEF PayoutsSpec

-----------------------------------------------------------------------------
(* What may be withdrawn *)

\* The steps of a call between its lock and its end.
Holding == {"LOCKED", "EARNED", "HELD", "BALANCE"}

\* What the first sum of a balance counted: the accruals alive, and those
\* cancelled since.
CountedCents == In({"HELD", "RELEASED"}) \cup raced

\* Of the calls, only the holder of the row of the user is past its lock.
LockHeld == \A r \in Request : req[r].at \in Holding <=> userLock = r

\* A cancelled accrual stays cancelled.
RacedCancelled == raced \subseteq In({"CANCELLED"})

\* What a call knows of the balance after each of its queries is still no more
\* than what may be withdrawn, whatever the moderators did since.
EarnedKnown ==
    \A r \in Request : req[r].at = "EARNED" => req[r].earned <= Total(CountedCents, Earns)

HeldKnown ==
    \A r \in Request : req[r].at = "HELD" =>
        req[r].earned - req[r].held <= Total(Released, Earns)

BalanceKnown ==
    \A r \in Request : req[r].at = "BALANCE" =>
        withdrawnMinor + req[r].available <= Total(Released, Earns)

BalanceInv ==
    /\ PayoutsTypeOK
    /\ LockHeld
    /\ RacedCancelled
    /\ EarnedKnown
    /\ HeldKnown
    /\ BalanceKnown
    /\ OverdrawnOnlyInWindow

LEMMA BalanceInit == PayoutsInit => BalanceInv
<1> SUFFICES ASSUME PayoutsInit
             PROVE  BalanceInv
    OBVIOUS
<1>1. PayoutsTypeOK
    BY PayoutsTypeInit
<1>2. \A r \in Request : req[r].at = "IDLE"
    BY UnaskedCall DEF PayoutsInit
<1>3. LockHeld /\ EarnedKnown /\ HeldKnown /\ BalanceKnown
    <2>1. \A r \in Request : userLock # r
        BY PayoutsAssumption DEF PayoutsInit
    <2> QED
        BY <1>2, <2>1 DEF LockHeld, Holding, EarnedKnown, HeldKnown, BalanceKnown
<1>4. RacedCancelled
    BY DEF PayoutsInit, RacedCancelled
<1>5. withdrawnMinor = 0
    <2>1. Withdrawing = {}
        BY DEF PayoutsInit, Withdrawing, HOLDS_BALANCE
    <2>2. UNION {{x} \X (1..AmountOf[x]) : x \in Withdrawing} = {}
        BY <2>1
    <2> QED
        BY <2>2, FS_EmptySet DEF withdrawnMinor, Total, Withdrawing, AmountOf
<1>6. Total(Released, Earns) \in Nat
    <2>1. Released \in SUBSET Sub
        BY <1>1 DEF Released, In, PayoutsTypeOK
    <2> QED
        BY <1>1, <2>1, SumTypes
<1>7. OverdrawnOnlyInWindow
    BY <1>5, <1>6 DEF OverdrawnOnlyInWindow, Released
<1> QED
    BY <1>1, <1>3, <1>4, <1>7 DEF BalanceInv

\* The sets of accruals are finite, and their sums whole amounts.
SumsWhole ==
    /\ Released \in SUBSET Sub /\ Total(Released, Earns) \in Nat
    /\ CountedCents \in SUBSET Sub /\ Total(CountedCents, Earns) \in Nat
    /\ withdrawnMinor \in Nat

LEMMA ReleasedType == PayoutsTypeOK => SumsWhole
<1> SUFFICES ASSUME PayoutsTypeOK
             PROVE  SumsWhole
    OBVIOUS
<1>1. Released \in SUBSET Sub /\ CountedCents \in SUBSET Sub
    BY DEF Released, CountedCents, In, PayoutsTypeOK
<1> QED
    BY <1>1, SumTypes DEF SumsWhole

\* A larger set of accruals has no smaller sum.
LEMMA SumGrows ==
    ASSUME NEW more \in SUBSET Sub, NEW rows \in SUBSET more
    PROVE  Total(rows, Earns) <= Total(more, Earns)
<1>1. IsFiniteSet(more) /\ \A x \in more : Earns[x] \in Nat
    BY PayoutsAssumption, FS_Subset
<1> QED
    BY <1>1, TotalMonotone

\* A step that releases no less, withdraws no more and does not move a call
\* between its lock and its end leaves what the calls know true.
LEMMA KnownKept ==
    ASSUME BalanceInv, PayoutsTypeOK',
           Released \subseteq Released',
           withdrawnMinor' <= withdrawnMinor,
           \A r \in Request : req'[r].at \in {"EARNED", "HELD", "BALANCE"} => req'[r] = req[r],
           (\E r \in Request : req[r].at = "EARNED") => CountedCents \subseteq CountedCents'
    PROVE  EarnedKnown' /\ HeldKnown' /\ BalanceKnown' /\ OverdrawnOnlyInWindow'
<1> DEFINE known == Total(Released, Earns)
<1>0. PayoutsTypeOK
    BY DEF BalanceInv
<1>w. SumsWhole /\ SumsWhole'
    <2>1. SumsWhole'
        BY ReleasedType, PTL
    <2> QED
        BY <1>0, <2>1, ReleasedType
<1>1. /\ known \in Nat /\ known' \in Nat /\ known <= known'
      /\ withdrawnMinor \in Nat /\ withdrawnMinor' \in Nat
    <2>1. Total(Released, Earns)' \in Nat /\ withdrawnMinor' \in Nat /\ Released' \in SUBSET Sub
        BY <1>w DEF SumsWhole
    <2> DEFINE now == Released
               then == Released'
    <2>2. now \in SUBSET then /\ then \in SUBSET Sub
        BY <2>1
    <2> HIDE DEF now, then
    <2>3. Total(now, Earns) <= Total(then, Earns)
        BY <2>2, SumGrows
    <2> QED
        BY <1>w, <2>1, <2>3 DEF SumsWhole, now, then
<1>2. \A r \in Request : req[r].earned \in Nat /\ req[r].held \in Nat /\ req[r].available \in Nat
    BY <1>0 DEF PayoutsTypeOK
<1>3. ASSUME NEW r \in Request, req'[r].at = "EARNED"
      PROVE  req'[r].earned <= Total(CountedCents, Earns)'
    <2>1. req'[r] = req[r]
        BY <1>3
    <2>2. CountedCents \subseteq CountedCents'
        BY <1>3, <2>1
    <2>3. req[r].earned <= Total(CountedCents, Earns)
        BY <1>3, <2>1 DEF BalanceInv, EarnedKnown
    <2>4. Total(CountedCents, Earns)' \in Nat /\ CountedCents' \in SUBSET Sub
        BY <1>w DEF SumsWhole
    <2> DEFINE now == CountedCents
               then == CountedCents'
    <2>5. now \in SUBSET then /\ then \in SUBSET Sub
        BY <2>2, <2>4
    <2> HIDE DEF now, then
    <2>6. Total(now, Earns) <= Total(then, Earns)
        BY <2>5, SumGrows
    <2>7. Total(CountedCents, Earns) <= Total(CountedCents, Earns)'
        BY <2>6 DEF now, then
    <2>8. Total(CountedCents, Earns) \in Nat /\ req[r].earned \in Nat
        BY <1>2, <1>w DEF SumsWhole
    <2> QED
        BY <2>1, <2>3, <2>4, <2>7, <2>8
<1>4. ASSUME NEW r \in Request, req'[r].at = "HELD"
      PROVE  req'[r].earned - req'[r].held <= known'
    <2>1. req'[r] = req[r]
        BY <1>4
    <2>2. req[r].earned - req[r].held <= known
        BY <1>4, <2>1 DEF BalanceInv, HeldKnown
    <2> HIDE DEF known
    <2> QED
        BY <1>1, <1>2, <2>1, <2>2
<1>5. ASSUME NEW r \in Request, req'[r].at = "BALANCE"
      PROVE  withdrawnMinor' + req'[r].available <= known'
    <2>1. req'[r] = req[r]
        BY <1>5
    <2>2. withdrawnMinor + req[r].available <= known
        BY <1>5, <2>1 DEF BalanceInv, BalanceKnown
    <2> HIDE DEF known
    <2> QED
        BY <1>1, <1>2, <2>1, <2>2
<1>6. withdrawnMinor' <= known'
    <2>1. withdrawnMinor <= known
        BY DEF BalanceInv, OverdrawnOnlyInWindow, Released
    <2> HIDE DEF known
    <2> QED
        BY <1>1, <2>1
<1> QED
    BY <1>3, <1>4, <1>5, <1>6
       DEF EarnedKnown, HeldKnown, BalanceKnown, OverdrawnOnlyInWindow, Released

\* Only the holder of the row of the user moves past its lock, and it lets the
\* row go when it ends.
LEMMA LockStep ==
    ASSUME PayoutsTypeOK, LockHeld, [PayoutsNext]_payoutVars
    PROVE  LockHeld'
<1>0. req \in [Request -> Call] /\ userLock \in Request \cup {NoCall}
    BY DEF PayoutsTypeOK, Call
<1>1. ASSUME NEW r \in Request, NEW v, v.at \in Holding <=> req[r].at \in Holding,
             req' = [req EXCEPT ![r] = v], userLock' = userLock
      PROVE  LockHeld'
    <2> SUFFICES ASSUME NEW c \in Request
                 PROVE  req'[c].at \in Holding <=> userLock' = c
        BY DEF LockHeld
    <2>1. req'[c] = IF c = r THEN v ELSE req[c]
        BY <1>0, <1>1
    <2> QED
        BY <1>1, <2>1 DEF LockHeld
<1>2. ASSUME NEW r \in Request, Ends(r), req[r].at \in Holding
      PROVE  LockHeld'
    <2>1. userLock = r /\ userLock' = NoCall
        BY <1>2 DEF LockHeld, Ends, unlocked
    <2> SUFFICES ASSUME NEW c \in Request
                 PROVE  req'[c].at \notin Holding
        BY <2>1, PayoutsAssumption DEF LockHeld
    <2>2. req'[c] = IF c = r THEN Unasked ELSE req[c]
        BY <1>0, <1>2 DEF Ends
    <2>3. c # r => req[c].at \notin Holding
        BY <2>1 DEF LockHeld
    <2>4. Unasked.at \notin Holding
        BY UnaskedCall DEF Holding
    <2> QED
        BY <2>2, <2>3, <2>4
<1>3. ASSUME NEW r \in Request, NEW a \in Amounts, requestPayout(r, a)
      PROVE  LockHeld'
    <2> DEFINE v == [Unasked EXCEPT !.at = "WAITING", !.amount = a]
    <2>1. v.at = "WAITING" /\ req[r].at = "IDLE"
        BY <1>3 DEF requestPayout, Unasked
    <2>2. req' = [req EXCEPT ![r] = v] /\ userLock' = userLock
        BY <1>3 DEF requestPayout
    <2> HIDE DEF v
    <2>3. v.at \in Holding <=> req[r].at \in Holding
        BY <2>1 DEF Holding
    <2> QED
        BY <1>1, <2>2, <2>3
<1>4. ASSUME NEW r \in Request, LockUser(r)
      PROVE  LockHeld'
    <2>1. userLock = NoCall /\ userLock' = r /\ req' = [req EXCEPT ![r].at = "LOCKED"]
        BY <1>4 DEF LockUser, userFree
    <2> SUFFICES ASSUME NEW c \in Request
                 PROVE  req'[c].at \in Holding <=> userLock' = c
        BY DEF LockHeld
    <2>2. req[c].at \notin Holding
        BY <2>1, PayoutsAssumption DEF LockHeld
    <2>3. CASE c = r
        <3>1. req'[c].at = "LOCKED"
            BY <1>0, <2>1, <2>3 DEF Call
        <3> QED
            BY <2>1, <2>3, <3>1 DEF Holding
    <2>4. CASE c # r
        <3>1. req'[c] = req[c]
            BY <1>0, <2>1, <2>4
        <3> QED
            BY <2>1, <2>2, <2>4, <3>1
    <2> QED
        BY <2>3, <2>4
<1>5. ASSUME NEW r \in Request, Proceed(r)
      PROVE  LockHeld'
    <2>1. CASE \/ RefuseWithoutWallet(r) \/ RefusePayout(r)
               \/ \E p \in Payout : CreatePayout(r, p)
        BY <1>2, <2>1 DEF RefuseWithoutWallet, RefusePayout, CreatePayout, Holding
    <2>2. CASE ReadEarned(r)
        <3> DEFINE v == [req[r] EXCEPT !.at = "EARNED", !.earned = earnedMinor]
        <3>1. v.at \in Holding /\ req[r].at \in Holding
            BY <1>0, <2>2 DEF ReadEarned, Holding, Call
        <3>2. req' = [req EXCEPT ![r] = v] /\ userLock' = userLock
            BY <2>2 DEF ReadEarned
        <3> HIDE DEF v
        <3> QED
            BY <1>1, <3>1, <3>2
    <2>3. CASE ReadHeld(r)
        <3> DEFINE v == [req[r] EXCEPT !.at = "HELD", !.held = heldMinor]
        <3>1. v.at \in Holding /\ req[r].at \in Holding
            BY <1>0, <2>3 DEF ReadHeld, Holding, Call
        <3>2. req' = [req EXCEPT ![r] = v] /\ userLock' = userLock
            BY <2>3 DEF ReadHeld
        <3> HIDE DEF v
        <3> QED
            BY <1>1, <3>1, <3>2
    <2>4. CASE ReadPayouts(r)
        <3> DEFINE n == availableMinor(req[r].earned, req[r].held, withdrawnMinor)
                   v == [req[r] EXCEPT !.at = "BALANCE", !.available = n]
        <3>1. req' = [req EXCEPT ![r] = v] /\ userLock' = userLock /\ req[r].at \in Holding
            BY <2>4 DEF ReadPayouts, Holding
        <3> HIDE DEF n
        <3>2. v.at \in Holding
            BY <1>0 DEF Holding, Call
        <3> HIDE DEF v
        <3> QED
            BY <1>1, <3>1, <3>2
    <2> QED
        BY <1>5, <2>1, <2>2, <2>3, <2>4 DEF Proceed
<1>6. ASSUME UNCHANGED <<req, userLock>>
      PROVE  LockHeld'
    BY <1>6 DEF LockHeld
<1>7. CASE updateWallet \/ Moderators \/ UNCHANGED payoutVars
    BY <1>6, <1>7 DEF updateWallet, Moderators, markPaid, reject, transitionStatus,
        ApproveVideo, FinalizeViews, PublicationDeleted, payoutVars
<1> QED
    BY <1>3, <1>4, <1>5, <1>7 DEF PayoutsNext

\* A decision on a request takes no more from the balance.
LEMMA DecisionReleases ==
    ASSUME PayoutsTypeOK, PayoutsTypeOK', NEW p \in Payout, markPaid(p) \/ reject(p)
    PROVE  withdrawnMinor' <= withdrawnMinor
<1> DEFINE before == Withdrawing
           after == Withdrawing'
           was == AmountOf
           is == AmountOf'
<1>1. PICK status \in {"PAID", "REJECTED"} :
          /\ payouts' = [payouts EXCEPT ![p].status = status]
          /\ payouts[p].status = "REQUESTED"
    BY DEF markPaid, reject, transitionStatus, undecided
<1>2. \A q \in Payout : /\ payouts'[q].amount = payouts[q].amount
                        /\ q # p => payouts'[q] = payouts[q]
    BY <1>1 DEF PayoutsTypeOK
<1>3. after \subseteq before
    BY <1>1, <1>2 DEF Withdrawing, HOLDS_BALANCE
<1>4. was = is
    BY <1>2 DEF AmountOf
<1>5. IsFiniteSet(before) /\ \A q \in before : was[q] \in Nat
    BY PayoutsAssumption, FS_Subset DEF Withdrawing, AmountOf, PayoutsTypeOK
<1>6. withdrawnMinor = Total(before, was) /\ withdrawnMinor' = Total(after, is)
    BY DEF withdrawnMinor, Withdrawing, AmountOf
<1> HIDE DEF before, after, was, is
<1>7. Total(after, was) <= Total(before, was)
    BY <1>3, <1>5, TotalMonotone
<1> QED
    BY <1>4, <1>6, <1>7

\* A new request takes its amount, on top of what the others take.
LEMMA RequestTakes ==
    ASSUME PayoutsTypeOK, PayoutsTypeOK', NEW r \in Request, NEW p \in Payout, CreatePayout(r, p)
    PROVE  withdrawnMinor' = withdrawnMinor + req[r].amount
<1> DEFINE before == Withdrawing
           after == Withdrawing'
           was == AmountOf
           is == AmountOf'
           n == req[r].amount
<1>1. payouts' = [payouts EXCEPT ![p] = [status |-> "REQUESTED", amount |-> n]]
      /\ payouts[p].status = "NONE"
    BY DEF CreatePayout
<1>2. \A q \in Payout : q # p => payouts'[q] = payouts[q]
    BY <1>1 DEF PayoutsTypeOK
<1>3. payouts'[p].status = "REQUESTED" /\ payouts'[p].amount = n
    BY <1>1 DEF PayoutsTypeOK
<1>4. after = before \cup {p} /\ p \notin before
    BY <1>1, <1>2, <1>3 DEF Withdrawing, HOLDS_BALANCE
<1>5. is[p] = n /\ \A q \in before : is[q] = was[q]
    BY <1>2, <1>3, <1>4 DEF AmountOf, Withdrawing
<1>6. IsFiniteSet(before) /\ n \in Nat /\ \A q \in before : was[q] \in Nat
    BY PayoutsAssumption, FS_Subset DEF Withdrawing, AmountOf, PayoutsTypeOK
<1>7. withdrawnMinor = Total(before, was) /\ withdrawnMinor' = Total(after, is)
    BY DEF withdrawnMinor, Withdrawing, AmountOf
<1> HIDE DEF before, after, was, is, n
<1>8. IsFiniteSet({p}) /\ before \cap {p} = {}
    BY <1>4, FS_Singleton
<1>9. Total(after, is) = Total(before, is) + Total({p}, is)
    <2>1. \A q \in before \cup {p} : is[q] \in Nat
        BY <1>5, <1>6
    <2> QED
        BY <1>4, <1>6, <1>8, <2>1, TotalOfBoth
<1>10. Total({p}, is) = n
    BY <1>5, <1>6, TotalOfOne
<1>11. Total(before, is) = Total(before, was)
    BY <1>5, TotalSame
<1> QED
    BY <1>7, <1>9, <1>10, <1>11 DEF n

\* Only the holder of the lock knows anything of the balance.
LEMMA KnownOfHolder ==
    ASSUME LockHeld, NEW r \in Request, userLock = r,
           req[r].at = "EARNED" => req[r].earned <= Total(CountedCents, Earns),
           req[r].at = "HELD" => req[r].earned - req[r].held <= Total(Released, Earns),
           req[r].at = "BALANCE" =>
               withdrawnMinor + req[r].available <= Total(Released, Earns)
    PROVE  EarnedKnown /\ HeldKnown /\ BalanceKnown
<1>1. \A c \in Request : req[c].at \in {"EARNED", "HELD", "BALANCE"} => c = r
    BY DEF LockHeld, Holding
<1> QED
    BY <1>1 DEF EarnedKnown, HeldKnown, BalanceKnown

\* What is held and what may be withdrawn make up what the first sum counted.
LEMMA CountedIsBoth ==
    ASSUME PayoutsTypeOK, RacedCancelled
    PROVE  Total(CountedCents, Earns) = heldMinor + Total(Released, Earns)
<1> DEFINE held == In({"HELD"})
<1>1. CountedCents = held \cup Released /\ held \cap Released = {}
    BY DEF CountedCents, Released, In, RacedCancelled
<1>2. Released \in SUBSET Sub /\ held \in SUBSET Sub
    BY DEF Released, In, PayoutsTypeOK
<1> HIDE DEF held
<1>3. IsFiniteSet(held) /\ IsFiniteSet(Released)
    BY <1>2, PayoutsAssumption, FS_Subset
<1>4. \A x \in held \cup Released : Earns[x] \in Nat
    BY <1>2, PayoutsAssumption
<1>5. Total(held \cup Released, Earns) = Total(held, Earns) + Total(Released, Earns)
    BY <1>1, <1>3, <1>4, TotalOfBoth
<1> QED
    BY <1>1, <1>5 DEF heldMinor, held

\* One query of a balance, or the insert of a request.
LEMMA CallKnows ==
    ASSUME BalanceInv, PayoutsTypeOK', LockHeld', NEW r \in Request,
           ReadEarned(r) \/ ReadHeld(r) \/ ReadPayouts(r)
           \/ \E p \in Payout : CreatePayout(r, p)
    PROVE  EarnedKnown' /\ HeldKnown' /\ BalanceKnown' /\ OverdrawnOnlyInWindow'
<1>0. PayoutsTypeOK /\ LockHeld /\ RacedCancelled /\ req \in [Request -> Call]
    BY DEF BalanceInv, PayoutsTypeOK, Call
<1>1. SumsWhole /\ earnedMinor \in Nat /\ heldMinor \in Nat
    BY <1>0, ReleasedType, SumTypes
<1>2. userLock = r
    BY <1>0 DEF ReadEarned, ReadHeld, ReadPayouts, CreatePayout, LockHeld, Holding
<1>3. Released' = Released /\ CountedCents' = CountedCents
    BY DEF ReadEarned, ReadHeld, ReadPayouts, CreatePayout, Released, CountedCents, In
<1>4. withdrawnMinor <= Total(Released, Earns)
    BY DEF BalanceInv, OverdrawnOnlyInWindow, Released
<1>5. ASSUME UNCHANGED <<payouts, userLock>>,
             req'[r].at = "EARNED" => req'[r].earned <= Total(CountedCents, Earns),
             req'[r].at = "HELD" => req'[r].earned - req'[r].held <= Total(Released, Earns),
             req'[r].at = "BALANCE" =>
                 withdrawnMinor + req'[r].available <= Total(Released, Earns)
      PROVE  EarnedKnown' /\ HeldKnown' /\ BalanceKnown' /\ OverdrawnOnlyInWindow'
    <2>1. withdrawnMinor' = withdrawnMinor
        BY <1>5 DEF withdrawnMinor
    <2>2. \A c \in Request : req'[c].at \in {"EARNED", "HELD", "BALANCE"} => c = r
        BY <1>2, <1>5 DEF LockHeld, Holding
    <2>3. EarnedKnown' /\ HeldKnown' /\ BalanceKnown'
        BY <1>3, <1>5, <2>1, <2>2 DEF EarnedKnown, HeldKnown, BalanceKnown
    <2> QED
        BY <1>3, <1>4, <2>1, <2>3 DEF OverdrawnOnlyInWindow, Released
<1>6. CASE ReadEarned(r)
    <2>1. Total(In({"HELD", "RELEASED"}), Earns) <= Total(CountedCents, Earns)
        <3>1. In({"HELD", "RELEASED"}) \in SUBSET CountedCents /\ CountedCents \in SUBSET Sub
            BY <1>1 DEF CountedCents, SumsWhole
        <3> QED
            BY <3>1, SumGrows
    <2>2. req'[r].at = "EARNED" /\ req'[r].earned = earnedMinor
        BY <1>0, <1>6 DEF ReadEarned, Call
    <2>3. UNCHANGED <<payouts, userLock>>
        BY <1>6 DEF ReadEarned
    <2> QED
        BY <1>5, <2>1, <2>2, <2>3 DEF earnedMinor
<1>7. CASE ReadHeld(r)
    <2>1. req[r].earned <= Total(CountedCents, Earns)
        BY <1>7 DEF ReadHeld, BalanceInv, EarnedKnown
    <2>2. Total(CountedCents, Earns) = heldMinor + Total(Released, Earns)
        BY <1>0, CountedIsBoth
    <2>3. req'[r].at = "HELD" /\ req'[r].earned = req[r].earned /\ req'[r].held = heldMinor
        BY <1>0, <1>7 DEF ReadHeld, Call
    <2>4. req[r].earned - heldMinor <= Total(Released, Earns)
        <3>1. req[r].earned \in Nat
            BY <1>0 DEF Call
        <3>2. Total(Released, Earns) \in Nat /\ Total(CountedCents, Earns) \in Nat
            BY <1>1 DEF SumsWhole
        <3> QED
            BY <1>1, <2>1, <2>2, <3>1, <3>2
    <2>5. UNCHANGED <<payouts, userLock>>
        BY <1>7 DEF ReadHeld
    <2> QED
        BY <1>5, <2>3, <2>4, <2>5
<1>8. CASE ReadPayouts(r)
    <2> DEFINE n == availableMinor(req[r].earned, req[r].held, withdrawnMinor)
    <2>1. req[r].earned - req[r].held <= Total(Released, Earns)
        BY <1>8 DEF ReadPayouts, BalanceInv, HeldKnown
    <2>2. req[r].earned \in Nat /\ req[r].held \in Nat
        BY <1>0 DEF Call
    <2>3. Total(Released, Earns) \in Nat /\ withdrawnMinor \in Nat
        BY <1>1 DEF SumsWhole
    <2>4. withdrawnMinor + n <= Total(Released, Earns)
        BY <1>4, <2>1, <2>2, <2>3 DEF availableMinor
    <2>5. UNCHANGED <<payouts, userLock>>
        BY <1>8 DEF ReadPayouts
    <2>6. req' = [req EXCEPT ![r] = [req[r] EXCEPT !.at = "BALANCE", !.available = n]]
        BY <1>8 DEF ReadPayouts
    <2> HIDE DEF n
    <2>7. req'[r].at = "BALANCE" /\ req'[r].available = n
        BY <1>0, <2>6 DEF Call
    <2> QED
        BY <1>5, <2>4, <2>5, <2>7
<1>9. ASSUME NEW p \in Payout, CreatePayout(r, p)
      PROVE  EarnedKnown' /\ HeldKnown' /\ BalanceKnown' /\ OverdrawnOnlyInWindow'
    <2>1. userLock' = NoCall
        BY <1>2, <1>9 DEF CreatePayout, Ends, unlocked
    <2>2. \A c \in Request : req'[c].at \notin Holding
        BY <2>1, PayoutsAssumption DEF LockHeld
    <2>3. EarnedKnown' /\ HeldKnown' /\ BalanceKnown'
        BY <2>2 DEF EarnedKnown, HeldKnown, BalanceKnown, Holding
    <2>4. withdrawnMinor' = withdrawnMinor + req[r].amount
        BY <1>0, <1>9, RequestTakes
    <2>5. withdrawnMinor + req[r].available <= Total(Released, Earns)
        BY <1>9 DEF CreatePayout, BalanceInv, BalanceKnown
    <2>6. req[r].amount <= req[r].available
        BY <1>9 DEF CreatePayout
    <2>7. req[r].amount \in Nat /\ req[r].available \in Nat
        BY <1>0 DEF Call
    <2>8. Total(Released, Earns) \in Nat /\ withdrawnMinor \in Nat
        BY <1>1 DEF SumsWhole
    <2>9. withdrawnMinor' <= Total(Released, Earns)
        BY <2>4, <2>5, <2>6, <2>7, <2>8
    <2> QED
        BY <1>3, <2>3, <2>9 DEF OverdrawnOnlyInWindow, Released
<1> QED
    BY <1>6, <1>7, <1>8, <1>9

LEMMA BalanceStep == BalanceInv /\ [PayoutsNext]_payoutVars => BalanceInv'
<1> SUFFICES ASSUME BalanceInv, [PayoutsNext]_payoutVars
             PROVE  BalanceInv'
    OBVIOUS
<1>0. PayoutsTypeOK /\ req \in [Request -> Call]
    BY DEF BalanceInv, PayoutsTypeOK, Call
<1>1. PayoutsTypeOK'
    BY <1>0, PayoutsTypeStep
<1>2. LockHeld'
    BY <1>0, LockStep DEF BalanceInv
<1>3. RacedCancelled'
    <2>1. \A s \in Sub : accrual[s] = "CANCELLED" => accrual'[s] = "CANCELLED"
        BY <1>0 DEF PayoutsNext, Proceed, Moderators, requestPayout, LockUser, RefuseWithoutWallet,
            ReadEarned, ReadHeld, ReadPayouts, RefusePayout, CreatePayout, updateWallet, markPaid,
            reject, transitionStatus, ApproveVideo, FinalizeViews, PublicationDeleted, payoutVars, PayoutsTypeOK
    <2>2. raced' \subseteq raced \cup {s \in Sub : accrual'[s] = "CANCELLED"}
        BY <1>0 DEF PayoutsNext, Proceed, Moderators, requestPayout, LockUser, RefuseWithoutWallet,
            ReadEarned, ReadHeld, ReadPayouts, RefusePayout, CreatePayout, updateWallet, markPaid,
            reject, transitionStatus, ApproveVideo, FinalizeViews, PublicationDeleted, payoutVars, PayoutsTypeOK
    <2> QED
        BY <2>1, <2>2 DEF BalanceInv, RacedCancelled, In
<1> DEFINE Known == EarnedKnown /\ HeldKnown /\ BalanceKnown /\ OverdrawnOnlyInWindow
<1>4. ASSUME \A r \in Request : req'[r].at \in {"EARNED", "HELD", "BALANCE"} => req'[r] = req[r],
             UNCHANGED <<accrual, payouts, raced>>
      PROVE  Known'
    <2>1. withdrawnMinor' = withdrawnMinor /\ Released' = Released /\ CountedCents' = CountedCents
        BY <1>4 DEF withdrawnMinor, Released, CountedCents, In
    <2>2. withdrawnMinor \in Nat
        BY <1>0, SumTypes
    <2> QED
        BY <1>1, <1>4, <2>1, <2>2, KnownKept
<1>5. ASSUME NEW r \in Request, NEW v, v.at \notin {"EARNED", "HELD", "BALANCE"},
             req' = [req EXCEPT ![r] = v], UNCHANGED <<accrual, payouts, raced>>
      PROVE  Known'
    <2>1. \A c \in Request : req'[c] = IF c = r THEN v ELSE req[c]
        BY <1>0, <1>5
    <2> HIDE DEF Known
    <2> QED
        BY <1>4, <1>5, <2>1
<1>6. ASSUME NEW r \in Request, NEW a \in Amounts, requestPayout(r, a)
      PROVE  Known'
    <2> DEFINE v == [Unasked EXCEPT !.at = "WAITING", !.amount = a]
    <2>1. v.at = "WAITING"
        BY DEF Unasked
    <2>2. req' = [req EXCEPT ![r] = v] /\ UNCHANGED <<accrual, payouts, raced>>
        BY <1>6 DEF requestPayout
    <2> HIDE DEF v, Known
    <2> QED
        BY <1>5, <2>1, <2>2
<1>7. ASSUME NEW r \in Request, LockUser(r)
      PROVE  Known'
    <2> DEFINE v == [req[r] EXCEPT !.at = "LOCKED"]
    <2>1. v.at = "LOCKED"
        BY <1>0 DEF Call
    <2>2. req' = [req EXCEPT ![r] = v] /\ UNCHANGED <<accrual, payouts, raced>>
        BY <1>7 DEF LockUser
    <2> HIDE DEF v, Known
    <2> QED
        BY <1>5, <2>1, <2>2
<1>8. ASSUME NEW r \in Request, RefuseWithoutWallet(r) \/ RefusePayout(r)
      PROVE  Known'
    <2>1. req' = [req EXCEPT ![r] = Unasked] /\ UNCHANGED <<accrual, payouts, raced>>
        BY <1>8 DEF RefuseWithoutWallet, RefusePayout, Ends
    <2>2. Unasked.at \notin {"EARNED", "HELD", "BALANCE"}
        BY UnaskedCall
    <2> HIDE DEF Known
    <2> QED
        BY <1>5, <2>1, <2>2
<1>9. ASSUME NEW r \in Request, Proceed(r)
      PROVE  Known'
    BY <1>1, <1>2, <1>8, <1>9, CallKnows DEF Proceed
<1>10. ASSUME NEW p \in Payout, markPaid(p) \/ reject(p)
       PROVE  Known'
    <2>1. withdrawnMinor' <= withdrawnMinor
        BY <1>0, <1>1, <1>10, DecisionReleases
    <2>2. Released' = Released /\ CountedCents' = CountedCents /\ req' = req
        BY <1>10 DEF markPaid, reject, transitionStatus, Released, CountedCents, In
    <2> QED
        BY <1>1, <2>1, <2>2, KnownKept
<1>11. ASSUME NEW s \in Sub, ApproveVideo(s) \/ FinalizeViews(s) \/ PublicationDeleted(s)
       PROVE  Known'
    <2>1. req' = req /\ withdrawnMinor' = withdrawnMinor /\ withdrawnMinor \in Nat
        BY <1>0, <1>11, SumTypes
           DEF ApproveVideo, FinalizeViews, PublicationDeleted, withdrawnMinor
    <2>2. \A x \in Sub : x # s => accrual'[x] = accrual[x]
        BY <1>0, <1>11 DEF ApproveVideo, FinalizeViews, PublicationDeleted, PayoutsTypeOK
    <2>3. Released \subseteq Released'
        BY <1>0, <1>11, <2>2 DEF ApproveVideo, FinalizeViews, PublicationDeleted, Released, In,
            PayoutsTypeOK
    <2>4. (\E r \in Request : req[r].at = "EARNED") => CountedCents \subseteq CountedCents'
        BY <1>0, <1>11, <2>2 DEF ApproveVideo, FinalizeViews, PublicationDeleted, CountedCents, In,
            PayoutsTypeOK
    <2>5. withdrawnMinor' <= withdrawnMinor
        BY <2>1
    <2> QED
        BY <1>1, <2>1, <2>3, <2>4, <2>5, KnownKept
<1>12. ASSUME updateWallet \/ UNCHANGED payoutVars
       PROVE  Known'
    <2>1. UNCHANGED <<req, accrual, payouts, raced>>
        BY <1>12 DEF updateWallet, payoutVars
    <2> HIDE DEF Known
    <2> QED
        BY <1>4, <2>1
<1>13. Known'
    <2> HIDE DEF Known
    <2> QED
        BY <1>6, <1>7, <1>9, <1>10, <1>11, <1>12 DEF PayoutsNext, Moderators
<1> QED
    BY <1>1, <1>2, <1>3, <1>13 DEF BalanceInv

\* What is requested and paid is never more than what was released and what was
\* cancelled between the two sums of one balance, whatever calls, decisions and
\* videos there are (requestPayout, balance).
THEOREM NeverOverdrawnBeyond == PayoutsSpec => []OverdrawnOnlyInWindow
<1>1. BalanceInv => OverdrawnOnlyInWindow
    BY DEF BalanceInv
<1> QED
    BY BalanceInit, BalanceStep, <1>1, PTL DEF PayoutsSpec

\* A message on its way.
Message == [at : {"idle", "thread", "wait", "reopen", "send"}, user : User \cup {None},
            row : Place \cup {NoPlace}, place : Place \cup {NoPlace}, again : BOOLEAN]

TypeInv ==
    /\ TypeOK
    /\ call \in [Req -> Message]
    /\ \A r \in Req : call[r].at # "idle" => call[r].user \in User

-----------------------------------------------------------------------------
(* Topics have numbers of their own *)

\* A number given out: nothing refers to a group or a topic still to come.
Given(p) == p.group <= group /\ (p.group = group => p.thread <= threads)

Numbered ==
    /\ \A t \in topic : Given(t.place)
    /\ \A u \in User : Given(row[u]) /\ Given(creating[u].place)
    /\ \A r \in Req : Given(call[r].row) /\ Given(call[r].place)

-----------------------------------------------------------------------------
(* Whose topics are *)

\* If there is a topic at p in the group, it is u's.
OwnedBy(u, p) == \A t \in Here : t.place = p => t.user = u

Sending(c) == c.at \in {"reopen", "send"}

CallOwned(c) ==
    /\ c.at = "thread" => OwnedBy(c.user, c.row)
    /\ Sending(c) => OwnedBy(c.user, c.place)

Owned ==
    /\ \A u \in User : OwnedBy(u, row[u]) /\ OwnedBy(u, creating[u].place)
    /\ \A r \in Req : CallOwned(call[r])

-----------------------------------------------------------------------------
(* Where a message goes, an answer can come from *)

Gone(p) == \A t \in Here : t.place # p

\* What is written at p by u can be answered, if it arrives at all.
Reached(u, p) == row[u] = p \/ u \in stale \/ Gone(p)

\* A message that waits, or has gone to another topic than it was meant for, found
\* none in the row it read.
CallAimed(c) ==
    /\ c.at = "thread" => Reached(c.user, c.row)
    /\ Sending(c) => c.place.group = group /\ Reached(c.user, c.place)
    /\ Sending(c) /\ ~c.again => c.place = c.row \/ c.row.group # group
    /\ c.at = "wait" /\ ~c.again => c.row.group # group

Aimed == \A r \in Req : CallAimed(call[r])

\* While a topic is made for a user and his row does not have it yet, the topic
\* he had is gone, unless two of his messages made it so.
Making(u) == creating[u].at \in {"topic", "row"}

NoneLeft ==
    \A u \in User : Making(u) /\ u \notin stale =>
        /\ Gone(row[u])
        /\ \A t \in Here : t.user = u => ~t.asked

\* The place of a new topic is here, and in the row at last.
Made ==
    \A u \in User :
        /\ creating[u].at \in {"row", "card"} => creating[u].place.group = group
        /\ creating[u].at = "card" => row[u] = creating[u].place

TalkInv ==
    /\ TypeInv /\ Numbered /\ Owned /\ Aimed /\ NoneLeft /\ Made
    /\ AnswersReach /\ Private

-----------------------------------------------------------------------------
(* Types *)

LEMMA NoPlaceType ==
    /\ NoPlace.group = 0 /\ NoPlace.thread = 0
    /\ NoPlace \notin Place
    /\ \A g \in 1 .. MaxGroup, n \in 1 .. MaxThread : [group |-> g, thread |-> n] \in Place
    /\ \A p \in Place : p.group \in 1 .. MaxGroup /\ p.thread \in 1 .. MaxThread
BY DEF NoPlace, Place

LEMMA IdleType == Idle \in Message /\ Idle.at = "idle"
BY DEF Idle, Message

\* A step of one message.
LEMMA OneCall ==
    ASSUME TypeInv, NEW r \in Req, NEW c \in Message, c.at # "idle" => c.user \in User,
           call' = [call EXCEPT ![r] = c]
    PROVE  /\ call' \in [Req -> Message]
           /\ \A q \in Req : call'[q].at # "idle" => call'[q].user \in User
           /\ call'[r] = c /\ \A q \in Req \ {r} : call'[q] = call[q]
BY DEF TypeInv

LEMMA TypeInit == Init => TypeInv
<1>1. 1 \in 1 .. MaxGroup /\ 0 \in 0 .. MaxThread
    BY TalkAssumption
<1> QED
    BY <1>1, IdleType DEF Init, TypeInv, TypeOK

LEMMA TypeWorld ==
    ASSUME TypeInv
    PROVE  /\ MinuteEnds \/ HourEnds \/ UNCHANGED vars => TypeInv'
           /\ \A u \in User : BanFinal(u) => TypeInv'
           /\ \A g \in {group, group + 1} : g <= MaxGroup /\ Restart(g) => TypeInv'
<1>1. ASSUME MinuteEnds \/ HourEnds \/ UNCHANGED vars
      PROVE  TypeInv'
    BY <1>1 DEF MinuteEnds, HourEnds, vars, TypeInv, TypeOK
<1>2. ASSUME NEW u \in User, BanFinal(u)
      PROVE  TypeInv'
    BY <1>2 DEF BanFinal, TypeInv, TypeOK
<1>3. ASSUME NEW g \in {group, group + 1}, g <= MaxGroup, Restart(g)
      PROVE  TypeInv'
    <2>1. group' \in 1 .. MaxGroup /\ threads' \in 0 .. MaxThread
        BY <1>3, TalkAssumption DEF Restart, TypeInv, TypeOK
    <2>2. /\ creating' \in [User -> [at : {"none", "topic", "row", "card"},
                                     place : Place \cup {NoPlace}]]
          /\ call' \in [Req -> Message] /\ \A r \in Req : call'[r].at = "idle"
          /\ closing' = {}
        BY <1>3, IdleType DEF Restart
    <2> QED
        BY <1>3, <2>1, <2>2 DEF Restart, TypeInv, TypeOK
<1> QED
    BY <1>1, <1>2, <1>3

LEMMA TypeTopics ==
    ASSUME TypeInv, NEW t \in Here, Reply(t) \/ CloseBegins(t) \/ CloseEnds(t) \/ Remove(t)
    PROVE  TypeInv'
<1>1. t \in topic /\ t \in Topic /\ t.place \in Place /\ t.user \in User
    BY DEF Here, Topic, TypeInv, TypeOK
<1>2. /\ [t EXCEPT !.asked = FALSE] \in Topic /\ [t EXCEPT !.open = FALSE] \in Topic
      /\ [t EXCEPT !.asked = t.asked /\ Reader(t) = {}] \in Topic
    BY <1>1 DEF Topic
<1>3. topic' \subseteq Topic
    BY <1>2 DEF Reply, CloseBegins, CloseEnds, Remove, TypeInv, TypeOK
<1>4. closing' \subseteq Place
    BY <1>1 DEF Reply, CloseBegins, CloseEnds, Remove, TypeInv, TypeOK
<1>5. talk' \subseteq User \X User
    BY <1>1 DEF Reply, CloseBegins, CloseEnds, Remove, Reader, TypeInv, TypeOK
<1>6. UNCHANGED <<group, threads, row, final, creating, call, stale>>
    BY DEF Reply, CloseBegins, CloseEnds, Remove
<1> QED
    BY <1>3, <1>4, <1>5, <1>6 DEF TypeInv, TypeOK

\* What createTopic does: nothing, or a promise is begun.
LEMMA CreateShape ==
    ASSUME TypeInv, NEW u \in User, NEW read, Create(u, read)
    PROVE  /\ creating' \in [User -> [at : {"none", "topic", "row", "card"},
                                      place : Place \cup {NoPlace}]]
           /\ stale' \subseteq User /\ stale \subseteq stale'
           /\ \A v \in User \ {u} : creating'[v] = creating[v]
           /\ \/ creating'[u] = creating[u]
              \/ /\ creating'[u] = [at |-> "topic", place |-> NoPlace]
                 /\ read # row[u] => u \in stale'
BY DEF Create, TypeInv, TypeOK

\* What a step of a message does to it.
LEMMA MessageShape ==
    ASSUME TypeInv, NEW r \in Req
    PROVE  /\ \A u \in User : Write(r, u) =>
                 \/ call' = call
                 \/ call' = [call EXCEPT ![r] = [call[r] EXCEPT !.at = "thread", !.user = u,
                                                                !.row = row[u]]]
           /\ Thread(r) =>
                 \/ /\ Own(call[r].row) # NoPlace
                    /\ call' = [call EXCEPT ![r] = [call[r] EXCEPT !.at = "reopen",
                                                                   !.place = call[r].row]]
                 \/ /\ Own(call[r].row) = NoPlace
                    /\ call' = [call EXCEPT ![r] = [call[r] EXCEPT !.at = "wait"]]
           /\ Reopen(r) => call' = [call EXCEPT ![r] = [call[r] EXCEPT !.at = "send"]]
           /\ NotFound(r) => call' = [call EXCEPT ![r] = [call[r] EXCEPT !.at = "wait",
                                                                         !.again = TRUE]]
           /\ Sent(r) \/ SendFails(r) => call' = [call EXCEPT ![r] = Idle]
<1>1. call[r] \in Message
    BY DEF TypeInv
<1>2. ASSUME NEW u \in User, Write(r, u)
      PROVE  \/ call' = call
             \/ call' = [call EXCEPT ![r] = [call[r] EXCEPT !.at = "thread", !.user = u,
                                                            !.row = row[u]]]
    BY <1>1, <1>2 DEF Write, Message, TypeInv
<1>3. ASSUME Thread(r)
      PROVE  \/ /\ Own(call[r].row) # NoPlace
                /\ call' = [call EXCEPT ![r] = [call[r] EXCEPT !.at = "reopen",
                                                               !.place = call[r].row]]
             \/ /\ Own(call[r].row) = NoPlace
                /\ call' = [call EXCEPT ![r] = [call[r] EXCEPT !.at = "wait"]]
    BY <1>1, <1>3 DEF Thread, Own, Message, TypeInv
<1>4. ASSUME Reopen(r)
      PROVE  call' = [call EXCEPT ![r] = [call[r] EXCEPT !.at = "send"]]
    BY <1>1, <1>4 DEF Reopen, Message, TypeInv
<1>5. ASSUME NotFound(r)
      PROVE  call' = [call EXCEPT ![r] = [call[r] EXCEPT !.at = "wait", !.again = TRUE]]
    BY <1>1, <1>5 DEF NotFound, Message, TypeInv
<1> QED
    BY <1>2, <1>3, <1>4, <1>5 DEF Sent, SendFails

LEMMA TypeMessage ==
    ASSUME TypeInv, NEW r \in Req, MessageStep(r) \/ \E u \in User : Write(r, u)
    PROVE  TypeInv'
<1>1. call[r] \in Message /\ (call[r].at # "idle" => call[r].user \in User)
    BY DEF TypeInv
<1>3. ASSUME NEW u \in User, Write(r, u)
      PROVE  TypeInv'
    <2> DEFINE c == [call[r] EXCEPT !.at = "thread", !.user = u, !.row = row[u]]
    <2>1. c \in Message /\ c.user \in User
        BY <1>1 DEF Message, TypeInv, TypeOK
    <2>2. call' = call \/ call' = [call EXCEPT ![r] = c]
        BY <1>3, MessageShape
    <2>3. /\ call' \in [Req -> Message]
          /\ \A q \in Req : call'[q].at # "idle" => call'[q].user \in User
        <3> HIDE DEF c
        <3> QED
            BY <2>1, <2>2, OneCall DEF TypeInv
    <2> QED
        BY <1>3, <2>3 DEF Write, TypeInv, TypeOK
<1>4. ASSUME Thread(r)
      PROVE  TypeInv'
    <2> DEFINE c1 == [call[r] EXCEPT !.at = "reopen", !.place = call[r].row]
               c2 == [call[r] EXCEPT !.at = "wait"]
    <2>1. call[r].at = "thread" /\ c1 \in Message /\ c2 \in Message
          /\ c1.user = call[r].user /\ c2.user = call[r].user
        BY <1>1, <1>4 DEF Message, Thread
    <2>2. call' = [call EXCEPT ![r] = c1] \/ call' = [call EXCEPT ![r] = c2]
        BY <1>4, MessageShape
    <2>3. /\ call' \in [Req -> Message]
          /\ \A q \in Req : call'[q].at # "idle" => call'[q].user \in User
        <3> HIDE DEF c1, c2
        <3> QED
            BY <1>1, <2>1, <2>2, OneCall
    <2>4. (UNCHANGED <<creating, stale>>) \/ Create(call[r].user, call[r].row)
        BY <1>4 DEF Thread
    <2>5. /\ creating' \in [User -> [at : {"none", "topic", "row", "card"},
                                     place : Place \cup {NoPlace}]]
          /\ stale' \subseteq User
        BY <1>1, <2>1, <2>4, CreateShape DEF TypeInv, TypeOK
    <2> QED
        BY <1>4, <2>3, <2>5 DEF Thread, flood, TypeInv, TypeOK
<1>5. ASSUME Reopen(r)
      PROVE  TypeInv'
    <2> DEFINE c == [call[r] EXCEPT !.at = "send"]
    <2>1. call[r].at = "reopen" /\ c \in Message /\ c.user = call[r].user
        BY <1>1, <1>5 DEF Message, Reopen
    <2>2. call' = [call EXCEPT ![r] = c]
        BY <1>5, MessageShape
    <2>3. /\ call' \in [Req -> Message]
          /\ \A q \in Req : call'[q].at # "idle" => call'[q].user \in User
        <3> HIDE DEF c
        <3> QED
            BY <1>1, <2>1, <2>2, OneCall
    <2>4. topic' \subseteq Topic
        BY <1>5 DEF Reopen, Topic, TypeInv, TypeOK
    <2> QED
        BY <1>5, <2>3, <2>4 DEF Reopen, TypeInv, TypeOK
<1>6. ASSUME Sent(r) \/ SendFails(r)
      PROVE  TypeInv'
    <2>1. call' = [call EXCEPT ![r] = Idle]
        BY <1>6, MessageShape
    <2>2. /\ call' \in [Req -> Message]
          /\ \A q \in Req : call'[q].at # "idle" => call'[q].user \in User
        BY <2>1, IdleType, OneCall
    <2>3. ASSUME Sent(r)
          PROVE  topic' \subseteq Topic /\ talk' \subseteq User \X User
        <3>1. PICK t \in At(call[r].place) :
                 /\ topic' = (topic \ {t}) \cup {[t EXCEPT !.asked = TRUE]}
                 /\ talk' = talk \cup {<<t.user, call[r].user>>}
            BY <2>3 DEF Sent
        <3>2. t \in Topic /\ call[r].user \in User
            BY <1>1, <2>3 DEF At, Sent, TypeInv, TypeOK
        <3>3. t.user \in User /\ [t EXCEPT !.asked = TRUE] \in Topic
            BY <3>2 DEF Topic
        <3>4. topic \subseteq Topic /\ talk \subseteq User \X User
            BY DEF TypeInv, TypeOK
        <3>5. topic' \subseteq Topic
            BY <3>1, <3>3, <3>4
        <3>6. talk' \subseteq User \X User
            BY <3>1, <3>2, <3>3, <3>4
        <3> QED
            BY <3>5, <3>6
    <2> QED
        BY <1>6, <2>2, <2>3 DEF Sent, SendFails, TypeInv, TypeOK
<1>7. ASSUME NotFound(r)
      PROVE  TypeInv'
    <2> DEFINE c == [call[r] EXCEPT !.at = "wait", !.again = TRUE]
    <2>1. call[r].at = "send" /\ c \in Message /\ c.user = call[r].user
        BY <1>1, <1>7 DEF Message, NotFound
    <2>2. call' = [call EXCEPT ![r] = c]
        BY <1>7, MessageShape
    <2>3. /\ call' \in [Req -> Message]
          /\ \A q \in Req : call'[q].at # "idle" => call'[q].user \in User
        <3> HIDE DEF c
        <3> QED
            BY <1>1, <2>1, <2>2, OneCall
    <2>4. /\ creating' \in [User -> [at : {"none", "topic", "row", "card"},
                                     place : Place \cup {NoPlace}]]
          /\ stale' \subseteq User
        BY <1>1, <1>7, <2>1, CreateShape DEF NotFound
    <2> QED
        BY <1>7, <2>3, <2>4 DEF NotFound, flood, TypeInv, TypeOK
<1> QED
    BY <1>3, <1>4, <1>5, <1>6, <1>7 DEF MessageStep

LEMMA TypeCreate ==
    ASSUME TypeInv, NEW u \in User, CreateStep(u)
    PROVE  TypeInv'
<1>1. ASSUME MakeTopic(u)
      PROVE  TypeInv'
    <2>1. threads + 1 \in 1 .. MaxThread /\ threads' \in 0 .. MaxThread
        BY <1>1, TalkAssumption DEF MakeTopic, TypeInv, TypeOK
    <2>2. [group |-> group, thread |-> threads + 1] \in Place
        BY <2>1, NoPlaceType DEF TypeInv, TypeOK
    <2> DEFINE new == [place |-> [group |-> group, thread |-> threads + 1], user |-> u,
                       open |-> TRUE, asked |-> FALSE]
    <2>5. new \in Topic
        BY <2>2 DEF Topic
    <2>3. topic' \subseteq Topic
        <3>1. topic' = topic \cup {new}
            BY <1>1 DEF MakeTopic
        <3> QED
            BY <2>5, <3>1 DEF TypeInv, TypeOK
    <2>4. creating' \in [User -> [at : {"none", "topic", "row", "card"},
                                  place : Place \cup {NoPlace}]]
        BY <1>1, <2>2 DEF MakeTopic, TypeInv, TypeOK
    <2> QED
        BY <1>1, <2>1, <2>3, <2>4 DEF MakeTopic, TypeInv, TypeOK
<1>2. ASSUME KeepTopic(u)
      PROVE  TypeInv'
    BY <1>2 DEF KeepTopic, Keep, TypeInv, TypeOK
<1>3. ASSUME Card(u)
      PROVE  TypeInv'
    <2>1. creating' \in [User -> [at : {"none", "topic", "row", "card"},
                                  place : Place \cup {NoPlace}]]
        BY <1>3 DEF Card, TypeInv, TypeOK
    <2>2. \A r \in Req : call'[r] \in Message
                         /\ (call'[r].at # "idle" => call'[r].user \in User)
        BY <1>3 DEF Card, Waiting, Message, TypeInv, TypeOK
    <2>3. call' \in [Req -> Message]
        BY <1>3, <2>2 DEF Card
    <2> QED
        BY <1>3, <2>1, <2>2, <2>3 DEF Card, TypeInv, TypeOK
<1>4. ASSUME CreateFails(u)
      PROVE  TypeInv'
    <2>1. \A r \in Req : call'[r] \in Message
                         /\ (call'[r].at # "idle" => call'[r].user \in User)
        BY <1>4, IdleType DEF CreateFails, TypeInv
    <2>2. call' \in [Req -> Message]
        BY <1>4, <2>1 DEF CreateFails
    <2> QED
        BY <1>4, <2>1, <2>2 DEF CreateFails, TypeInv, TypeOK
<1> QED
    BY <1>1, <1>2, <1>3, <1>4 DEF CreateStep

LEMMA TypeStep == TypeInv /\ [Next]_vars => TypeInv'
BY TypeWorld, TypeTopics, TypeMessage, TypeCreate DEF Next

\* Every variable keeps its type: groups, topics and promises within what Telegram
\* has given, users and their words.
THEOREM TypeCorrect == Spec => []TypeOK
<1>1. TypeInv => TypeOK
    BY DEF TypeInv
<1> QED
    BY TypeInit, TypeStep, <1>1, PTL DEF Spec

-----------------------------------------------------------------------------
(* Steps that leave topics and rows alone *)

\* Topics stay what and whose they were, or go.
SameTopics ==
    /\ group' = group
    /\ \A t \in topic' : \E s \in topic : s.place = t.place /\ s.user = t.user

NothingAsked ==
    \A t \in topic' : \E s \in topic :
        s.place = t.place /\ s.user = t.user /\ (t.asked => s.asked)

LEMMA SameHere ==
    ASSUME SameTopics
    PROVE  /\ \A u, p : OwnedBy(u, p) => OwnedBy(u, p)'
           /\ \A p : Gone(p) => Gone(p)'
           /\ (\A t \in topic : Given(t.place)) /\ threads' = threads =>
                (\A t \in topic : Given(t.place))'
BY DEF SameTopics, Here, OwnedBy, Gone, Given

\* What was so of a message that is still the same is so.
LEMMA SameCalls ==
    ASSUME SameTopics, row' = row, stale \subseteq stale'
    PROVE  \A c : /\ CallOwned(c) => CallOwned(c)'
                  /\ CallAimed(c) => CallAimed(c)'
<1>1. \A u, p : Reached(u, p) => Reached(u, p)'
    BY SameHere DEF Reached
<1>2. ASSUME NEW c, CallOwned(c)
      PROVE  CallOwned(c)'
    BY <1>2, SameHere DEF CallOwned, Sending
<1>3. ASSUME NEW c, CallAimed(c)
      PROVE  CallAimed(c)'
    BY <1>1, <1>3 DEF CallAimed, Sending, SameTopics
<1> QED
    BY <1>2, <1>3

\* Numbers, rows and promises, where nothing new is made.
LEMMA SamePlaces ==
    ASSUME TalkInv, SameTopics,
           UNCHANGED <<threads, row>>,
           \A u \in User : creating'[u] = creating[u] \/ creating'[u].place = NoPlace,
           \A r \in Req : Given(call'[r].row) /\ Given(call'[r].place)
    PROVE  Numbered' /\ \A u \in User : OwnedBy(u, row[u])' /\ OwnedBy(u, creating[u].place)'
<1>1. \A p : Given(p) => Given(p)'
    BY DEF Given, SameTopics
<1>2. Given(NoPlace) /\ \A u : OwnedBy(u, NoPlace)
    BY NoPlaceType DEF Given, OwnedBy, Here, Topic, TalkInv, TypeInv, TypeOK
<1>3. \A u \in User : Given(creating'[u].place)
    BY <1>2 DEF TalkInv, Numbered
<1>4. Numbered'
    BY <1>1, <1>3, SameHere DEF TalkInv, Numbered
<1>5. ASSUME NEW u \in User
      PROVE  OwnedBy(u, row[u])' /\ OwnedBy(u, creating[u].place)'
    <2>1. OwnedBy(u, row[u]) /\ OwnedBy(u, creating[u].place)
        BY DEF TalkInv, Owned
    <2>2. OwnedBy(u, creating'[u].place)
        BY <1>2, <2>1
    <2>3. \A p : OwnedBy(u, p) => OwnedBy(u, p)'
        BY SameHere
    <2> QED
        BY <2>1, <2>2, <2>3
<1> QED
    BY <1>4, <1>5

\* A step that asks nothing and makes nothing.
LEMMA QuietStep ==
    ASSUME TalkInv, SameTopics, NothingAsked,
           UNCHANGED <<threads, row, creating, stale>>
    PROVE  NoneLeft' /\ Made' /\ AnswersReach'
<1>1. NoneLeft'
    BY SameHere DEF TalkInv, NoneLeft, Making, NothingAsked, Here, SameTopics, Gone
<1>2. Made'
    BY DEF TalkInv, Made, SameTopics
<1>3. AnswersReach'
    BY DEF TalkInv, AnswersReach, NothingAsked, SameTopics, Here
<1> QED
    BY <1>1, <1>2, <1>3

Sound == Numbered /\ Owned /\ Aimed /\ NoneLeft /\ Made /\ AnswersReach

\* Windows, bans, and what support does.
LEMMA SupportStep ==
    ASSUME TalkInv,
           \/ MinuteEnds \/ HourEnds \/ UNCHANGED vars
           \/ \E u \in User : BanFinal(u)
           \/ \E t \in Here : Reply(t) \/ CloseBegins(t) \/ CloseEnds(t) \/ Remove(t)
    PROVE  Sound' /\ Private'
<1>1. UNCHANGED <<group, threads, row, creating, call, stale>>
    BY DEF MinuteEnds, HourEnds, vars, BanFinal, Reply, CloseBegins, CloseEnds, Remove
<1>2. ASSUME topic' = topic, talk' = talk
      PROVE  SameTopics /\ NothingAsked /\ Private'
    BY <1>1, <1>2 DEF SameTopics, NothingAsked, TalkInv, Private
<1>3. ASSUME NEW t \in Here, Reply(t) \/ CloseBegins(t) \/ CloseEnds(t) \/ Remove(t)
      PROVE  SameTopics /\ NothingAsked /\ Private'
    <2>1. t \in topic /\ t \in Topic
        BY DEF Here, TalkInv, TypeInv, TypeOK
    <2>2. \A s \in topic' : s \in topic \/ (s.place = t.place /\ s.user = t.user
                                            /\ (s.asked => t.asked))
        BY <1>3, <2>1 DEF Reply, CloseBegins, CloseEnds, Remove, Topic
    <2>3. \A u \in Reader(t) : u = t.user
        BY DEF Reader, TalkInv, Owned, OwnedBy
    <2>4. Private'
        BY <1>3, <2>3 DEF Reply, CloseBegins, CloseEnds, Remove, TalkInv, Private
    <2> QED
        BY <1>1, <2>1, <2>2, <2>4 DEF SameTopics, NothingAsked
<1>4. SameTopics /\ NothingAsked /\ Private'
    BY <1>2, <1>3 DEF MinuteEnds, HourEnds, vars, BanFinal
<1>5. Numbered' /\ \A u \in User : OwnedBy(u, row[u])' /\ OwnedBy(u, creating[u].place)'
    BY <1>1, <1>4, SamePlaces DEF TalkInv, Numbered
<1>6. \A r \in Req : CallOwned(call[r])' /\ CallAimed(call[r])'
    BY <1>1, <1>4, SameCalls DEF TalkInv, Owned, Aimed
<1> QED
    BY <1>1, <1>4, <1>5, <1>6, QuietStep DEF Sound, Owned, Aimed

-----------------------------------------------------------------------------
(* Steps of a message *)

\* A message goes one step further, or ends.
LEMMA OneMessage ==
    ASSUME TalkInv, SameTopics, NEW c,
           UNCHANGED <<threads, row>>, stale \subseteq stale',
           \A u \in User : creating'[u] = creating[u] \/ creating'[u].place = NoPlace,
           \A q \in Req : call'[q] = call[q] \/ call'[q] = c,
           CallOwned(c), CallAimed(c), Given(c.row), Given(c.place)
    PROVE  Numbered' /\ Owned' /\ Aimed'
<1>1. \A q \in Req : Given(call'[q].row) /\ Given(call'[q].place)
    BY DEF TalkInv, Numbered
<1>2. Numbered' /\ \A u \in User : OwnedBy(u, row[u])' /\ OwnedBy(u, creating[u].place)'
    BY <1>1, SamePlaces
<1>3. CallOwned(c)' /\ CallAimed(c)'
    BY SameCalls
<1>4. \A q \in Req : CallOwned(call[q])' /\ CallAimed(call[q])'
    <2> SUFFICES ASSUME NEW q \in Req
                 PROVE  CallOwned(call[q])' /\ CallAimed(call[q])'
        OBVIOUS
    <2>1. CASE call'[q] = c
        BY <1>3, <2>1 DEF CallOwned, CallAimed, OwnedBy, Reached, Sending
    <2>2. CASE call'[q] = call[q]
        <3>1. CallOwned(call[q]) /\ CallAimed(call[q])
            BY DEF TalkInv, Owned, Aimed
        <3>2. PICK d : d = call[q]
            OBVIOUS
        <3>3. CallOwned(d)' /\ CallAimed(d)'
            BY <3>1, <3>2, SameCalls
        <3> QED
            BY <2>2, <3>2, <3>3 DEF CallOwned, CallAimed, OwnedBy, Reached, Sending
    <2> QED
        BY <2>1, <2>2
<1> QED
    BY <1>2, <1>4 DEF Owned, Aimed

\* A promise is begun on what the row is only if the topic in it is gone.
LEMMA CreateStale ==
    ASSUME TalkInv, NEW u \in User, NEW read, Create(u, read),
           UNCHANGED <<group, threads, row, topic>>,
           read = row[u] /\ u \notin stale => Gone(row[u])
    PROVE  NoneLeft' /\ Made' /\ AnswersReach'
<1>1. /\ stale \subseteq stale'
      /\ \A v \in User \ {u} : creating'[v] = creating[v]
      /\ \/ creating'[u] = creating[u]
         \/ /\ creating'[u] = [at |-> "topic", place |-> NoPlace]
            /\ read # row[u] => u \in stale'
    BY CreateShape DEF TalkInv
<1>2. Here' = Here
    BY DEF Here
<1>3. AnswersReach'
    BY <1>1, <1>2 DEF TalkInv, AnswersReach
<1>4. Made'
    BY <1>1 DEF TalkInv, Made
<1>5. ASSUME NEW v \in User, Making(v)', v \notin stale'
      PROVE  Gone(row[v]) /\ \A t \in Here : t.user = v => ~t.asked
    <2>1. CASE creating'[v] = creating[v]
        BY <1>1, <1>5, <2>1 DEF TalkInv, NoneLeft, Making
    <2>2. CASE creating'[v] # creating[v]
        <3>1. v = u /\ read = row[u] /\ u \notin stale
            BY <1>1, <1>5, <2>2
        <3>2. Gone(row[u])
            BY <3>1
        <3> QED
            BY <3>1, <3>2 DEF TalkInv, AnswersReach, Gone
    <2> QED
        BY <2>1, <2>2
<1>6. NoneLeft'
    BY <1>2, <1>5 DEF NoneLeft, Gone, Making
<1> QED
    BY <1>3, <1>4, <1>6

LEMMA OwnHere ==
    ASSUME TypeInv, NEW p \in Place \cup {NoPlace}
    PROVE  /\ Own(p) # NoPlace => Own(p) = p /\ p.group = group
           /\ Own(p) = NoPlace => p.group # group
           /\ p.group # group => Gone(p)
BY NoPlaceType DEF Own, TypeInv, TypeOK, Gone, Here

LEMMA WriteStep ==
    ASSUME TalkInv, NEW r \in Req, NEW u \in User, Write(r, u)
    PROVE  Sound' /\ Private'
<1> DEFINE c == [call[r] EXCEPT !.at = "thread", !.user = u, !.row = row[u]]
<1>1. UNCHANGED <<group, threads, row, topic, creating, stale, talk>>
    BY DEF Write
<1>2. call[r] \in Message
    BY DEF TalkInv, TypeInv
<1>3. /\ c.at = "thread" /\ c.user = u /\ c.row = row[u] /\ c.place = call[r].place
      /\ \A q \in Req : call'[q] = call[q] \/ call'[q] = c
    <2>1. c.at = "thread" /\ c.user = u /\ c.row = row[u] /\ c.place = call[r].place
        BY <1>2 DEF Message
    <2>2. (call' = call \/ call' = [call EXCEPT ![r] = c]) /\ call \in [Req -> Message]
        BY MessageShape DEF TalkInv, TypeInv
    <2> QED
        BY <2>1, <2>2
<1>4. SameTopics /\ NothingAsked
    BY <1>1 DEF SameTopics, NothingAsked
<1>5. CallOwned(c) /\ CallAimed(c) /\ Given(c.row) /\ Given(c.place)
    <2> HIDE DEF c
    <2> QED
        BY <1>3 DEF CallOwned, CallAimed, Sending, Reached, TalkInv, Owned, Numbered
<1>6. Numbered' /\ Owned' /\ Aimed'
    <2> HIDE DEF c
    <2> QED
        BY <1>1, <1>3, <1>4, <1>5, OneMessage
<1> QED
    BY <1>1, <1>4, <1>6, QuietStep DEF Sound, TalkInv, Private

LEMMA ThreadStep ==
    ASSUME TalkInv, NEW r \in Req, Thread(r)
    PROVE  Sound' /\ Private'
<1>1. UNCHANGED <<group, threads, row, topic, talk>> /\ call[r].at = "thread"
    BY DEF Thread
<1>2. call[r] \in Message /\ call[r].user \in User /\ call[r].row \in Place \cup {NoPlace}
    BY <1>1 DEF TalkInv, TypeInv, Message
<1>3. SameTopics /\ NothingAsked
    BY <1>1 DEF SameTopics, NothingAsked
<1>4. /\ CallOwned(call[r]) /\ CallAimed(call[r])
      /\ Given(call[r].row) /\ Given(call[r].place)
    BY DEF TalkInv, Owned, Aimed, Numbered
<1>5. CASE Own(call[r].row) # NoPlace
    <2> DEFINE c == [call[r] EXCEPT !.at = "reopen", !.place = call[r].row]
    <2>1. /\ c.at = "reopen" /\ c.user = call[r].user
          /\ c.row = call[r].row /\ c.place = call[r].row
        BY <1>2 DEF Message
    <2>2. \A q \in Req : call'[q] = call[q] \/ call'[q] = c
        BY <1>5, MessageShape DEF TalkInv, TypeInv
    <2>3. UNCHANGED <<creating, stale>>
        BY <1>5 DEF Thread
    <2>4. CallOwned(c) /\ CallAimed(c) /\ Given(c.row) /\ Given(c.place)
        <3> HIDE DEF c
        <3> QED
            BY <1>1, <1>2, <1>4, <1>5, <2>1, OwnHere DEF CallOwned, CallAimed, Sending, TalkInv
    <2>5. Numbered' /\ Owned' /\ Aimed'
        <3> HIDE DEF c
        <3> QED
            BY <1>1, <1>3, <2>2, <2>3, <2>4, OneMessage
    <2> QED
        BY <1>1, <1>3, <2>3, <2>5, QuietStep DEF Sound, TalkInv, Private
<1>6. CASE Own(call[r].row) = NoPlace
    <2> DEFINE c == [call[r] EXCEPT !.at = "wait"]
    <2>1. /\ c.at = "wait" /\ c.user = call[r].user
          /\ c.row = call[r].row /\ c.place = call[r].place
        BY <1>2 DEF Message
    <2>2. \A q \in Req : call'[q] = call[q] \/ call'[q] = c
        BY <1>6, MessageShape DEF TalkInv, TypeInv
    <2>3. Create(call[r].user, call[r].row)
        BY <1>6 DEF Thread
    <2>4. /\ stale \subseteq stale'
          /\ \A u \in User : creating'[u] = creating[u] \/ creating'[u].place = NoPlace
        BY <1>2, <2>3, CreateShape DEF TalkInv
    <2>5. call[r].row.group # group /\ Gone(call[r].row)
        BY <1>2, <1>6, OwnHere DEF TalkInv
    <2>6. CallOwned(c) /\ CallAimed(c) /\ Given(c.row) /\ Given(c.place)
        <3> HIDE DEF c
        <3> QED
            BY <1>4, <2>1, <2>5 DEF CallOwned, CallAimed, Sending
    <2>7. Numbered' /\ Owned' /\ Aimed'
        <3> HIDE DEF c
        <3> QED
            BY <1>1, <1>3, <2>2, <2>4, <2>6, OneMessage
    <2>8. NoneLeft' /\ Made' /\ AnswersReach'
        BY <1>1, <1>2, <2>3, <2>5, CreateStale
    <2> QED
        BY <1>1, <2>7, <2>8 DEF Sound, TalkInv, Private
<1> QED
    BY <1>5, <1>6

LEMMA NotFoundStep ==
    ASSUME TalkInv, NEW r \in Req, NotFound(r)
    PROVE  Sound' /\ Private'
<1> DEFINE c == [call[r] EXCEPT !.at = "wait", !.again = TRUE]
<1>1. /\ UNCHANGED <<group, threads, row, topic, talk>>
      /\ call[r].at = "send" /\ ~call[r].again /\ Gone(call[r].place)
      /\ Create(call[r].user, call[r].row)
    BY DEF NotFound, At, Gone, Here
<1>2. call[r] \in Message /\ call[r].user \in User /\ call[r].row \in Place \cup {NoPlace}
    BY <1>1 DEF TalkInv, TypeInv, Message
<1>3. /\ c.at = "wait" /\ c.again /\ c.row = call[r].row /\ c.place = call[r].place
      /\ \A q \in Req : call'[q] = call[q] \/ call'[q] = c
    <2>1. c.at = "wait" /\ c.again /\ c.row = call[r].row /\ c.place = call[r].place
        BY <1>2 DEF Message
    <2>2. call' = [call EXCEPT ![r] = c] /\ call \in [Req -> Message]
        BY MessageShape DEF TalkInv, TypeInv
    <2> QED
        BY <2>1, <2>2
<1>4. SameTopics
    BY <1>1 DEF SameTopics
<1>5. CallOwned(c) /\ CallAimed(c) /\ Given(c.row) /\ Given(c.place)
    <2> HIDE DEF c
    <2> QED
        BY <1>3 DEF CallOwned, CallAimed, Sending, TalkInv, Numbered
<1>6. /\ stale \subseteq stale'
      /\ \A u \in User : creating'[u] = creating[u] \/ creating'[u].place = NoPlace
    BY <1>1, <1>2, CreateShape DEF TalkInv
<1>7. Numbered' /\ Owned' /\ Aimed'
    <2> HIDE DEF c
    <2> QED
        BY <1>1, <1>3, <1>4, <1>5, <1>6, OneMessage
<1>8. Gone(call[r].row)
    <2>1. call[r].place = call[r].row \/ call[r].row.group # group
        BY <1>1 DEF TalkInv, Aimed, CallAimed, Sending
    <2> QED
        BY <1>1, <1>2, <2>1, OwnHere DEF TalkInv
<1>9. NoneLeft' /\ Made' /\ AnswersReach'
    BY <1>1, <1>2, <1>8, CreateStale
<1> QED
    BY <1>1, <1>7, <1>9 DEF Sound, TalkInv, Private

\* A topic opened again is the same topic.
LEMMA ReopenStep ==
    ASSUME TalkInv, NEW r \in Req, Reopen(r)
    PROVE  Sound' /\ Private'
<1> DEFINE c == [call[r] EXCEPT !.at = "send"]
<1>1. UNCHANGED <<group, threads, row, creating, stale, talk>> /\ call[r].at = "reopen"
    BY DEF Reopen
<1>2. call[r] \in Message
    BY DEF TalkInv, TypeInv
<1>3. /\ c.at = "send" /\ c.user = call[r].user /\ c.again = call[r].again
      /\ c.row = call[r].row /\ c.place = call[r].place
      /\ \A q \in Req : call'[q] = call[q] \/ call'[q] = c
    <2>1. /\ c.at = "send" /\ c.user = call[r].user /\ c.again = call[r].again
          /\ c.row = call[r].row /\ c.place = call[r].place
        BY <1>2 DEF Message
    <2>2. call' = [call EXCEPT ![r] = c] /\ call \in [Req -> Message]
        BY MessageShape DEF TalkInv, TypeInv
    <2> QED
        BY <2>1, <2>2
<1>4. SameTopics /\ NothingAsked
    <2>1. \A t \in topic : t \in Topic
        BY DEF TalkInv, TypeInv, TypeOK
    <2>2. \A t \in topic : LET o == [t EXCEPT !.open = TRUE]
                           IN o.place = t.place /\ o.user = t.user /\ o.asked = t.asked
        BY <2>1 DEF Topic
    <2>3. \A s \in topic' : \E t \in topic : s = t \/ s = [t EXCEPT !.open = TRUE]
        BY DEF Reopen
    <2> QED
        BY <1>1, <2>2, <2>3 DEF SameTopics, NothingAsked
<1>5. CallOwned(c) /\ CallAimed(c) /\ Given(c.row) /\ Given(c.place)
    <2>1. /\ CallOwned(call[r]) /\ CallAimed(call[r])
          /\ Given(call[r].row) /\ Given(call[r].place)
        BY DEF TalkInv, Owned, Aimed, Numbered
    <2> HIDE DEF c
    <2> QED
        BY <1>1, <1>3, <2>1 DEF CallOwned, CallAimed, Sending
<1>6. Numbered' /\ Owned' /\ Aimed'
    <2> HIDE DEF c
    <2> QED
        BY <1>1, <1>3, <1>4, <1>5, OneMessage
<1> QED
    BY <1>1, <1>4, <1>6, QuietStep DEF Sound, TalkInv, Private

LEMMA IdleSound ==
    TypeInv => CallOwned(Idle) /\ CallAimed(Idle) /\ Given(Idle.row) /\ Given(Idle.place)
BY DEF Idle, NoPlace, CallOwned, CallAimed, Sending, Given, TypeInv, TypeOK

LEMMA SendFailsStep ==
    ASSUME TalkInv, NEW r \in Req, SendFails(r)
    PROVE  Sound' /\ Private'
<1>1. /\ UNCHANGED <<group, threads, row, topic, creating, stale, talk>>
      /\ call' = [call EXCEPT ![r] = Idle] /\ call \in [Req -> Message]
    BY DEF SendFails, TalkInv, TypeInv
<1>2. SameTopics /\ NothingAsked
    BY <1>1 DEF SameTopics, NothingAsked
<1>3. Numbered' /\ Owned' /\ Aimed'
    BY <1>1, <1>2, OneMessage, IdleSound DEF TalkInv
<1> QED
    BY <1>1, <1>2, <1>3, QuietStep DEF Sound, TalkInv, Private

\* What is written is in the topic of its user, and in the one his row names.
LEMMA SentStep ==
    ASSUME TalkInv, NEW r \in Req, Sent(r)
    PROVE  Sound' /\ Private'
<1>1. /\ UNCHANGED <<group, threads, row, creating, stale>> /\ call[r].at = "send"
      /\ call' = [call EXCEPT ![r] = Idle] /\ call \in [Req -> Message]
    BY DEF Sent, TalkInv, TypeInv
<1>2. PICK t \in At(call[r].place) :
         /\ topic' = (topic \ {t}) \cup {[t EXCEPT !.asked = TRUE]}
         /\ talk' = talk \cup {<<t.user, call[r].user>>}
    BY DEF Sent
<1>3. /\ CallOwned(call[r]) /\ CallAimed(call[r]) /\ call[r].user \in User
    BY <1>1 DEF TalkInv, TypeInv, Owned, Aimed
<1>4. /\ t \in topic /\ t.place = call[r].place /\ t \in Here /\ t.user = call[r].user
      /\ t \in Topic
    BY <1>1, <1>2, <1>3
       DEF At, Here, CallOwned, CallAimed, OwnedBy, Sending, TalkInv, TypeInv, TypeOK
<1>5. row[t.user] = t.place \/ t.user \in stale
    BY <1>1, <1>3, <1>4 DEF CallAimed, Sending, Reached, Gone
<1>6. \A s \in topic' : s \in topic \/ (s.place = t.place /\ s.user = t.user)
    BY <1>2, <1>4 DEF Topic
<1>7. SameTopics
    BY <1>1, <1>4, <1>6 DEF SameTopics
<1>8. Numbered' /\ Owned' /\ Aimed'
    BY <1>1, <1>7, OneMessage, IdleSound DEF TalkInv
<1>9. Private'
    BY <1>2, <1>4 DEF TalkInv, Private
<1>10. Made'
    BY <1>1 DEF TalkInv, Made
<1>11. \A s \in Here' : s \in Here \/ (s.place = t.place /\ s.user = t.user)
    BY <1>1, <1>4, <1>6 DEF Here
<1>12. AnswersReach'
    BY <1>1, <1>5, <1>11 DEF TalkInv, AnswersReach
<1>13. NoneLeft'
    <2>1. SUFFICES ASSUME NEW u \in User, Making(u), u \notin stale
                   PROVE  Gone(row[u])' /\ \A s \in Here' : s.user = u => ~s.asked
        BY <1>1 DEF NoneLeft, Making
    <2>2. Gone(row[u]) /\ \A s \in Here : s.user = u => ~s.asked
        BY <2>1 DEF TalkInv, NoneLeft
    <2>3. Gone(row[u])'
        BY <1>1, <1>7, <2>2, SameHere DEF Gone
    <2>4. t.user # u
        BY <1>4, <1>5, <2>1, <2>2 DEF Gone
    <2> QED
        BY <1>11, <2>2, <2>3, <2>4
<1> QED
    BY <1>8, <1>9, <1>10, <1>12, <1>13 DEF Sound

-----------------------------------------------------------------------------
(* Making a topic, and starting anew *)

\* A new topic has a number nobody has heard of.
LEMMA MakeTopicStep ==
    ASSUME TalkInv, TypeInv', NEW u \in User, MakeTopic(u)
    PROVE  Sound' /\ Private'
<1>16. PICK p : p = [group |-> group, thread |-> threads + 1]
    OBVIOUS
<1>17. PICK new : new = [place |-> p, user |-> u, open |-> TRUE, asked |-> FALSE]
    OBVIOUS
<1>1. /\ UNCHANGED <<group, row, call, stale, talk>>
      /\ threads' = threads + 1 /\ topic' = topic \cup {new}
      /\ creating[u].at = "topic"
      /\ creating' = [creating EXCEPT ![u] = [at |-> "row", place |-> p]]
    BY <1>16, <1>17 DEF MakeTopic
<1>2. /\ p.group = group /\ p.thread = threads + 1
      /\ new.place = p /\ new.user = u /\ new.asked = FALSE
    BY <1>16, <1>17
<1>3. /\ creating'[u].at = "row" /\ creating'[u].place = p
      /\ \A v \in User \ {u} : creating'[v] = creating[v]
    BY <1>1 DEF TalkInv, TypeInv, TypeOK
<1>4. group \in Nat /\ threads \in Nat
    BY TalkAssumption DEF TalkInv, TypeInv, TypeOK
<1>5. Here' = Here \cup {new}
    BY <1>1, <1>2 DEF Here
<1>6. \A q : Given(q) /\ q \in Place \cup {NoPlace} => q # p /\ Given(q)'
    BY <1>1, <1>2, <1>4, NoPlaceType DEF Given
<1>7. Given(p)' /\ p \in Place
    <2>1. p \in Place
        <3>1. creating'[u].place \in Place \cup {NoPlace}
            BY DEF TypeInv, TypeOK
        <3> QED
            BY <1>2, <1>3, <1>4, <3>1, NoPlaceType
    <2> QED
        BY <1>1, <1>2, <1>4, <2>1 DEF Given
<1>8. /\ \A t \in topic : Given(t.place) /\ t.place \in Place
      /\ \A v \in User : /\ Given(row[v]) /\ row[v] \in Place \cup {NoPlace}
                         /\ Given(creating[v].place)
                         /\ creating[v].place \in Place \cup {NoPlace}
      /\ \A r \in Req : /\ Given(call[r].row) /\ call[r].row \in Place \cup {NoPlace}
                        /\ Given(call[r].place) /\ call[r].place \in Place \cup {NoPlace}
    BY DEF TalkInv, TypeInv, TypeOK, Numbered, Topic, Message
<1>9. /\ \A q, v : OwnedBy(v, q) /\ q # p => OwnedBy(v, q)'
      /\ \A q : Gone(q) /\ q # p => Gone(q)'
      /\ OwnedBy(u, p)'
    <2>1. \A t \in Here : t.place # p
        BY <1>6, <1>8 DEF Here
    <2> QED
        BY <1>2, <1>5, <2>1 DEF OwnedBy, Gone
<1>10. Numbered'
    <2>1. \A t \in topic' : Given(t.place)'
        BY <1>1, <1>2, <1>6, <1>7, <1>8
    <2>2. \A v \in User : Given(row[v])' /\ Given(creating[v].place)'
        BY <1>1, <1>3, <1>6, <1>7, <1>8
    <2>3. \A r \in Req : Given(call[r].row)' /\ Given(call[r].place)'
        BY <1>1, <1>6, <1>8
    <2> QED
        BY <2>1, <2>2, <2>3 DEF Numbered, Given
<1>11. Owned'
    <2>1. \A v \in User : OwnedBy(v, row[v])' /\ OwnedBy(v, creating[v].place)'
        <3>1. \A v \in User : OwnedBy(v, row[v]) /\ OwnedBy(v, creating[v].place)
            BY DEF TalkInv, Owned
        <3> QED
            <4> SUFFICES ASSUME NEW v \in User
                         PROVE  OwnedBy(v, row[v])' /\ OwnedBy(v, creating[v].place)'
                OBVIOUS
            <4>1. row'[v] = row[v] /\ row[v] # p /\ OwnedBy(v, row[v])
                BY <1>1, <1>6, <1>8, <3>1
            <4>2. OwnedBy(v, row[v])'
                BY <1>2, <1>5, <4>1 DEF OwnedBy
            <4>3. CASE v = u
                <5>1. creating'[v].place = p /\ OwnedBy(u, p)'
                    BY <1>3, <1>9, <4>3
                <5> QED
                    BY <4>2, <4>3, <5>1 DEF OwnedBy
            <4>4. CASE v # u
                <5>1. /\ creating'[v] = creating[v] /\ creating[v].place # p
                      /\ OwnedBy(v, creating[v].place)
                    BY <1>3, <1>6, <1>8, <3>1, <4>4
                <5> QED
                    BY <1>2, <1>5, <4>2, <5>1 DEF OwnedBy
            <4> QED
                BY <4>2, <4>3, <4>4
    <2>2. \A r \in Req : CallOwned(call[r])'
        <3>1. \A r \in Req : CallOwned(call[r])
            BY DEF TalkInv, Owned
        <3> QED
            <4> SUFFICES ASSUME NEW r \in Req
                         PROVE  CallOwned(call[r])'
                OBVIOUS
            <4>1. /\ call'[r] = call[r] /\ call[r].row # p /\ call[r].place # p
                  /\ CallOwned(call[r])
                BY <1>1, <1>6, <1>8, <3>1
            <4> QED
                BY <1>2, <1>5, <4>1 DEF CallOwned, Sending, OwnedBy
    <2> QED
        BY <2>1, <2>2 DEF Owned
<1>12. Aimed'
    <2>1. \A r \in Req : CallAimed(call[r])
        BY DEF TalkInv, Aimed
    <2> QED
        BY <1>1, <1>6, <1>8, <1>9, <2>1 DEF Aimed, CallAimed, Sending, Reached, Gone
<1>13. Made'
    BY <1>1, <1>2, <1>3 DEF TalkInv, Made
<1>14. AnswersReach'
    BY <1>1, <1>2, <1>5 DEF TalkInv, AnswersReach
<1>15. NoneLeft'
    <2>1. \A v \in User : Making(v)' => Making(v)
        BY <1>1, <1>3 DEF Making
    <2> QED
        BY <1>1, <1>2, <1>5, <1>6, <1>8, <1>9, <2>1 DEF TalkInv, NoneLeft, Gone
<1> QED
    BY <1>1, <1>10, <1>11, <1>12, <1>13, <1>14, <1>15 DEF Sound, TalkInv, Private

\* The row names the new topic when the old one is gone.
LEMMA KeepTopicStep ==
    ASSUME TalkInv, NEW u \in User, KeepTopic(u)
    PROVE  Sound' /\ Private'
<1>1. /\ UNCHANGED <<group, threads, topic, call, stale, talk>> /\ creating[u].at = "row"
      /\ row' = [row EXCEPT ![u] = creating[u].place]
      /\ creating' = [creating EXCEPT ![u].at = "card"]
    BY DEF KeepTopic, Keep
<1>2. /\ row'[u] = creating[u].place /\ \A v \in User \ {u} : row'[v] = row[v]
      /\ \A v \in User \ {u} : creating'[v] = creating[v]
      /\ creating'[u].at = "card" /\ creating'[u].place = creating[u].place
    BY <1>1 DEF TalkInv, TypeInv, TypeOK
<1>3. Here' = Here /\ (\A p : Gone(p)' = Gone(p)) /\ \A p : Given(p)' = Given(p)
    BY <1>1 DEF Here, Gone, Given
<1>4. Numbered'
    BY <1>1, <1>2, <1>3 DEF TalkInv, Numbered, Given
<1>5. \A v, p : OwnedBy(v, p)' = OwnedBy(v, p)
    BY <1>3 DEF OwnedBy
<1>6. Owned'
    <2>1. \A v \in User : OwnedBy(v, row'[v]) /\ OwnedBy(v, creating'[v].place)
        BY <1>2 DEF TalkInv, Owned
    <2>2. \A r \in Req : CallOwned(call[r])
        BY DEF TalkInv, Owned
    <2> QED
        BY <1>1, <1>3, <2>1, <2>2 DEF Owned, CallOwned, OwnedBy, Sending
<1>7. u \in stale \/ (Gone(row[u]) /\ \A t \in Here : t.user = u => ~t.asked)
    BY <1>1 DEF TalkInv, NoneLeft, Making
<1>8. \A v \in User : \A p : Reached(v, p) => Reached(v, p)'
    <2>1. \A v \in User : \A p : Reached(v, p) => row'[v] = p \/ v \in stale \/ Gone(p)
        BY <1>2, <1>7 DEF Reached
    <2> QED
        BY <1>1, <1>3, <2>1 DEF Reached
<1>9. Aimed'
    <2>1. \A r \in Req : CallAimed(call[r]) /\ (call[r].at # "idle" => call[r].user \in User)
        BY DEF TalkInv, TypeInv, Aimed
    <2>2. \A c : CallAimed(c) /\ (c.at # "idle" => c.user \in User) => CallAimed(c)'
        BY <1>1, <1>8 DEF CallAimed, Sending
    <2>3. \A r \in Req : CallAimed(call[r])'
        <3> SUFFICES ASSUME NEW r \in Req
                     PROVE  CallAimed(call[r])'
            OBVIOUS
        <3>1. PICK c : c = call[r]
            OBVIOUS
        <3>2. CallAimed(c)'
            BY <2>1, <2>2, <3>1
        <3> QED
            BY <1>1, <3>1, <3>2 DEF CallAimed, Sending, Reached, Gone
    <2> QED
        BY <2>3 DEF Aimed
<1>10. Made'
    BY <1>1, <1>2 DEF TalkInv, Made
<1>11. AnswersReach'
    BY <1>1, <1>2, <1>3, <1>7 DEF TalkInv, AnswersReach
<1>12. NoneLeft'
    <2>1. \A v \in User : Making(v)' => Making(v) /\ v # u
        BY <1>2 DEF Making
    <2> QED
        BY <1>1, <1>2, <1>3, <2>1 DEF TalkInv, NoneLeft, Gone
<1> QED
    BY <1>1, <1>4, <1>6, <1>9, <1>10, <1>11, <1>12 DEF Sound, TalkInv, Private

\* Those who waited have the place of the topic, which is in the row by now.
LEMMA CardStep ==
    ASSUME TalkInv, NEW u \in User, Card(u)
    PROVE  Sound' /\ Private'
<1>1. /\ UNCHANGED <<group, threads, row, topic, stale, talk>> /\ creating[u].at = "card"
      /\ creating' = [creating EXCEPT ![u].at = "none"]
    BY DEF Card
<1>2. /\ creating'[u].at = "none" /\ creating'[u].place = creating[u].place
      /\ \A v \in User \ {u} : creating'[v] = creating[v]
    BY <1>1 DEF TalkInv, TypeInv, TypeOK
<1>3. Here' = Here
    BY <1>1 DEF Here
<1>4. /\ row[u] = creating[u].place /\ creating[u].place.group = group
      /\ OwnedBy(u, creating[u].place) /\ Given(creating[u].place)
    BY <1>1 DEF TalkInv, Made, Owned, Numbered
<1>5. \A r \in Req :
         \/ call'[r] = call[r]
         \/ /\ call[r].at = "wait" /\ call[r].user = u
            /\ call'[r].user = u /\ call'[r].row = call[r].row
            /\ call'[r].place = creating[u].place /\ call'[r].again = call[r].again
            /\ call'[r].at = IF call[r].again THEN "send" ELSE "reopen"
    BY DEF Card, Waiting, Message, TalkInv, TypeInv
<1>6. Numbered'
    BY <1>1, <1>2, <1>4, <1>5 DEF TalkInv, Numbered, Given
<1>7. Owned'
    <2>1. \A v \in User : OwnedBy(v, row'[v]) /\ OwnedBy(v, creating'[v].place)
        BY <1>1, <1>2 DEF TalkInv, Owned
    <2>2. \A r \in Req : CallOwned(call'[r])
        BY <1>4, <1>5 DEF TalkInv, Owned, CallOwned, Sending
    <2> QED
        BY <1>3, <2>1, <2>2 DEF Owned, CallOwned, OwnedBy, Sending
<1>8. Aimed'
    <2>1. \A r \in Req : CallAimed(call'[r])
        BY <1>4, <1>5 DEF TalkInv, Aimed, CallAimed, Sending, Reached
    <2> QED
        BY <1>1, <1>3, <2>1 DEF Aimed, CallAimed, Sending, Reached, Gone
<1>9. Made' /\ AnswersReach'
    BY <1>1, <1>2, <1>3 DEF TalkInv, Made, AnswersReach
<1>10. NoneLeft'
    <2>1. \A v \in User : Making(v)' => Making(v)
        BY <1>2 DEF Making
    <2> QED
        BY <1>1, <1>3, <2>1 DEF TalkInv, NoneLeft, Gone
<1> QED
    BY <1>1, <1>6, <1>7, <1>8, <1>9, <1>10 DEF Sound, TalkInv, Private

LEMMA CreateFailsStep ==
    ASSUME TalkInv, NEW u \in User, CreateFails(u)
    PROVE  Sound' /\ Private'
<1>1. /\ UNCHANGED <<group, threads, row, topic, stale, talk>>
      /\ creating' = [creating EXCEPT ![u].at = "none"]
    BY DEF CreateFails
<1>2. /\ creating'[u].at = "none" /\ creating'[u].place = creating[u].place
      /\ \A v \in User \ {u} : creating'[v] = creating[v]
    BY <1>1 DEF TalkInv, TypeInv, TypeOK
<1>3. Here' = Here
    BY <1>1 DEF Here
<1>4. \A r \in Req : call'[r] = call[r] \/ call'[r] = Idle
    BY DEF CreateFails
<1>5. CallOwned(Idle) /\ CallAimed(Idle) /\ Given(Idle.row) /\ Given(Idle.place)
    BY IdleSound DEF TalkInv
<1>6. Numbered'
    BY <1>1, <1>2, <1>4, <1>5 DEF TalkInv, Numbered, Given
<1>7. Owned'
    <2>1. \A v \in User : OwnedBy(v, row'[v]) /\ OwnedBy(v, creating'[v].place)
        BY <1>1, <1>2 DEF TalkInv, Owned
    <2>2. \A r \in Req : CallOwned(call'[r])
        BY <1>4, <1>5 DEF TalkInv, Owned
    <2> QED
        BY <1>3, <2>1, <2>2 DEF Owned, CallOwned, OwnedBy, Sending
<1>8. Aimed'
    <2>1. \A r \in Req : CallAimed(call'[r])
        BY <1>4, <1>5 DEF TalkInv, Aimed
    <2> QED
        BY <1>1, <1>3, <2>1 DEF Aimed, CallAimed, Sending, Reached, Gone
<1>9. Made' /\ AnswersReach'
    BY <1>1, <1>2, <1>3 DEF TalkInv, Made, AnswersReach
<1>10. NoneLeft'
    <2>1. \A v \in User : Making(v)' => Making(v)
        BY <1>2 DEF Making
    <2> QED
        BY <1>1, <1>3, <2>1 DEF TalkInv, NoneLeft, Gone
<1> QED
    BY <1>1, <1>6, <1>7, <1>8, <1>9, <1>10 DEF Sound, TalkInv, Private

\* Requests and promises are gone; in a new group nothing is named yet.
LEMMA RestartStep ==
    ASSUME TalkInv, NEW g \in {group, group + 1}, Restart(g)
    PROVE  Sound' /\ Private'
<1>1. /\ UNCHANGED <<row, topic, stale, talk>> /\ group' = g
      /\ threads' = IF g = group THEN threads ELSE 0
      /\ \A r \in Req : call'[r] = Idle
      /\ \A u \in User : creating'[u] = [at |-> "none", place |-> NoPlace]
    BY DEF Restart
<1>2. group \in Nat /\ group # 0 /\ threads \in Nat
    BY TalkAssumption DEF TalkInv, TypeInv, TypeOK
<1>3. \A t \in topic : Given(t.place) /\ t.place \in Place
    BY DEF TalkInv, Numbered, TypeInv, TypeOK, Topic
<1>4. Here' \subseteq Here
    BY <1>1, <1>2, <1>3, NoPlaceType DEF Here, Given
<1>5. /\ \A u \in User : Given(row[u]) /\ row[u] \in Place \cup {NoPlace}
      /\ Given(NoPlace)
    BY <1>2, NoPlaceType DEF TalkInv, Numbered, TypeInv, TypeOK, Given
<1>6. \A p \in Place \cup {NoPlace} : Given(p) => Given(p)'
    BY <1>1, <1>2, NoPlaceType DEF Given
<1>7. Numbered'
    <2>1. Given(NoPlace)'
        BY <1>5, <1>6
    <2>2. \A t \in topic : Given(t.place)'
        BY <1>3, <1>6, <1>1
    <2>3. \A u \in User : Given(row[u])'
        BY <1>5, <1>6, <1>1
    <2>4. Idle.row = NoPlace /\ Idle.place = NoPlace
        BY DEF Idle
    <2> QED
        BY <1>1, <2>1, <2>2, <2>3, <2>4 DEF Numbered, Given
<1>8. Owned'
    <2>1. \A u \in User : OwnedBy(u, row[u]) /\ OwnedBy(u, NoPlace)
        BY NoPlaceType, <1>3 DEF TalkInv, Owned, OwnedBy, Here
    <2> QED
        BY <1>1, <1>4, <2>1, IdleType DEF Owned, OwnedBy, CallOwned, Sending
<1>9. Aimed'
    BY <1>1, IdleType DEF Aimed, CallAimed, Sending
<1>10. NoneLeft' /\ Made'
    BY <1>1 DEF NoneLeft, Made, Making
<1>11. AnswersReach'
    BY <1>1, <1>4 DEF TalkInv, AnswersReach
<1> QED
    BY <1>1, <1>7, <1>8, <1>9, <1>10, <1>11 DEF Sound, TalkInv, Private

-----------------------------------------------------------------------------

LEMMA TalkInit == Init => TalkInv
<1>1. ASSUME Init
      PROVE  Numbered /\ Owned /\ Aimed
    <2>1. /\ topic = {} /\ Here = {} /\ group = 1 /\ threads = 0
          /\ \A u \in User : row[u] = NoPlace /\ creating[u].place = NoPlace
          /\ \A r \in Req : call[r].at = "idle" /\ call[r].row = NoPlace
                            /\ call[r].place = NoPlace
        BY <1>1 DEF Init, Here, Idle
    <2> QED
        BY <2>1, NoPlaceType DEF Numbered, Given, Owned, OwnedBy, CallOwned, Aimed, CallAimed,
            Sending
<1>2. ASSUME Init
      PROVE  NoneLeft /\ Made /\ AnswersReach /\ Private
    BY <1>2 DEF Init, NoneLeft, Making, Made, AnswersReach, Here, Private
<1> QED
    BY <1>1, <1>2, TypeInit DEF TalkInv

LEMMA TalkStep == TalkInv /\ [Next]_vars => TalkInv'
<1> SUFFICES ASSUME TalkInv, [Next]_vars
             PROVE  TalkInv'
    OBVIOUS
<1>1. TypeInv'
    BY TypeStep DEF TalkInv
<1>2. ASSUME NEW r \in Req, MessageStep(r) \/ \E u \in User : Write(r, u)
      PROVE  Sound' /\ Private'
    BY <1>2, WriteStep, ThreadStep, NotFoundStep, ReopenStep, SentStep, SendFailsStep
       DEF MessageStep
<1>3. ASSUME NEW u \in User, CreateStep(u)
      PROVE  Sound' /\ Private'
    BY <1>1, <1>3, MakeTopicStep, KeepTopicStep, CardStep, CreateFailsStep DEF CreateStep
<1>4. Sound' /\ Private'
    BY <1>2, <1>3, SupportStep, RestartStep DEF Next
<1> QED
    BY <1>1, <1>4 DEF Sound, TalkInv

\* However many users write at once, and whatever topics are removed, promises fail
\* and groups change: a question lies in the topic its user's row names, unless two
\* of his messages made a topic each (createTopic, fromSupport).
THEOREM AnswersAlwaysReach == Spec => []AnswersReach
<1>1. TalkInv => AnswersReach
    BY DEF TalkInv
<1> QED
    BY TalkInit, TalkStep, <1>1, PTL DEF Spec

\* Nobody's words come to lie in the topic of another, nor answers to him with
\* another, for any users, groups and topics (toTopic, fromSupport).
THEOREM AlwaysPrivate == Spec => []Private
<1>1. TalkInv => Private
    BY DEF TalkInv
<1> QED
    BY TalkInit, TalkStep, <1>1, PTL DEF Spec

-----------------------------------------------------------------------------
(* The lease *)

USE DEF Over

-----------------------------------------------------------------------------
(* Types *)

LEMMA LeaseTypeInit == LeaseInit => LeaseTypeOK
BY JobLeaseAssumption DEF LeaseInit, LeaseTypeOK, Down, NoTimer, TooLate

LEMMA DownType ==
    /\ Down \in [up : BOOLEAN, timer : 0..NoTimer, passes : Nat, spent : 0..MaxPass]
    /\ [Down EXCEPT !.up = TRUE, !.timer = 0]
        \in [up : BOOLEAN, timer : 0..NoTimer, passes : Nat, spent : 0..MaxPass]
<1>1. 0 \in 0..MaxPass /\ 0 \in 0..NoTimer /\ NoTimer \in 0..NoTimer
    BY JobLeaseAssumption DEF NoTimer
<1> QED
    BY <1>1 DEF Down

\* Every action keeps the types.
LEMMA LeaseTypeStep == LeaseTypeOK /\ [LeaseNext]_leaseVars => LeaseTypeOK'
<1> SUFFICES ASSUME LeaseTypeOK, [LeaseNext]_leaseVars
             PROVE  LeaseTypeOK'
    OBVIOUS
<1> USE JobLeaseAssumption DEF LeaseTypeOK, NoTimer, TooLate
<1>1. ASSUME NEW c \in Copy, SkipPass(c) \/ LeaveToHolder(c) \/ LeaseFails(c)
      PROVE  LeaseTypeOK'
    BY <1>1 DEF SkipPass, LeaveToHolder, LeaseFails, Waits
<1>2. ASSUME NEW c \in Copy, StartPass(c)
      PROVE  LeaseTypeOK'
    BY <1>2 DEF StartPass, leased
<1>3. ASSUME NEW c \in Copy, FinishPass(c)
      PROVE  LeaseTypeOK'
    <2> DEFINE Kind == [up : BOOLEAN, timer : 0..(Interval + 1), passes : Nat,
                        spent : 0..MaxPass]
    <2>1. copy[c] \in Kind
        OBVIOUS
    <2>2. copy[c].passes - 1 \in Nat /\ 0 \in 0..MaxPass
        BY <1>3 DEF FinishPass, running
    <2>3. [copy[c] EXCEPT !.passes = copy[c].passes - 1, !.spent = 0] \in Kind
        BY <2>1, <2>2
    <2>4. copy' \in [Copy -> Kind]
        BY <1>3, <2>3 DEF FinishPass, ended
    <2> QED
        BY <1>3, <2>4 DEF FinishPass
<1>4. ASSUME NEW c \in Copy, onApplicationBootstrap(c)
      PROVE  LeaseTypeOK'
    BY <1>4, DownType DEF onApplicationBootstrap
<1>5. ASSUME NEW c \in Copy, onModuleDestroy(c)
      PROVE  LeaseTypeOK'
    BY <1>5 DEF onModuleDestroy
<1>6. ASSUME NEW c \in Copy, Crash(c) \/ Exit(c)
      PROVE  LeaseTypeOK'
    BY <1>6, DownType DEF Crash, Exit, Exits
<1>7. CASE Tick
    <2> DEFINE Kind == [up : BOOLEAN, timer : 0..(Interval + 1), passes : Nat,
                        spent : 0..MaxPass]
    <2>1. lease' \in [holder : Copy \cup {Nobody}, left : -1..LeaseTicks]
        <3>1. (IF lease.left = -1 THEN -1 ELSE lease.left - 1) \in -1..LeaseTicks
            OBVIOUS
        <3>2. lease' = [lease EXCEPT !.left = IF lease.left = -1 THEN -1 ELSE lease.left - 1]
            BY <1>7 DEF Tick
        <3> QED
            BY <3>1, <3>2
    <2>2. ASSUME NEW c \in Copy
          PROVE  copy'[c] \in Kind
        <3> DEFINE t == IF copy[c].timer # Interval + 1 THEN copy[c].timer - 1
                                                        ELSE copy[c].timer
                   n == IF copy[c].passes > 0 THEN copy[c].spent + 1 ELSE 0
        <3>1. copy'[c] = [copy[c] EXCEPT !.timer = t, !.spent = n]
            BY <1>7 DEF Tick, Polls
        <3>2. copy[c] \in Kind /\ copy[c].timer > 0
              /\ (copy[c].passes > 0 => copy[c].spent < MaxPass)
            BY <1>7 DEF Tick
        <3>3. t \in 0..(Interval + 1) /\ n \in 0..MaxPass
            BY <3>2
        <3> HIDE DEF t, n
        <3> QED
            BY <3>1, <3>2, <3>3
    <2>3. copy' \in [Copy -> Kind]
        BY <1>7, <2>2 DEF Tick
    <2>4. faults' = faults
        BY <1>7 DEF Tick
    <2>5. orphaned' \in [Copy -> 0..TooLate]
        <3> DEFINE Count(c) == IF lease.holder = Nobody /\ Tries(c)
                               THEN IF orphaned[c] < TooLate THEN orphaned[c] + 1 ELSE TooLate
                               ELSE 0
        <3>1. orphaned' = [c \in Copy |-> Count(c)]
            BY <1>7 DEF Tick
        <3>2. \A c \in Copy : Count(c) \in 0..TooLate
            OBVIOUS
        <3> HIDE DEF Count
        <3> QED
            BY <3>1, <3>2
    <2> QED
        BY <2>1, <2>3, <2>4, <2>5
<1>8. CASE UNCHANGED leaseVars
    BY <1>8 DEF leaseVars
<1> QED
    BY <1>1, <1>2, <1>3, <1>4, <1>5, <1>6, <1>7, <1>8 DEF LeaseNext, Run

\* Rows, timers and counts keep their types, and no lease is longer than LEASE_MS
\* (acquireLease).
THEOREM LeaseTypeCorrect == LeaseSpec => []LeaseTypeOK
BY LeaseTypeInit, LeaseTypeStep, PTL DEF LeaseSpec

-----------------------------------------------------------------------------
(* One pass at a time *)

\* Whoever is in a pass that has not outlived its lease holds the lease, and what
\* is left of the lease and what the pass has taken make up at least a whole lease.
PassHeld ==
    \A c \in Copy : copy[c].passes > 0 =>
        /\ copy[c].passes = 1
        /\ copy[c].spent <= LeaseTicks =>
              lease.holder = c /\ lease.left + copy[c].spent >= LeaseTicks

PassInv == LeaseTypeOK /\ PassHeld

LEMMA PassInit == LeaseInit => PassInv
BY LeaseTypeInit DEF LeaseInit, PassInv, PassHeld, Down

LEMMA PassStep == PassInv /\ [LeaseNext]_leaseVars => PassInv'
<1> SUFFICES ASSUME PassInv, [LeaseNext]_leaseVars
             PROVE  PassHeld'
    BY LeaseTypeStep DEF PassInv
<1> USE JobLeaseAssumption DEF LeaseTypeOK, NoTimer, PassInv, PassHeld
<1>1. ASSUME NEW c \in Copy, SkipPass(c) \/ LeaveToHolder(c) \/ LeaseFails(c)
      PROVE  PassHeld'
    BY <1>1 DEF SkipPass, LeaveToHolder, LeaseFails, Waits
<1>2. ASSUME NEW c \in Copy, StartPass(c)
      PROVE  PassHeld'
    <2>1. \A d \in Copy \ {c} : copy[d].passes > 0 => copy[d].spent > LeaseTicks
        BY <1>2 DEF StartPass, free, Over
    <2>2. copy'[c].passes = 1 /\ \A d \in Copy \ {c} : copy'[d] = copy[d]
        BY <1>2 DEF StartPass, running
    <2>3. lease'.holder = c /\ lease'.left = LeaseTicks /\ copy'[c].spent = 0
        BY <1>2 DEF StartPass, leased
    <2> QED
        BY <2>1, <2>2, <2>3
<1>3. ASSUME NEW c \in Copy, FinishPass(c)
      PROVE  PassHeld'
    BY <1>3 DEF FinishPass, running, ended
<1>4. ASSUME NEW c \in Copy, onApplicationBootstrap(c)
      PROVE  PassHeld'
    BY <1>4 DEF onApplicationBootstrap, Down
<1>5. ASSUME NEW c \in Copy, onModuleDestroy(c)
      PROVE  PassHeld'
    BY <1>5 DEF onModuleDestroy
<1>6. ASSUME NEW c \in Copy, Crash(c) \/ Exit(c)
      PROVE  PassHeld'
    BY <1>6 DEF Crash, Exit, Exits, Down
<1>7. CASE Tick
    <2>1. lease'.holder = lease.holder
          /\ lease'.left = IF lease.left = -1 THEN -1 ELSE lease.left - 1
        BY <1>7 DEF Tick, Over
    <2>2. ASSUME NEW c \in Copy
          PROVE  /\ copy'[c].passes = copy[c].passes
                 /\ copy[c].passes > 0 =>
                        copy[c].spent < MaxPass /\ copy'[c].spent = copy[c].spent + 1
        <3> DEFINE t == IF Polls(c) THEN copy[c].timer - 1 ELSE copy[c].timer
                   n == IF copy[c].passes > 0 THEN copy[c].spent + 1 ELSE 0
        <3>1. copy'[c] = [copy[c] EXCEPT !.timer = t, !.spent = n]
            BY <1>7 DEF Tick
        <3>2. copy[c].passes > 0 => copy[c].spent < MaxPass
            BY <1>7 DEF Tick
        <3> HIDE DEF t
        <3> QED
            BY <3>1, <3>2
    <2> QED
        BY <2>1, <2>2
<1>8. CASE UNCHANGED leaseVars
    BY <1>8 DEF leaseVars
<1> QED
    BY <1>1, <1>2, <1>3, <1>4, <1>5, <1>6, <1>7, <1>8 DEF LeaseNext, Run

LEMMA PassHeldOne == PassInv => OnePass
BY JobLeaseAssumption DEF PassInv, PassHeld, OnePass, Outlived, LeaseTypeOK

\* However copies start, stop, crash and fail to reach the database, and however
\* long a pass takes, no copy is in two passes, and two copies are in a pass at once
\* only if one of the two passes has outlived its lease (ScheduledJob.run,
\* acquireLease).
THEOREM OnePassAtATime == LeaseSpec => []OnePass
BY PassInit, PassStep, PassHeldOne, PTL DEF LeaseSpec

-----------------------------------------------------------------------------
(* Taking over *)

\* A lease nobody can renew runs out: as long as it lasts, the count of every copy
\* grows as it shrinks; when it is over, as the timer of the copy does.
OrphanEnds ==
    /\ lease.holder # Nobody => \A c \in Copy : orphaned[c] = 0
    /\ \A c \in Copy :
        /\ running(c) => orphaned[c] = 0
        /\ lease.left # Over => orphaned[c] + lease.left <= LeaseTicks
        /\ lease.left = Over /\ Polls(c) =>
              orphaned[c] + copy[c].timer <= LeaseTicks + Interval
        /\ orphaned[c] <= LeaseTicks + Interval

OrphanInv == LeaseTypeOK /\ OrphanEnds

LEMMA OrphanInit == LeaseInit => OrphanInv
BY LeaseTypeInit, JobLeaseAssumption
   DEF LeaseInit, OrphanInv, OrphanEnds, Down, Polls, NoTimer, running

LEMMA OrphanStep == OrphanInv /\ [LeaseNext]_leaseVars => OrphanInv'
<1> SUFFICES ASSUME OrphanInv, [LeaseNext]_leaseVars
             PROVE  OrphanEnds'
    BY LeaseTypeStep DEF OrphanInv
<1> USE JobLeaseAssumption DEF OrphanInv, LeaseTypeOK, NoTimer, Polls, OrphanEnds, running, Over
<1>1. ASSUME NEW c \in Copy, SkipPass(c)
      PROVE  OrphanEnds'
    <2>1. orphaned[c] = 0
        BY <1>1 DEF SkipPass
    <2> QED
        BY <1>1, <2>1 DEF SkipPass, Waits
<1>2. ASSUME NEW c \in Copy, LeaveToHolder(c)
      PROVE  OrphanEnds'
    BY <1>2 DEF LeaveToHolder, free, Waits
<1>3. ASSUME NEW c \in Copy, LeaseFails(c)
      PROVE  OrphanEnds'
    BY <1>3 DEF LeaseFails, Waits
<1>4. ASSUME NEW c \in Copy, StartPass(c)
      PROVE  OrphanEnds'
    BY <1>4 DEF StartPass, leased
<1>5. ASSUME NEW c \in Copy, FinishPass(c)
      PROVE  OrphanEnds'
    BY <1>5 DEF FinishPass, ended
<1>6. ASSUME NEW c \in Copy, onApplicationBootstrap(c)
      PROVE  OrphanEnds'
    BY <1>6 DEF onApplicationBootstrap, Down
<1>7. ASSUME NEW c \in Copy, onModuleDestroy(c)
      PROVE  OrphanEnds'
    BY <1>7 DEF onModuleDestroy
<1>8. ASSUME NEW c \in Copy, Crash(c) \/ Exit(c)
      PROVE  OrphanEnds'
    BY <1>8 DEF Crash, Exit, Exits, Down
<1>9. CASE Tick
    <2>1. lease'.holder = lease.holder
          /\ lease'.left = IF lease.left = -1 THEN -1 ELSE lease.left - 1
        BY <1>9 DEF Tick
    <2>2. ASSUME NEW c \in Copy
          PROVE  /\ copy[c].timer > 0
                 /\ copy'[c].timer = IF copy[c].timer # Interval + 1
                                       THEN copy[c].timer - 1 ELSE copy[c].timer
                 /\ copy'[c].passes = copy[c].passes
        <3> DEFINE t == IF copy[c].timer # Interval + 1 THEN copy[c].timer - 1
                                                        ELSE copy[c].timer
                   n == IF copy[c].passes > 0 THEN copy[c].spent + 1 ELSE 0
        <3>1. copy'[c] = [copy[c] EXCEPT !.timer = t, !.spent = n]
            BY <1>9 DEF Tick
        <3>2. copy[c].timer > 0
            BY <1>9 DEF Tick
        <3> HIDE DEF n
        <3> QED
            BY <3>1, <3>2
    <2>3. ASSUME NEW c \in Copy
          PROVE  orphaned'[c] = IF lease.holder = Nobody /\ Tries(c)
                                THEN orphaned[c] + 1 ELSE 0
        <3>1. orphaned[c] < TooLate
            BY DEF TooLate
        <3> QED
            BY <1>9, <3>1 DEF Tick
    <2>4. ASSUME NEW c \in Copy, lease.holder = Nobody /\ Tries(c)
          PROVE  /\ orphaned'[c] = orphaned[c] + 1
                 /\ copy'[c].passes = 0
                 /\ copy[c].timer \in 1..Interval /\ copy'[c].timer = copy[c].timer - 1
        BY <2>2, <2>3, <2>4 DEF Tries
    <2> QED
        BY <2>1, <2>2, <2>3, <2>4
<1>10. CASE UNCHANGED leaseVars
    BY <1>10 DEF leaseVars
<1> QED
    BY <1>1, <1>2, <1>3, <1>4, <1>5, <1>6, <1>7, <1>8, <1>9, <1>10 DEF LeaseNext, Run

LEMMA OrphanBounded == OrphanInv => TakenOver
BY DEF OrphanInv, OrphanEnds, TakenOver

\* A dead holder's tasks wait no longer than the lease and one interval for a copy
\* that polls, is in no pass and reaches the database, however long passes take
\* (LEASE_MS, ScheduledJob.run).
THEOREM TakenOverAlways == LeaseSpec => []TakenOver
BY OrphanInit, OrphanStep, OrphanBounded, PTL DEF LeaseSpec
=============================================================================
