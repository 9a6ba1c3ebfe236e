------------------------------- MODULE Payouts -------------------------------
(***************************************************************************)
(* The balance of one creator and the requests to withdraw from it         *)
(* (src/src/payouts/payouts.service.ts).                                   *)
(*                                                                         *)
(* requestPayout is modelled statement by statement: it locks the row of   *)
(* the user, then reads the balance with three queries, each of which sees *)
(* what is committed when it runs, then inserts the request. Moderators    *)
(* decide on videos and on requests without that lock.                     *)
(***************************************************************************)
EXTENDS Integers, FiniteSets

CONSTANTS
    Sub,       \* videos of the creator
    Earns,     \* the payout accrued for a video, in cents
    Payout,    \* payout rows that may be created
    Amounts,   \* amounts a creator may ask for, in cents
    Request,   \* calls of requestPayout
    NoCall     \* no call has the lock

ASSUME PayoutsAssumption ==
    /\ IsFiniteSet(Sub) /\ IsFiniteSet(Payout)
    /\ Earns \in [Sub -> Nat]
    /\ Amounts \subseteq Nat \ {0}
    /\ NoCall \notin Request

VARIABLES
    accrual,   \* what became of the payout of each video
    payouts,   \* the payout rows
    wallet,    \* whether the profile names a wallet
    userLock,  \* the request whose transaction holds the row of the user
    req,       \* the calls in progress
    raced      \* history: accruals cancelled between the two sums of a balance

payoutVars == <<accrual, payouts, wallet, userLock, req, raced>>

Accrual == {"NONE", "HELD", "RELEASED", "CANCELLED"}
PayoutStatus == {"NONE", "REQUESTED", "PAID", "REJECTED"}
HOLDS_BALANCE == {"REQUESTED", "PAID"}

Steps == {"IDLE", "WAITING", "LOCKED", "EARNED", "HELD", "BALANCE"}

-----------------------------------------------------------------------------
(* The balance *)

\* Every cent of the given rows; their sum is how many there are.
Total(rows, cents) == Cardinality(UNION {{x} \X (1..cents[x]) : x \in rows})

In(statuses) == {s \in Sub : accrual[s] \in statuses}

earnedMinor == Total(In({"HELD", "RELEASED"}), Earns)
heldMinor == Total(In({"HELD"}), Earns)

withdrawnMinor ==
    Total({p \in Payout : payouts[p].status \in HOLDS_BALANCE},
          [p \in Payout |-> payouts[p].amount])

availableMinor(earned, held, withdrawn) ==
    LET left == earned - held - withdrawn
    IN  IF left > 0 THEN left ELSE 0

-----------------------------------------------------------------------------
(* A request *)

Unasked == [at |-> "IDLE", amount |-> 0, earned |-> 0, held |-> 0, available |-> 0]

\* Bound: a request starts only while a row is left for it.
RowsLeft ==
    Cardinality({p \in Payout : payouts[p].status = "NONE"})
        > Cardinality({r \in Request : req[r].at # "IDLE"})

requestPayout(r, amount) ==
    /\ req[r].at = "IDLE"
    /\ RowsLeft
    /\ req' = [req EXCEPT ![r] = [Unasked EXCEPT !.at = "WAITING", !.amount = amount]]
    /\ UNCHANGED <<accrual, payouts, wallet, userLock, raced>>

\* Slip: SELECT without FOR UPDATE.
userFree_always(lock) == TRUE

userFree(lock) == lock = NoCall

LockUser(r) ==
    /\ req[r].at = "WAITING"
    /\ userFree(userLock)
    /\ userLock' = r
    /\ req' = [req EXCEPT ![r].at = "LOCKED"]
    /\ UNCHANGED <<accrual, payouts, wallet, raced>>

\* Slip: the transaction is left open.
unlocked_not(lock, r) == lock

unlocked(lock, r) == IF lock = r THEN NoCall ELSE lock

Ends(r) ==
    /\ req' = [req EXCEPT ![r] = Unasked]
    /\ userLock' = unlocked(userLock, r)

\* Nowhere to send the money.
RefuseWithoutWallet(r) ==
    /\ req[r].at = "LOCKED"
    /\ ~wallet
    /\ Ends(r)
    /\ UNCHANGED <<accrual, payouts, wallet, raced>>

\* The wallet was read by the statement that locked the row, and nobody changes
\* the row while it is locked.
ReadEarned(r) ==
    /\ req[r].at = "LOCKED"
    /\ wallet
    /\ req' = [req EXCEPT ![r] = [@ EXCEPT !.at = "EARNED", !.earned = earnedMinor]]
    /\ UNCHANGED <<accrual, payouts, wallet, userLock, raced>>

ReadHeld(r) ==
    /\ req[r].at = "EARNED"
    /\ req' = [req EXCEPT ![r] = [@ EXCEPT !.at = "HELD", !.held = heldMinor]]
    /\ UNCHANGED <<accrual, payouts, wallet, userLock, raced>>

ReadPayouts(r) ==
    /\ req[r].at = "HELD"
    /\ req' = [req EXCEPT ![r] =
                [@ EXCEPT !.at = "BALANCE",
                          !.available = availableMinor(req[r].earned, req[r].held,
                                                     withdrawnMinor)]]
    /\ UNCHANGED <<accrual, payouts, wallet, userLock, raced>>

\* The partial unique index: one open request of a creator.
OpenRequest == \E p \in Payout : payouts[p].status = "REQUESTED"

\* More than the balance, or another request is open.
RefusePayout(r) ==
    /\ req[r].at = "BALANCE"
    /\ req[r].amount > req[r].available \/ OpenRequest
    /\ Ends(r)
    /\ UNCHANGED <<accrual, payouts, wallet, raced>>

CreatePayout(r, p) ==
    /\ req[r].at = "BALANCE"
    /\ req[r].amount <= req[r].available
    /\ ~OpenRequest
    /\ payouts[p].status = "NONE"
    /\ payouts' = [payouts EXCEPT ![p] = [status |-> "REQUESTED",
                                          amount |-> req[r].amount]]
    /\ Ends(r)
    /\ UNCHANGED <<accrual, wallet, raced>>

\* The creator names a wallet or removes it: an UPDATE of the same row.
updateWallet ==
    /\ userLock = NoCall
    /\ wallet' = ~wallet
    /\ UNCHANGED <<accrual, payouts, userLock, req, raced>>

-----------------------------------------------------------------------------
(* Moderators *)

undecided(payout) == payout.status = "REQUESTED"

transitionStatus(p, status) ==
    /\ undecided(payouts[p])
    /\ payouts' = [payouts EXCEPT ![p].status = status]
    /\ UNCHANGED <<accrual, wallet, userLock, req, raced>>

markPaid(p) == transitionStatus(p, "PAID")
reject(p) == transitionStatus(p, "REJECTED")

ApproveVideo(s) ==
    /\ accrual[s] = "NONE"
    /\ accrual' = [accrual EXCEPT ![s] = "HELD"]
    /\ UNCHANGED <<payouts, wallet, userLock, req, raced>>

\* The hold ended.
FinalizeViews(s) ==
    /\ accrual[s] = "HELD"
    /\ accrual' = [accrual EXCEPT ![s] = "RELEASED"]
    /\ UNCHANGED <<payouts, wallet, userLock, req, raced>>

\* The publication was gone before the hold ended.
PublicationDeleted(s) ==
    /\ accrual[s] = "HELD"
    /\ accrual' = [accrual EXCEPT ![s] = "CANCELLED"]
    /\ raced' = IF \E r \in Request : req[r].at = "EARNED" THEN raced \cup {s} ELSE raced
    /\ UNCHANGED <<payouts, wallet, userLock, req>>

-----------------------------------------------------------------------------

PayoutsInit ==
    /\ accrual = [s \in Sub |-> "NONE"]
    /\ payouts = [p \in Payout |-> [status |-> "NONE", amount |-> 0]]
    /\ wallet = FALSE
    /\ userLock = NoCall
    /\ req = [r \in Request |-> Unasked]
    /\ raced = {}

Proceed(r) ==
    \/ RefuseWithoutWallet(r)
    \/ ReadEarned(r)
    \/ ReadHeld(r)
    \/ ReadPayouts(r)
    \/ RefusePayout(r)
    \/ \E p \in Payout : CreatePayout(r, p)

Moderators ==
    \/ \E p \in Payout : markPaid(p) \/ reject(p)
    \/ \E s \in Sub : ApproveVideo(s) \/ FinalizeViews(s) \/ PublicationDeleted(s)

PayoutsNext ==
    \/ \E r \in Request, a \in Amounts : requestPayout(r, a)
    \/ \E r \in Request : LockUser(r) \/ Proceed(r)
    \/ updateWallet
    \/ Moderators

\* A transaction that began runs to its end, and PostgreSQL queues those that
\* wait for a row: nobody waits forever while others get it. Nothing makes a
\* creator ask or a moderator decide.
PayoutsFairness == \A r \in Request : SF_payoutVars(LockUser(r)) /\ WF_payoutVars(Proceed(r))

PayoutsSpec == PayoutsInit /\ [][PayoutsNext]_payoutVars /\ PayoutsFairness

-----------------------------------------------------------------------------
(* Properties *)

\* Every variable holds a value of its kind; a balance is never below zero.
PayoutsTypeOK ==
    /\ accrual \in [Sub -> Accrual]
    /\ payouts \in [Payout -> [status : PayoutStatus, amount : Nat]]
    /\ wallet \in BOOLEAN
    /\ userLock \in Request \cup {NoCall}
    /\ req \in [Request -> [at : Steps, amount : Nat, earned : Nat, held : Nat,
                            available : Nat]]
    /\ raced \subseteq Sub

\* What is requested and paid has been earned and its hold has ended: double taps,
\* refusals and late decisions never let out more (requestPayout, balance).
WithdrawnReleased == withdrawnMinor <= Total(In({"RELEASED"}), Earns)

\* The most that can be let out beyond it is what was cancelled between the two
\* sums of one balance (the earned and the held aggregate of balance).
OverdrawnOnlyInWindow ==
    withdrawnMinor <= Total(In({"RELEASED"}) \cup raced, Earns)

\* One request is open at a time, and a decision on it is final (transitionStatus):
\* a paid request is never refused and a refused one never paid.
DecisionFinal ==
    [][\A p \in Payout : payouts[p].status \in {"PAID", "REJECTED"} =>
            payouts'[p] = payouts[p]]_payoutVars

\* A request for a payout is answered: no lock is left behind by a refusal.
RequestAnswered ==
    \A r \in Request : req[r].at # "IDLE" ~> req[r].at = "IDLE"

=============================================================================
