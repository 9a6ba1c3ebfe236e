------------------------------- MODULE Balance -------------------------------
(****************************************************************************)
(* The balance page of a creator, the same in both apps (BalanceView.tsx,   *)
(* Balance.tsx), with the endpoint behind it (balance.controller.ts): the   *)
(* wallet comes with the login, then four queries run side by side. A       *)
(* withdrawal is one step here; Payouts has its statements. Money leaves    *)
(* only on a fresh login (assertFreshLogin); a stale one is opened again.   *)
(* The rate, dates and the reasons of refusals are left out.                *)
(****************************************************************************)
EXTENDS Integers, Sequences, FiniteSets

CONSTANTS
    Sub,           \* videos of the creator
    Earns,         \* what is accrued for each, in cents
    CENTS,         \* in a USDT
    MIN_PAYOUT,    \* in USDT
    None,
    MaxPayouts, MaxMoves, MaxSlips   \* bounds: requests, moves of others, faults

\* What the constants must be; assumed by Creator.
BalanceAssumption ==
    /\ IsFiniteSet(Sub) /\ Earns \in [Sub -> Nat]
    /\ CENTS \in Nat \ {0} /\ MIN_PAYOUT \in Nat \ {0}
    /\ {MaxPayouts, MaxMoves, MaxSlips} \subseteq Nat

VARIABLES
    accrual,   \* what became of the payout of each video
    payouts,   \* the requests to withdraw
    wallet,    \* is it in the profile
    stale,     \* the login is older than an hour
    balancePage, \* the state of the page
    reading,   \* the balance on its way, by what is read so far
    sending,   \* the withdrawal on its way
    moved,     \* history: something changed since the balance was asked for
    moves, slips   \* bounds
stored == <<accrual, payouts, wallet>>
bounds == <<moves, slips>>
vars == <<stored, stale, balancePage, reading, sending, moved, bounds>>

\* Sums: every cent of the rows they are of.
Amount(statuses) ==
    Cardinality(UNION {{i} \X (1 .. payouts[i].amount) :
                       i \in {i \in DOMAIN payouts : payouts[i].status \in statuses}})
Accrued(statuses) ==
    Cardinality(UNION {{v} \X (1 .. Earns[v]) : v \in {v \in Sub : accrual[v] \in statuses}})

Above(x) == IF x > 0 THEN x ELSE 0
availableMinor(earned, held, sums) == Above(earned - held - sums.paid - sums.requested)

\* What each query reads.
Part == [wallet  |-> wallet,
         earned  |-> Accrued({"HELD", "RELEASED"}),
         held    |-> Accrued({"HELD"}),
         sums    |-> [paid |-> Amount({"PAID"}), requested |-> Amount({"REQUESTED"})],
         history |-> payouts]

NoReading == [part \in DOMAIN Part |-> None]
Nothing == [at |-> "idle"]
Blank == [balance |-> None, amount |-> 0, busy |-> FALSE, error |-> FALSE,
          sent |-> FALSE, loadError |-> FALSE, loading |-> TRUE]

Init ==
    /\ accrual \in [Sub -> {"HELD", "RELEASED"}]
    /\ payouts = <<>>
    /\ wallet \in BOOLEAN
    /\ stale = FALSE
    /\ balancePage = Blank /\ reading = NoReading /\ sending = Nothing
    /\ moved = FALSE
    /\ moves = 0 /\ slips = 0

-----------------------------------------------------------------------------
(* What others do: moderators, and the creator in the other app *)

Move == moves < MaxMoves /\ moves' = moves + 1 /\ moved' = TRUE

Settle(v) ==
    /\ Move /\ accrual[v] = "HELD"
    /\ \E end \in {"RELEASED", "CANCELLED"} : accrual' = [accrual EXCEPT ![v] = end]
    /\ UNCHANGED <<payouts, wallet, stale, balancePage, reading, sending, slips>>

transitionStatus(i) ==
    /\ Move /\ payouts[i].status = "REQUESTED"
    /\ \E end \in {"PAID", "REJECTED"} : payouts' = [payouts EXCEPT ![i].status = end]
    /\ UNCHANGED <<accrual, wallet, stale, balancePage, reading, sending, slips>>

updateWallet ==
    /\ Move
    /\ wallet' = ~wallet
    /\ UNCHANGED <<accrual, payouts, stale, balancePage, reading, sending, slips>>

GrowStale ==
    /\ ~stale /\ stale' = TRUE
    /\ UNCHANGED <<stored, balancePage, reading, sending, moved, bounds>>

-----------------------------------------------------------------------------
(* The page is loaded *)

\* The guard has read the user, wallet and all, before the queries start.
Read(part) ==
    /\ balancePage.loading /\ reading[part] = None
    /\ part # "wallet" => reading.wallet # None
    /\ reading' = [reading EXCEPT ![part] = Part[part]]
    /\ UNCHANGED <<stored, stale, balancePage, sending, moved, bounds>>

\* Slip: the amount is rounded to the nearest.
whole_nearest(cents) == ((cents + CENTS \div 2) \div CENTS) * CENTS
whole(cents) == (cents \div CENTS) * CENTS

Loaded ==
    LET available == availableMinor(reading.earned, reading.held, reading.sums) IN
    /\ balancePage.loading /\ \A part \in DOMAIN Part : reading[part] # None
    /\ balancePage' = [balancePage EXCEPT
          !.balance = [available |-> available, requested |-> reading.sums.requested,
                       wallet |-> reading.wallet, history |-> reading.history],
          !.amount = whole(available), !.loading = FALSE, !.busy = FALSE]
    /\ reading' = NoReading
    /\ UNCHANGED <<stored, stale, sending, moved, bounds>>

Slip == slips < MaxSlips /\ slips' = slips + 1

LoadFailed ==
    /\ Slip /\ balancePage.loading
    /\ balancePage' = [balancePage EXCEPT !.loadError = TRUE, !.loading = FALSE, !.busy = FALSE]
    /\ reading' = NoReading
    /\ UNCHANGED <<stored, stale, sending, moved, moves>>

Retry ==
    /\ balancePage.loadError
    /\ balancePage' = [balancePage EXCEPT !.loadError = FALSE, !.loading = TRUE]
    /\ moved' = FALSE
    /\ UNCHANGED <<stored, stale, reading, sending, bounds>>

\* The page is left, or the login is made again, and the page is opened.
Open ==
    /\ ~balancePage.loading /\ sending = Nothing
    /\ balancePage' = Blank /\ reading' = NoReading
    /\ moved' = FALSE /\ stale' = FALSE
    /\ UNCHANGED <<stored, sending, bounds>>

-----------------------------------------------------------------------------
(* The form *)

formShown ==
    LET b == balancePage.balance IN
    /\ ~balancePage.loadError /\ b # None /\ ~balancePage.sent
    /\ b.requested = 0 /\ b.wallet /\ b.available >= MIN_PAYOUT * CENTS

\* min, max and step of the field, looked at by the browser.
valid(cents) ==
    /\ cents % CENTS = 0 /\ cents >= MIN_PAYOUT * CENTS
    /\ cents <= whole(balancePage.balance.available)

Type ==
    /\ formShown
    /\ \E cents \in 0 .. Accrued({"HELD", "RELEASED"}) :
          balancePage' = [balancePage EXCEPT !.amount = cents]
    /\ UNCHANGED <<stored, stale, reading, sending, moved, bounds>>

withdraw ==
    /\ formShown /\ ~balancePage.busy /\ valid(balancePage.amount)
    /\ balancePage' = [balancePage EXCEPT !.busy = TRUE, !.error = FALSE]
    /\ sending' = [at |-> "sent", amount |-> balancePage.amount]
    /\ UNCHANGED <<stored, stale, reading, moved, bounds>>

parsePayoutAmount(cents) == cents % CENTS = 0 /\ cents >= MIN_PAYOUT * CENTS

mayWithdraw(cents) ==
    /\ parsePayoutAmount(cents)
    /\ wallet /\ Amount({"REQUESTED"}) = 0
    /\ cents <= availableMinor(Part.earned, Part.held, Part.sums)

requestPayout ==
    /\ sending.at = "sent" /\ Len(payouts) < MaxPayouts
    /\ IF ~stale /\ mayWithdraw(sending.amount)
       THEN /\ payouts' = Append(payouts, [amount |-> sending.amount, status |-> "REQUESTED"])
            /\ sending' = [sending EXCEPT !.at = "done"]
            /\ moved' = TRUE
       ELSE /\ sending' = [sending EXCEPT !.at = "refused"]
            /\ UNCHANGED <<payouts, moved>>
    /\ UNCHANGED <<accrual, wallet, stale, balancePage, reading, bounds>>

\* The request is taken: the thanks stay as long as the page does.
Sent ==
    /\ sending.at = "done"
    /\ balancePage' = [balancePage EXCEPT !.sent = TRUE, !.loading = TRUE, !.loadError = FALSE]
    /\ sending' = Nothing /\ moved' = FALSE
    /\ UNCHANGED <<stored, stale, reading, bounds>>

\* Refused, or the request or its answer is lost: the page is not read again.
NotSent ==
    /\ sending # Nothing
    /\ \/ sending.at = "refused" /\ UNCHANGED slips
       \/ Slip
    /\ balancePage' = [balancePage EXCEPT !.error = TRUE, !.busy = FALSE]
    /\ sending' = Nothing
    /\ UNCHANGED <<stored, stale, reading, moved, moves>>

Next ==
    \/ \E v \in Sub : Settle(v)
    \/ \E i \in DOMAIN payouts : transitionStatus(i)
    \/ updateWallet \/ GrowStale
    \/ \E part \in DOMAIN Part : Read(part)
    \/ Loaded \/ LoadFailed \/ Retry \/ Open
    \/ Type \/ withdraw \/ requestPayout \/ Sent \/ NotSent

Spec == Init /\ [][Next]_vars

-----------------------------------------------------------------------------
\* As long as nothing changed since the balance was asked for, the form lets
\* through exactly what the server accepts: no withdrawal it offers is refused,
\* none that would be accepted is withheld, but for the thanks in its place
\* (BalanceView withdraw, parsePayoutAmount, PayoutsService.requestPayout).
OffersWhatIsLeft ==
    LET b == balancePage.balance IN
    ~moved /\ b # None /\ ~balancePage.loading /\ ~balancePage.loadError /\ ~balancePage.sent =>
        \A cents \in 0 .. Part.earned :
            mayWithdraw(cents) <=> formShown /\ valid(cents)
=============================================================================
