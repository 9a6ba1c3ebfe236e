------------------------------ MODULE OrderFund ------------------------------
(***************************************************************************)
(* One advertising order, its fund and the submissions paid from it        *)
(* (src/src/orders, src/src/submissions, the parts of a ban that touch     *)
(* them).                                                                  *)
(*                                                                         *)
(* Every handler first reads the order row outside its transaction, decides*)
(* on what it saw, then opens a transaction that locks the row and writes. *)
(* `stale` holds what requests still in flight have read: a handler works  *)
(* from one of those reads or from a read made just now, and its           *)
(* transaction is one step because it runs under the row lock (lockOrder). *)
(*                                                                         *)
(* Time is abstracted: a deadline passes, a slot runs out and a hold ends  *)
(* whenever the corresponding action is taken.                             *)
(***************************************************************************)
EXTENDS Budget, FiniteSets

CONSTANTS
    Sub,          \* submission rows that may be created
    Creator,      \* creators
    CreatorOf,    \* the creator a row belongs to
    Video,        \* videos (videoKey)
    NoVideo,
    Offers,       \* what an advertiser may ask for, budget aside
    NoTerms,      \* SQL null of prevTerms and Submission.terms
    Budgets,      \* budgets an advertiser may set
    Rates,        \* cpm a moderator may set
    ViewCounts,   \* view counts creators claim and moderators count
    FeePercent,
    MaxInReview,
    MaxVersion,   \* bound: how often an order is sent to moderation
    MaxStale      \* bound: requests in flight with an old read

Terms == [offer : Offers, cpm : Nat]

withoutLink(offer) == [offer EXCEPT !.link = FALSE]

ASSUME SubAssumption ==
    /\ IsFiniteSet(Sub)
    /\ CreatorOf \in [Sub -> Creator]
    /\ NoVideo \notin Video
ASSUME OffersAssumption ==
    /\ Offers # {}
    /\ \A o \in Offers : {"minViews", "link"} \subseteq DOMAIN o
    /\ \A o \in Offers : o.minViews \in Nat /\ o.link \in BOOLEAN
    /\ \A o \in Offers : withoutLink(o) \in Offers
    /\ NoTerms \notin Terms
ASSUME MoneyAssumption ==
    /\ Budgets \subseteq Nat \ {Null}
    /\ Rates \subseteq Nat \ {Null}
    /\ ViewCounts \subseteq Nat
    /\ FeePercent \in 0..99
ASSUME BoundAssumption ==
    MaxInReview \in Nat /\ MaxVersion \in Nat /\ MaxStale \in Nat

VARIABLES
    order,    \* the order row
    subs,     \* the submission rows
    stale,    \* reads of requests in flight
    vetted,   \* history: the offer a moderator let through last
    removed   \* history: a moderator or a ban closed the published order

vars == <<order, subs, stale, vetted, removed>>
history == <<vetted, removed>>

-----------------------------------------------------------------------------
(* Rows *)

OrderStatus == {"NEW", "PENDING_MODERATION", "OPEN", "REJECTED",
                "EDIT_REJECTED", "CLOSED", "EXPIRED", "DELETED"}
SubStatus == {"NONE", "IN_PROGRESS", "SUBMITTED", "MODERATOR_APPROVED",
              "MODERATOR_REJECTED", "SLOT_EXPIRED", "DELETED"}

FROZEN == {"PENDING_MODERATION", "EDIT_REJECTED"}
HOLDS_MONEY == {"SUBMITTED", "MODERATOR_APPROVED"}
ACCRUED == {"MODERATOR_APPROVED"}
NO_VIDEO == {"NONE", "DELETED", "IN_PROGRESS", "SLOT_EXPIRED"}
ACCEPTS_VIDEOS == {"OPEN", "CLOSED"}
FUND_BUSY_STATUSES == {"OPEN", "CLOSED"}

\* `version` counts what moderationRequestedAt tells apart: each submission of
\* the order to moderation.
Row == [status : OrderStatus, budget : Nat, approvedBudget : Nat, cpm : Nat,
        offer : Offers, prevTerms : Terms \cup {NoTerms}, version : Nat,
        fundBusy : BOOLEAN]

\* `counted` is no column but history: the views the accrual was counted at,
\* which the end of the hold overwrites in `views`.
Submission == [status : SubStatus, views : Nat, counted : Nat, payout : Nat,
               terms : Terms \cup {NoTerms}, video : Video \cup {NoVideo},
               inflated : BOOLEAN, finalized : BOOLEAN]

\* What a row of each kind carries: money only under review and after approval,
\* terms from the submission on, an end of the hold only after approval.
WellFormed(sub) ==
    /\ sub.status \notin HOLDS_MONEY => sub.payout = 0
    /\ sub.status \in HOLDS_MONEY \cup {"MODERATOR_REJECTED"} =>
            sub.terms # NoTerms /\ sub.video # NoVideo
    /\ sub.inflated => sub.status = "MODERATOR_REJECTED"
    /\ sub.finalized => sub.status = "MODERATOR_APPROVED"

\* What a request reads before its transaction: the order row, whether the fund
\* was exhausted, the slots in progress and the videos rejected as inflated. The
\* number keeps apart requests that have read the same; 0 has read just now.
Read == [by : 0..MaxStale, order : Row, exhausted : BOOLEAN,
         slots : SUBSET Sub, inflated : SUBSET Video]

NoSubmission == [status |-> "NONE", views |-> 0, counted |-> 0, payout |-> 0,
                 terms |-> NoTerms, video |-> NoVideo, inflated |-> FALSE,
                 finalized |-> FALSE]

Exists(row) == row.status \notin {"NEW", "DELETED"}

-----------------------------------------------------------------------------
(* The fund *)

isFrozen(row) == row.cpm # Null /\ row.status \in FROZEN

termsOf(row) == [offer |-> row.offer, cpm |-> row.cpm]

\* Slip: reserves and accruals use a raise nobody paid for yet.
fundOf_unpaid(row) == row.budget

\* The budget reserves and accruals may use: while an edit is not approved, no
\* more than the approved one.
fundOf(row) ==
    IF isFrozen(row) /\ row.approvedBudget # Null
    THEN Lesser(row.budget, row.approvedBudget)
    ELSE row.budget

\* Every cent of payout held by submissions in the given statuses, so that a
\* sum of payouts is the number of such cents.
Cents(ss, statuses) ==
    UNION {{s} \X (1..ss[s].payout) : s \in {x \in Sub : ss[x].status \in statuses}}

spentByOrder(ss, statuses) == Cardinality(Cents(ss, statuses))

Free(row, ss) == free(fundOf(row), FeePercent, spentByOrder(ss, HOLDS_MONEY))

ExhaustedBy(row, ss, statuses) ==
    exhausted(fundOf(row), FeePercent, row.cpm, row.offer.minViews,
              spentByOrder(ss, statuses))

\* All the free money is reserved, yet accruals alone leave room for a video.
FundBusy(row, ss) ==
    /\ row.status \in FUND_BUSY_STATUSES
    /\ ExhaustedBy(row, ss, HOLDS_MONEY)
    /\ ~ExhaustedBy(row, ss, ACCRUED)

\* Slip: the pause never ends.
syncFundBusy_stuck(row, ss) == [row EXCEPT !.fundBusy = @ \/ FundBusy(row, ss)]

syncFundBusy(row, ss) == [row EXCEPT !.fundBusy = FundBusy(row, ss)]

\* Slip: an order used up stays in the catalogue.
closeIfExhausted_open(row, ss) == row

closeIfExhausted(row, ss) ==
    IF row.status = "OPEN" /\ ExhaustedBy(row, ss, ACCRUED)
    THEN [row EXCEPT !.status = "CLOSED"]
    ELSE row

\* Slip: a video is checked and paid at the terms of today.
videoTerms_current(row, sub) == [minViews |-> row.offer.minViews, cpm |-> row.cpm]

videoTerms(row, sub) ==
    [minViews |-> sub.terms.offer.minViews, cpm |-> sub.terms.cpm]

\* The slots in progress burn.
expireSlots(ss) ==
    [s \in Sub |-> IF ss[s].status = "IN_PROGRESS"
                   THEN [ss[s] EXCEPT !.status = "SLOT_EXPIRED"]
                   ELSE ss[s]]

rejectSubmitted(ss, who) ==
    [s \in Sub |-> IF ss[s].status = "SUBMITTED" /\ CreatorOf[s] \in who
                   THEN [ss[s] EXCEPT !.status = "MODERATOR_REJECTED",
                                      !.payout = 0]
                   ELSE ss[s]]

deleteInProgress(ss, c) ==
    [s \in Sub |-> IF ss[s].status = "IN_PROGRESS" /\ CreatorOf[s] = c
                   THEN [ss[s] EXCEPT !.status = "DELETED"]
                   ELSE ss[s]]

Slots(ss) == {s \in Sub : ss[s].status = "IN_PROGRESS"}

\* Videos that may never be submitted again: the claim of views was inflated.
Inflated(ss) == {ss[s].video : s \in {x \in Sub : ss[x].inflated}}

-----------------------------------------------------------------------------
(* Reads *)

ReadBy(r) ==
    [by |-> r, order |-> order, exhausted |-> ExhaustedBy(order, subs, HOLDS_MONEY),
     slots |-> Slots(subs), inflated |-> Inflated(subs)]

Now == ReadBy(0)

Reads == stale \cup {Now}

\* The request whose read was `seen` is answered.
Answered(seen) == stale' = stale \ {seen}

\* A request reads the rows and is still working on them.
ReadRows ==
    /\ Exists(order)
    /\ \E r \in 1..MaxStale :
          /\ \A seen \in stale : seen.by # r
          /\ stale' = stale \cup {ReadBy(r)}
    /\ UNCHANGED <<order, subs, history>>

\* A request in flight is refused or gives up.
GiveUp(seen) ==
    /\ seen \in stale
    /\ Answered(seen)
    /\ UNCHANGED <<order, subs, history>>

-----------------------------------------------------------------------------
(* The advertiser *)

Create(offer, budget) ==
    /\ order.status = "NEW"
    /\ MaxVersion >= 1
    /\ order' = [status |-> "PENDING_MODERATION", budget |-> budget,
                 approvedBudget |-> Null, cpm |-> Null, offer |-> offer,
                 prevTerms |-> NoTerms, version |-> 1, fundBusy |-> FALSE]
    /\ UNCHANGED <<subs, stale, history>>

\* An edit. One that repeats every field is not an edit, unless it also carries
\* a new deadline; a rejected edit may be sent again as it is.
changesNothing(row, offer, budget, newDeadline) ==
    /\ row.status \in {"OPEN", "PENDING_MODERATION"}
    /\ offer = row.offer /\ budget = row.budget /\ ~newDeadline

\* The first edit of an open order freezes it and ends the pause of a busy fund.
startsFreeze(row) == row.status = "OPEN"

busyAfterEdit(busy, row) == busy /\ ~(startsFreeze(row) /\ row.fundBusy)

Update(seen, offer, budget, newDeadline) ==
    /\ Exists(seen.order)
    /\ ~changesNothing(seen.order, offer, budget, newDeadline)
    /\ payoutPool(budget, FeePercent) >= spentByOrder(subs, HOLDS_MONEY)
    /\ order.status \in FROZEN \cup {"OPEN"}
    /\ order.version < MaxVersion
    /\ order' = [order EXCEPT
                    !.status = "PENDING_MODERATION",
                    !.offer = offer,
                    !.budget = budget,
                    !.version = @ + 1,
                    !.prevTerms = IF startsFreeze(seen.order)
                                   THEN termsOf(seen.order) ELSE @,
                    !.fundBusy = busyAfterEdit(@, seen.order)]
    /\ Answered(seen)
    /\ UNCHANGED <<subs, history>>

\* Slip: the unpaid budget survives the closing.
cancelEdit_budget(row) ==
    LET restored == IF row.prevTerms = NoTerms THEN termsOf(row) ELSE row.prevTerms
    IN  [row EXCEPT !.offer = restored.offer, !.cpm = restored.cpm]

cancelEdit(row) ==
    LET restored == IF row.prevTerms = NoTerms THEN termsOf(row) ELSE row.prevTerms
    IN  [row EXCEPT !.offer = restored.offer,
                    !.cpm = restored.cpm,
                    !.budget = row.approvedBudget]

\* Closing a frozen order cancels the edit: the terms before it and the approved
\* budget come back, and the slots burn.
Close(seen) ==
    LET frozen == isFrozen(seen.order) IN
    /\ Exists(seen.order)
    /\ order.status \in IF frozen THEN FROZEN ELSE {"OPEN"}
    /\ order' = [IF frozen THEN cancelEdit(order) ELSE order EXCEPT
                    !.status = "CLOSED"]
    /\ subs' = IF frozen THEN expireSlots(subs) ELSE subs
    /\ Answered(seen)
    /\ UNCHANGED history

\* Only the deadline comes from the earlier read, and it is not modelled here.
Extend ==
    /\ order.status \in {"OPEN", "EXPIRED"}
    /\ order' = [order EXCEPT !.status = "OPEN"]
    /\ UNCHANGED <<subs, stale, history>>

Remove ==
    /\ Exists(order)
    /\ \A s \in Sub : subs[s].status \in NO_VIDEO
    /\ order' = [order EXCEPT !.status = "DELETED"]
    /\ subs' = [s \in Sub |-> IF subs[s].status = "NONE" THEN subs[s]
                              ELSE [NoSubmission EXCEPT !.status = "DELETED"]]
    /\ UNCHANGED <<stale, history>>

-----------------------------------------------------------------------------
(* The moderator, the order *)

\* `card` is what the moderator had on the screen: its version guards the
\* decision, its budget is the one a raise is confirmed with. `seen` is what the
\* handler itself read, later than the card.
CardBefore(card, seen) ==
    Exists(card.order) /\ card.order.version <= seen.order.version

\* Slip: the decision is applied to whatever is there now.
sameVersion_any(row, card) == TRUE

\* Nothing was edited since the moderator looked.
sameVersion(row, card) == row.version = card.version

ModeratorApprove(card, seen, rate) ==
    LET approved == [order EXCEPT !.approvedBudget = seen.order.budget,
                                  !.cpm = rate]
        fullyAccrued ==
            exhausted(seen.order.budget, FeePercent, rate,
                      seen.order.offer.minViews, spentByOrder(subs, ACCRUED))
    IN
    /\ CardBefore(card, seen)
    /\ budgetRaised(seen.order.budget, seen.order.approvedBudget)
          => card.order.budget = seen.order.budget
    /\ ~exhausted(seen.order.budget, FeePercent, rate,
                  seen.order.offer.minViews, 0)
    /\ order.status = "PENDING_MODERATION"
    /\ sameVersion(order, card.order)
    /\ order' = syncFundBusy([approved EXCEPT
                    !.status = IF fullyAccrued THEN "CLOSED" ELSE "OPEN"], subs)
    /\ vetted' = card.order.offer
    /\ Answered(seen)
    /\ UNCHANGED <<subs, removed>>

ModeratorReject(card, seen) ==
    /\ CardBefore(card, seen)
    /\ order.status = "PENDING_MODERATION"
    /\ sameVersion(order, card.order)
    /\ order' = [order EXCEPT !.status = IF seen.order.cpm = Null
                                         THEN "REJECTED" ELSE "EDIT_REJECTED"]
    /\ Answered(seen)
    /\ UNCHANGED <<subs, history>>

\* Slip: the link stays in what an edit can be rolled back to.
unlinked_not(terms) == terms

unlinked(terms) ==
    IF terms = NoTerms THEN terms
    ELSE [terms EXCEPT !.offer = withoutLink(@)]

\* Taken down after a report: the product link goes, also from the snapshot an
\* edit can be rolled back to; an open or expired order closes and its slots burn.
ModeratorClose ==
    LET closes == order.status \in {"OPEN", "EXPIRED"} IN
    /\ Exists(order)
    /\ order' = [order EXCEPT
                    !.offer = withoutLink(@),
                    !.prevTerms = unlinked(@),
                    !.status = IF closes THEN "CLOSED" ELSE @]
    /\ subs' = IF closes THEN expireSlots(subs) ELSE subs
    /\ vetted' = withoutLink(vetted)
    /\ removed' = (removed \/ closes)
    /\ UNCHANGED stale

\* The advertiser is banned: an open order closes, a frozen one is rejected with
\* the videos on review, slots burn in both.
BanAdvertiser ==
    /\ order.status \in FROZEN \cup {"OPEN"}
    /\ order' = [order EXCEPT !.status =
                    IF order.status = "OPEN" THEN "CLOSED" ELSE "REJECTED"]
    /\ subs' = IF order.status = "OPEN" THEN expireSlots(subs)
               ELSE rejectSubmitted(expireSlots(subs), Creator)
    /\ removed' = (removed \/ order.status = "OPEN")
    /\ UNCHANGED <<stale, vetted>>

-----------------------------------------------------------------------------
(* Creators *)

\* The unique index lets a creator have one slot in progress on an order.
Claim(seen, s) ==
    /\ seen.order.status = "OPEN"
    /\ ~seen.exhausted
    /\ Exists(order)
    /\ subs[s].status = "NONE"
    /\ \A t \in Slots(subs) : CreatorOf[t] # CreatorOf[s]
    /\ subs' = [subs EXCEPT ![s].status = "IN_PROGRESS"]
    /\ Answered(seen)
    /\ UNCHANGED <<order, history>>

InReview(c) ==
    {s \in Sub : subs[s].status = "SUBMITTED" /\ CreatorOf[s] = c}

\* Over budget the creator consents to what is left, and all of it is held.
AttachVideo(seen, s, video, views) ==
    LET left == Free(order, subs)
        reserve == payoutFor(order.offer.minViews, order.cpm)
        overBudget == payoutFor(views, order.cpm) > left
        subs1 == [subs EXCEPT ![s] =
                    [@ EXCEPT !.status = "SUBMITTED",
                              !.video = video,
                              !.views = views,
                              !.payout = IF overBudget THEN left ELSE reserve,
                              !.terms = termsOf(order)]]
    IN
    /\ s \in seen.slots
    /\ seen.order.status \notin {"EXPIRED", "REJECTED"}
    /\ ~isFrozen(seen.order)
    /\ views >= seen.order.offer.minViews
    /\ video \notin seen.inflated
    /\ ~ExhaustedBy(order, subs, HOLDS_MONEY)
    /\ Cardinality(InReview(CreatorOf[s])) < MaxInReview
    /\ subs[s].status = "IN_PROGRESS"
    /\ order.status \in ACCEPTS_VIDEOS
    /\ \A t \in Sub : subs[t].status \in HOLDS_MONEY => subs[t].video # video
    /\ subs' = subs1
    /\ order' = syncFundBusy(order, subs1)
    /\ Answered(seen)
    /\ UNCHANGED history

\* A slot ticks, and burns in the end, while a video could be submitted.
ExpireSlot(s) ==
    /\ subs[s].status = "IN_PROGRESS"
    /\ order.status \in ACCEPTS_VIDEOS
    /\ ~order.fundBusy
    /\ subs' = [subs EXCEPT ![s].status = "SLOT_EXPIRED"]
    /\ UNCHANGED <<order, stale, history>>

\* A banned creator: slots are deleted, videos on review rejected.
BanCreator(c) ==
    LET subs1 == rejectSubmitted(deleteInProgress(subs, c), {c}) IN
    /\ subs' = subs1
    /\ order' = IF InReview(c) # {} THEN syncFundBusy(order, subs1) ELSE order
    /\ UNCHANGED <<stale, history>>

-----------------------------------------------------------------------------
(* The moderator, the videos *)

\* Views and terms of a submitted video do not change, so the checks made before
\* the transaction still hold inside it.
ApproveVideo(s, views) ==
    LET sub == subs[s]
        subs1 == [subs EXCEPT ![s] =
                    [@ EXCEPT !.status = "MODERATOR_APPROVED",
                              !.views = views,
                              !.counted = views,
                              !.payout = Lesser(payoutFor(views, videoTerms(order, sub).cpm),
                                                Free(order, subs) + sub.payout)]]
    IN
    /\ sub.status = "SUBMITTED"
    /\ views >= videoTerms(order, sub).minViews
    /\ 2 * views >= sub.views
    /\ order.status # "REJECTED"
    /\ subs' = subs1
    /\ order' = syncFundBusy(closeIfExhausted(order, subs1), subs1)
    /\ UNCHANGED <<stale, history>>

\* Rejected, its views inflated or not: the reserve returns to the fund.
RejectVideo(s, inflated) ==
    LET subs1 == [subs EXCEPT ![s] =
                    [@ EXCEPT !.status = "MODERATOR_REJECTED",
                              !.payout = 0,
                              !.inflated = inflated]]
    IN
    /\ subs[s].status = "SUBMITTED"
    /\ subs' = subs1
    /\ order' = syncFundBusy(order, subs1)
    /\ UNCHANGED <<stale, history>>

\* Slip: an accrual that is final is taken back.
PublicationDeleted_final(s) ==
    LET subs1 == [subs EXCEPT ![s] =
                    [@ EXCEPT !.status = "MODERATOR_REJECTED", !.payout = 0,
                              !.finalized = FALSE]]
    IN
    /\ subs[s].status = "MODERATOR_APPROVED"
    /\ subs' = subs1
    /\ order' = syncFundBusy(order, subs1)
    /\ UNCHANGED <<stale, history>>

\* The publication was gone before the end of the hold: the accrual is cancelled.
PublicationDeleted(s) ==
    LET subs1 == [subs EXCEPT ![s] =
                    [@ EXCEPT !.status = "MODERATOR_REJECTED", !.payout = 0]]
    IN
    /\ ~subs[s].finalized
    /\ subs[s].status = "MODERATOR_APPROVED"
    /\ subs' = subs1
    /\ order' = syncFundBusy(order, subs1)
    /\ UNCHANGED <<stale, history>>

\* The end of the hold: the money may be withdrawn. The views counted now replace
\* those of the approval, for the report only: the job never lowers them, a
\* moderator may enter any number, and the payout stays.
FinalizeViews(s, views) ==
    /\ subs[s].status = "MODERATOR_APPROVED"
    /\ ~subs[s].finalized
    /\ subs' = [subs EXCEPT ![s] = [@ EXCEPT !.views = views, !.finalized = TRUE]]
    /\ UNCHANGED <<order, stale, history>>

-----------------------------------------------------------------------------
(* The deadline job *)

Expire ==
    /\ order.status = "OPEN"
    /\ order' = [order EXCEPT !.status = "EXPIRED"]
    /\ UNCHANGED <<subs, stale, history>>

-----------------------------------------------------------------------------

NoOrder(offer) ==
    [status |-> "NEW", budget |-> 0, approvedBudget |-> Null, cpm |-> Null,
     offer |-> offer, prevTerms |-> NoTerms, version |-> 0, fundBusy |-> FALSE]

AnyOffer == CHOOSE o \in Offers : TRUE

Init ==
    /\ order = NoOrder(AnyOffer)
    /\ subs = [s \in Sub |-> NoSubmission]
    /\ stale = {}
    /\ vetted = AnyOffer
    /\ removed = FALSE

Advertiser ==
    \/ \E o \in Offers, b \in Budgets : Create(o, b)
    \/ \E seen \in Reads, o \in Offers, b \in Budgets, d \in BOOLEAN :
            Update(seen, o, b, d)
    \/ \E seen \in Reads : Close(seen)
    \/ Extend
    \/ Remove

OrderModeration ==
    \/ \E card, seen \in Reads, rate \in Rates : ModeratorApprove(card, seen, rate)
    \/ \E card, seen \in Reads : ModeratorReject(card, seen)
    \/ ModeratorClose
    \/ BanAdvertiser

Creators ==
    \/ \E seen \in Reads, s \in Sub : Claim(seen, s)
    \/ \E seen \in Reads, s \in Sub, v \in Video, n \in ViewCounts :
            AttachVideo(seen, s, v, n)
    \/ \E c \in Creator : BanCreator(c)

VideoModeration ==
    \/ \E s \in Sub, n \in ViewCounts : ApproveVideo(s, n)
    \/ \E s \in Sub, i \in BOOLEAN : RejectVideo(s, i)
    \/ \E s \in Sub : PublicationDeleted(s)
    \/ \E s \in Sub, n \in ViewCounts : FinalizeViews(s, n)

Jobs ==
    \/ Expire
    \/ \E s \in Sub : ExpireSlot(s)

Requests ==
    \/ ReadRows
    \/ \E seen \in stale : GiveUp(seen)

Next == Advertiser \/ OrderModeration \/ Creators \/ VideoModeration \/ Jobs \/ Requests

Spec == Init /\ [][Next]_vars

-----------------------------------------------------------------------------
(* Properties *)

\* Every variable holds a value of its kind, and a submission carries only what
\* its status allows: a row without a video under review or accrued holds no money.
TypeOK ==
    /\ order \in Row
    /\ subs \in [Sub -> Submission]
    /\ \A s \in Sub : WellFormed(subs[s])
    /\ stale \subseteq Read
    /\ vetted \in Offers
    /\ removed \in BOOLEAN

\* What is reserved and accrued never exceeds the pool of the current budget nor
\* of the budget a moderator approved, whatever edits, reviews and bans run side
\* by side; before the first approval nothing is held (lockBudget, fundOf and
\* the checks of update under the row lock).
FundCovered ==
    LET held == spentByOrder(subs, HOLDS_MONEY) IN
    IF order.approvedBudget = Null
    THEN held = 0
    ELSE /\ held <= payoutPool(order.budget, FeePercent)
         /\ held <= payoutPool(order.approvedBudget, FeePercent)

\* An order creators can see runs on a budget the moderator knows was paid.
PublishedBudgetPaid ==
    order.status \in {"OPEN", "CLOSED", "EXPIRED"} =>
        order.approvedBudget # Null /\ order.budget = order.approvedBudget

\* A creator is paid at the terms shown at submission: the payout held for a
\* video covers its threshold at its own rate, and an accrual is no more than
\* the views it was approved at earn, however the order was edited since and
\* whatever count ended the hold.
PayoutFair ==
    \A s \in Sub :
        LET sub == subs[s] IN
        /\ sub.status \in HOLDS_MONEY =>
              sub.payout >= payoutFor(sub.terms.offer.minViews, sub.terms.cpm)
        /\ sub.status = "MODERATOR_APPROVED" =>
              sub.payout <= payoutFor(sub.counted, sub.terms.cpm)

\* An accrual is never changed; it is cancelled only before its hold ended, and
\* no edit, closing, removal or ban takes it away.
AccrualKept ==
    [][\A s \in Sub :
        subs[s].status = "MODERATOR_APPROVED" =>
            \/ /\ subs'[s].status = "MODERATOR_APPROVED"
               /\ subs'[s].payout = subs[s].payout
               /\ subs[s].finalized => subs'[s].finalized
            \/ ~subs[s].finalized /\ subs'[s].status = "MODERATOR_REJECTED"]_vars

\* Reopening an expired order recomputes neither whether it is used up nor
\* whether its fund is busy: the next two properties are about all other steps.
Reopens == order.status = "EXPIRED" /\ order'.status = "OPEN"

\* An order in the catalogue has room for a video once the reserves are
\* released: one used up by accruals is closed.
OpenNotExhausted == order.status = "OPEN" => ~ExhaustedBy(order, subs, ACCRUED)

\* The slots of an order that takes videos are paused exactly while all its free
\* money is reserved.
PauseExact ==
    (order.status \in FUND_BUSY_STATUSES /\ Slots(subs) # {}) =>
        (order.fundBusy <=> FundBusy(order, subs))

\* While all the free money is reserved no slot ticks (SLOT_TICKS). Not so once an
\* expired order is extended: its pause ended while it took no videos.
BusySparesSlots ==
    FundBusy(order, subs) /\ Slots(subs) # {} => order.fundBusy

\* No request that decides in this step has read something that is no longer so.
Fresh == \A seen \in stale \ stale' : seen = ReadBy(seen.by)

\* No other step leaves an open order used up (closeIfExhausted, moderatorApprove),
\* nor a pause that does not fit the sums (syncFundBusy, freedOrder), unless a slot
\* is taken on what the order was before it was closed (claim).
SyncKept ==
    [][~Reopens => /\ OpenNotExhausted => OpenNotExhausted'
                   /\ Fresh /\ PauseExact => PauseExact']_vars

\* A frozen order is not also busy: one pause at a time extends the slots.
FrozenNotBusy == isFrozen(order) => ~order.fundBusy

SameButLink(offer1, offer2) ==
    withoutLink(offer1) = withoutLink(offer2)

\* What creators see of a published order is what a moderator let through last.
ShownOfferVetted ==
    order.status \in {"OPEN", "CLOSED", "EXPIRED"} =>
        SameButLink(order.offer, vetted)

\* A product link a moderator removed leads nowhere until another one passes.
RemovedLinkStaysOut ==
    order.status \in {"OPEN", "CLOSED", "EXPIRED"} =>
        (order.offer.link => vetted.link)

\* Approving publishes what the moderator had on the screen, at the budget that
\* was there, even if an edit arrived meanwhile (the version in the transition).
ApprovedAsSeen ==
    [][order.status = "PENDING_MODERATION" /\ order'.status = "OPEN" =>
        /\ SameButLink(order'.offer, vetted')
        /\ order'.budget = order'.approvedBudget]_vars

\* After a moderator or a ban closed the order nobody is left to submit a video.
RemovedTakesNoVideos == removed => Slots(subs) = {}

\* A video on review has the views its own terms ask for.
ThresholdMet ==
    \A s \in Sub : subs[s].status = "SUBMITTED" =>
                        subs[s].views >= subs[s].terms.offer.minViews

\* A video rejected for inflated views is not submitted again.
InflatedStaysOut ==
    [][\A s \in Sub :
        subs[s].status = "IN_PROGRESS" /\ subs'[s].status = "SUBMITTED" =>
            subs'[s].video \notin Inflated(subs)]_vars

\* What the rollback of a frozen order brings back was let through by a moderator.
SnapshotVetted ==
    isFrozen(order) =>
        /\ order.prevTerms # NoTerms
        /\ SameButLink(order.prevTerms.offer, vetted)
        /\ order.prevTerms.offer.link => vetted.link

Intact ==
    /\ FrozenNotBusy /\ SnapshotVetted
    /\ ShownOfferVetted /\ RemovedLinkStaysOut
    /\ RemovedTakesNoVideos /\ ThresholdMet

\* What update, close, claim and attachVideo decide before they lock anything goes
\* wrong only when the row has changed since they read it: a step that decides on
\* what is there never publishes an unvetted offer or a removed link, mixes the two
\* pauses, or takes a video that is too small, inflated or of a removed order.
HarmOnlyByStaleRead ==
    [][Fresh => /\ Intact => Intact'
                /\ \A s \in Sub :
                      subs[s].status = "IN_PROGRESS" /\ subs'[s].status = "SUBMITTED" =>
                          subs'[s].video \notin Inflated(subs)]_vars

-----------------------------------------------------------------------------
(* What the fund promises *)

\* What creators may be promised: an edit not approved yet neither adds to it nor
\* keeps what it gives up.
Provided ==
    IF order.approvedBudget = Null THEN 0
    ELSE Lesser(payoutPool(order.budget, FeePercent),
                payoutPool(order.approvedBudget, FeePercent))

KindOf(sub) ==
    CASE sub.status = "SUBMITTED" -> "reserve"
      [] sub.status = "MODERATOR_APPROVED" /\ ~sub.finalized -> "accrual"
      [] sub.status = "MODERATOR_APPROVED" /\ sub.finalized -> "final"
      [] OTHER -> "none"

Entries == [s \in Sub |-> [kind |-> KindOf(subs[s]), amount |-> subs[s].payout]]

Ledger == INSTANCE FundLedger WITH pool <- Provided, entry <- Entries

\* Whatever edits, reviews, removals and bans do, and in whatever order their
\* requests arrive, the fund behaves as a ledger: reserves become accruals or go,
\* final accruals stay, and the sum stays within what was paid.
LedgerKept == Ledger!Spec

=============================================================================
