----------------------------- MODULE OrderReport -----------------------------
(****************************************************************************)
(* The report on an order, and the ratings its advertiser gives in it:      *)
(* OrderReport.tsx of the web cabinet or ReviewVideosView.tsx of the        *)
(* mini-app, the endpoints behind them (my-orders.controller report,        *)
(* submissions.controller rate), OrdersService.report with order-report.ts, *)
(* and the task that sends the first advice.                                *)
(*                                                                          *)
(* A card of the web page has a form of its own; the mini-app has one form  *)
(* for all videos, which may be opened for another video while a rating is  *)
(* on its way. A review is the number of the video it was written about.    *)
(* What the advertiser rates in the other app comes in between. Views,      *)
(* likes, clicks, the file, the advice on them and the texts of errors are  *)
(* left out.                                                                *)
(****************************************************************************)
EXTENDS Integers, FiniteSets

CONSTANTS
    Video,              \* the rows of the order, numbered from 1
    PayoutOf,           \* what each holds of the fund, in cents
    budget, fee,        \* of the order: cents, percents
    Stars,              \* the ratings, above 0
    None,
    FEW,                \* how many videos allow an advice
    MaxDecisions, MaxSent, MaxLost   \* bounds: moves of others, ratings sent, faults

\* What the constants must be; assumed by Advertiser.
OrderReportAssumption ==
    /\ Video \subseteq Nat \ {0} /\ IsFiniteSet(Video)
    /\ PayoutOf \in [Video -> Nat]
    /\ budget \in Nat \ {0} /\ fee \in 0 .. 99
    /\ Stars \subseteq Nat \ {0} /\ FEW \in Nat \ {0}

VARIABLES
    row,       \* of each video: status, rating and review (0: none), queued for a check
    advice,    \* is insightsSentAt set, how often it was sent, passes about to send
    app,       \* the app in front
    report,    \* on its screen, None before the first answer
    reading,   \* the report on its way: what its statements have read so far
    ratingForm, \* its forms, by video or the only one, 0
    sent,      \* the rating a form has sent
    thanked,   \* the videos whose review "goes to a check"
    decisions, sendings, lost,   \* bounds
    wiped                        \* history: videos whose review was removed
screens == <<app, report, reading, ratingForm, sent, thanked>>
limits == <<decisions, sendings, lost>>
vars == <<row, advice, screens, limits, wiped>>

Forms == IF app = "web" THEN Video ELSE {0}
HOLDS_MONEY == {"SUBMITTED", "MODERATOR_APPROVED"}
InStatus(r, status) == {v \in Video : r[v].status = status}

B == INSTANCE Budget

-----------------------------------------------------------------------------
(* order-report.ts, order-insights.ts *)

\* Their payouts, counted cent by cent.
paidFor(r, status) == Cardinality(UNION {{v} \X (1 .. PayoutOf[v]) : v \in InStatus(r, status)})

left(spent, reserved) == B!Greater(0, budget - spent - reserved)

\* Slip: every row read is listed, those under review too.
approved_held(r) == {v \in Video : r[v].status \in HOLDS_MONEY}
approved(r) == InStatus(r, "MODERATOR_APPROVED")

\* In the money of the advertiser, fee included; held is what creators hold.
buildOrderReport(r) ==
    LET paid == paidFor(r, "MODERATOR_APPROVED")
        held == paid + paidFor(r, "SUBMITTED")
        spent == B!budgetSpent(budget, fee, paid)
        reserved == B!budgetSpent(budget, fee, held) - spent
    IN  [items |-> [v \in approved(r) |-> r[v].rating],
         left  |-> left(spent, reserved),
         held  |-> held]

funnelOf(r) ==
    [taken    |-> Cardinality(Video),
     expired  |-> Cardinality(InStatus(r, "SLOT_EXPIRED")),
     rejected |-> Cardinality(InStatus(r, "MODERATOR_REJECTED")),
     approved |-> Cardinality(InStatus(r, "MODERATOR_APPROVED"))]

\* The advice, the first of which is sent.
orderInsights(rep, f) ==
    {i \in {"SLOTS_BURN", "REJECTED", "BUDGET_ENDING"} :
        CASE i = "SLOTS_BURN" -> f.expired >= FEW /\ 10 * f.expired >= 4 * f.taken
          [] i = "REJECTED" ->
               f.rejected >= FEW /\ 10 * f.rejected >= 3 * (f.rejected + f.approved)
          [] i = "BUDGET_ENDING" ->
               Cardinality(DOMAIN rep.items) >= FEW /\ 10 * rep.left < 2 * budget}

-----------------------------------------------------------------------------

NoForm == [item |-> 0, stars |-> 0, review |-> 0]
closed(f) == [f EXCEPT !.item = 0, !.stars = 0]
NoReading == [at |-> "idle", rows |-> None, counts |-> None, crossed |-> {}]
Asked == [NoReading EXCEPT !.at = "sent"]

Init ==
    /\ row \in [Video -> {[status |-> s, rating |-> 0, review |-> 0, queued |-> FALSE] :
                            s \in {"SUBMITTED", "MODERATOR_APPROVED"}}]
    /\ advice = [marked |-> FALSE, times |-> 0, passes |-> 0]
    /\ app \in {"web", "mini"}
    /\ report = None /\ reading = Asked
    /\ ratingForm = [k \in Forms |-> NoForm]
    /\ sent = [k \in Forms |-> None]
    /\ thanked = {}
    /\ decisions = 0 /\ sendings = 0 /\ lost = 0
    /\ wiped = {}

-----------------------------------------------------------------------------
(* What moderators do meanwhile *)

Move == decisions < MaxDecisions /\ decisions' = decisions + 1

\* A video decided after one of the two statements of a report and before the other.
crossing(r, v) ==
    IF (r.rows = None) # (r.counts = None) THEN [r EXCEPT !.crossed = @ \cup {v}] ELSE r

\* A video is decided; or its publication is gone when its views are settled.
Decide(v) ==
    /\ Move
    /\ \/ row[v].status = "SUBMITTED"
          /\ \E s \in {"MODERATOR_APPROVED", "MODERATOR_REJECTED"} :
                row' = [row EXCEPT ![v].status = s]
       \/ row[v].status = "MODERATOR_APPROVED"
          /\ row' = [row EXCEPT ![v].status = "MODERATOR_REJECTED"]
    /\ reading' = crossing(reading, v)
    /\ UNCHANGED <<advice, app, report, ratingForm, sent, thanked, sendings, lost, wiped>>

approveReview(v) ==
    /\ row[v].queued
    /\ row' = [row EXCEPT ![v].queued = FALSE]
    /\ UNCHANGED <<advice, screens, limits, wiped>>

removeReview(v) ==
    /\ Move /\ row[v].rating # 0
    /\ row' = [row EXCEPT ![v] = [@ EXCEPT !.rating = 0, !.review = 0, !.queued = FALSE]]
    /\ wiped' = wiped \cup {v}
    /\ UNCHANGED <<advice, screens, sendings, lost>>

-----------------------------------------------------------------------------
(* The report *)

\* OrdersService.report asks for the rows and for the counts side by side.
ReadRows ==
    /\ reading.at = "sent" /\ reading.rows = None
    /\ reading' = [reading EXCEPT !.rows = buildOrderReport(row)]
    /\ UNCHANGED <<row, advice, app, report, ratingForm, sent, thanked, limits, wiped>>

ReadCounts ==
    /\ reading.at = "sent" /\ reading.counts = None
    /\ reading' = [reading EXCEPT !.counts = funnelOf(row)]
    /\ UNCHANGED <<row, advice, app, report, ratingForm, sent, thanked, limits, wiped>>

\* The page shows what it has got; an error shows nothing but "again".
Loaded ==
    LET r == reading IN
    /\ r.rows # None /\ r.counts # None
    /\ report' =
          [items |-> r.rows.items, left |-> r.rows.left, held |-> r.rows.held,
           approved |-> r.counts.approved, crossed |-> r.crossed]
    /\ reading' = NoReading
    /\ UNCHANGED <<row, advice, app, ratingForm, sent, thanked, limits, wiped>>

NotLoaded ==
    /\ reading.at = "sent"
    /\ lost < MaxLost /\ lost' = lost + 1
    /\ reading' = [NoReading EXCEPT !.at = "error"]
    /\ UNCHANGED <<row, advice, app, report, ratingForm, sent, thanked, decisions, sendings, wiped>>

Retry ==
    /\ reading.at = "error"
    /\ reading' = Asked
    /\ UNCHANGED <<row, advice, app, report, ratingForm, sent, thanked, limits, wiped>>

-----------------------------------------------------------------------------
(* The advice: two passes of the task may overlap (JobLease) *)

sendInsights ==
    /\ ~advice.marked /\ advice.passes < 2
    /\ orderInsights(buildOrderReport(row), funnelOf(row)) # {}
    /\ advice' = [advice EXCEPT !.passes = @ + 1]
    /\ UNCHANGED <<row, screens, limits, wiped>>

markInsightsSent ==
    /\ advice.passes > 0
    /\ advice' = [marked |-> TRUE, passes |-> advice.passes - 1,
                  times |-> advice.times + (IF advice.marked THEN 0 ELSE 1)]
    /\ UNCHANGED <<row, screens, limits, wiped>>

-----------------------------------------------------------------------------
(* The forms *)

shownItems == IF report = None THEN {} ELSE DOMAIN report.items
busy(k) == sent[k] # None

fresh(f, v) == [NoForm EXCEPT !.item = v]

\* "Rate": a form of its own, or the only form wherever it was; not held up by busy.
\* The mini-app thanks where the button would be.
Start(k, v) ==
    /\ v \in shownItems /\ report.items[v] = 0
    /\ IF app = "web" THEN k = v /\ ratingForm[k].item = 0
       ELSE k = 0 /\ ratingForm[k].item # v /\ v \notin thanked
    /\ ratingForm' = [ratingForm EXCEPT ![k] = fresh(@, v)]
    /\ UNCHANGED <<row, advice, app, report, reading, sent, thanked, limits, wiped>>

Type(k) ==
    /\ ratingForm[k].item # 0
    /\ \/ \E s \in Stars : ratingForm' = [ratingForm EXCEPT ![k].stars = s]
       \/ ratingForm' = [ratingForm EXCEPT ![k].review = ratingForm[k].item]
    /\ UNCHANGED <<row, advice, app, report, reading, sent, thanked, limits, wiped>>

Cancel(k) ==
    /\ ratingForm[k].item # 0 /\ ~busy(k)
    /\ ratingForm' = [ratingForm EXCEPT ![k] = closed(@)]
    /\ UNCHANGED <<row, advice, app, report, reading, sent, thanked, limits, wiped>>

Send(k) ==
    LET f == ratingForm[k] IN
    /\ f.item # 0 /\ f.stars # 0 /\ ~busy(k)
    /\ sendings < MaxSent /\ sendings' = sendings + 1
    /\ sent' = [sent EXCEPT ![k] =
          [at |-> "sent", item |-> f.item, stars |-> f.stars, review |-> f.review]]
    /\ UNCHANGED <<row, advice, app, report, reading, ratingForm, thanked, decisions, lost, wiped>>

\* Slip: whoever rates last is right.
mayRate_again(v) == row[v].status = "MODERATOR_APPROVED"
mayRate(v) == row[v].status = "MODERATOR_APPROVED" /\ row[v].rating = 0

rate(k) ==
    LET r == sent[k] IN
    /\ busy(k) /\ r.at = "sent"
    /\ IF mayRate(r.item)
       THEN /\ row' = [row EXCEPT ![r.item] =
                 [@ EXCEPT !.rating = r.stars, !.review = r.review, !.queued = r.review # 0]]
            /\ sent' = [sent EXCEPT ![k].at = "rated"]
       ELSE /\ sent' = [sent EXCEPT ![k].at = "refused"]
            /\ UNCHANGED row
    /\ UNCHANGED <<advice, app, report, reading, ratingForm, thanked, limits, wiped>>

\* The advertiser rates in the other app.
rateElsewhere(v) ==
    /\ Move /\ mayRate(v)
    /\ \E s \in Stars : row' = [row EXCEPT ![v] = [@ EXCEPT !.rating = s]]
    /\ UNCHANGED <<advice, screens, sendings, lost, wiped>>

ratedItem(k) == sent[k].item

\* The answer closes the form, of whatever video the only form is by now.
Rated(k) ==
    LET r == sent[k] IN
    /\ busy(k) /\ r.at = "rated"
    /\ report' = [report EXCEPT !.items =
          [v \in DOMAIN @ |-> IF v = ratedItem(k) THEN r.stars ELSE @[v]]]
    /\ thanked' = IF r.review = 0 THEN thanked ELSE thanked \cup {r.item}
    /\ ratingForm' = [ratingForm EXCEPT ![k] = closed(@)]
    /\ sent' = [sent EXCEPT ![k] = None]
    /\ UNCHANGED <<row, advice, app, reading, limits, wiped>>

\* Refused, or the answer is lost: the form stays, with an error.
NotRated(k) ==
    /\ busy(k)
    /\ \/ sent[k].at = "refused" /\ UNCHANGED lost
       \/ lost < MaxLost /\ lost' = lost + 1
    /\ sent' = [sent EXCEPT ![k] = None]
    /\ UNCHANGED <<row, advice, app, report, reading, ratingForm, thanked, decisions, sendings, wiped>>

Next ==
    \/ \E v \in Video : Decide(v) \/ approveReview(v) \/ removeReview(v) \/ rateElsewhere(v)
    \/ ReadRows \/ ReadCounts \/ Loaded \/ NotLoaded \/ Retry
    \/ sendInsights \/ markInsightsSent
    \/ \E k \in Forms :
          \/ \E v \in Video : Start(k, v)
          \/ Type(k) \/ Cancel(k) \/ Send(k)
          \/ rate(k) \/ Rated(k) \/ NotRated(k)

Spec == Init /\ [][Next]_vars

-----------------------------------------------------------------------------
\* The stars shown for a video are those kept for it, until a moderator removes
\* them, and a review is kept with the video it was written about only
\* (SubmissionsService.rate, VideoItem, ReviewVideosView).
RatingsTrue ==
    /\ \A v \in shownItems \ wiped : report.items[v] \in {0, row[v].rating}
    /\ \A v \in Video : row[v].review \in {0, v}

\* The funnel and the list of a report agree on the approved videos: they are apart
\* by nothing but the videos that were decided between the two statements that read
\* them.  What it says is left of the budget is no more than the fund can pay out
\* beside what that list and the videos under review hold (OrdersService.report,
\* buildOrderReport).
ReportConsistent ==
    report # None =>
        /\ report.approved <= Cardinality(shownItems \cup report.crossed)
        /\ report.approved >= Cardinality(shownItems \ report.crossed)
        /\ B!payoutPool(report.left, fee) <= B!free(budget, fee, report.held)

\* Advice on an order is sent once (markInsightsSent).
AdviceOnce == advice.times <= 1

\* What is typed about a video stays until it is sent or dropped by hand. Refuted
\* in the mini-app: its form is closed by the answer for the video rated before.
FormKept ==
    [][\A k \in Forms :
         LET f == ratingForm[k] g == ratingForm'[k] IN
         f.item # 0 /\ f.review # 0 /\ g.item = 0 =>
            ~busy(k) \/ sent[k].item = f.item]_vars
=============================================================================
