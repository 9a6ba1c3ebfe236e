----------------------------- MODULE Advertiser ------------------------------
(****************************************************************************)
(* The advertiser's part of both apps: the order form (OrderForm), "my      *)
(* orders" (Cabinet) and the report on an order (OrderReport). As in        *)
(* Creator, a screen that is left forgets everything, and what the others   *)
(* change is part of each module, so one screen is in front from the start. *)
(****************************************************************************)
EXTENDS Integers, Sequences, FiniteSets

CONSTANTS
    Client, MIN_EXAMPLES, MAX_EXAMPLES, MIN_BUDGET, MAX_BUDGET, MAX_VIEWS,
    MAX_DURATION, MAX_ACTIVE_ORDERS, Videos, Numbers,
    MaxOrders, MaxForms, MaxTyped, MaxMoves, MaxFaults,               \* of OrderForm
    Creator, None, DAY, Days, MaxTime, MaxSlots, MaxEvents, MaxPresses, \* of Cabinet
    Video, PayoutOf, budget, fee, Stars, FEW,
    MaxDecisions, MaxSent, MaxLost                                    \* of OrderReport

VARIABLES
    screen,                                                   \* the screen in front
    orders, form, req, opened, typed, moves, faults,
    made, dropped, written, vetted, late, mixed, beside, extended, \* of OrderForm
    now, my, slots, claiming, jobs, cabinet, asked,
    happened, presses, failed,                                \* of Cabinet
    row, advice, app, report, reading, ratingForm, sent, thanked,
    decisions, sendings, lost, wiped                          \* of OrderReport

F == INSTANCE OrderForm
C == INSTANCE Cabinet
R == INSTANCE OrderReport
formVars == <<orders, form, req, opened, typed, moves, faults,
              made, dropped, written, vetted, late, mixed, beside, extended>>
cabinetVars == <<now, my, slots, claiming, jobs, cabinet, asked, happened, presses, failed>>
reportVars == <<row, advice, app, report, reading, ratingForm, sent, thanked,
                decisions, sendings, lost, wiped>>
vars == <<screen, formVars, cabinetVars, reportVars>>

ASSUME AdvertiserAssumption ==
    F!OrderFormAssumption /\ C!CabinetAssumption /\ R!OrderReportAssumption

\* The screens of an advertiser (App: routes).
Screens == {"form", "orders", "report"}

Init ==
    /\ screen \in Screens
    /\ F!Init /\ C!Init /\ R!Init
    \* the screens that are not in front have one state
    /\ screen # "form" => orders[1].status = "expired"
    /\ screen # "orders" => my.status = "OPEN" /\ my.deadline = 0
    /\ screen # "report" => app = "web" /\ \A v \in Video : row[v].status = "SUBMITTED"

FormStep == screen = "form" /\ F!Next /\ UNCHANGED <<screen, cabinetVars, reportVars>>
OrdersStep == screen = "orders" /\ C!Next /\ UNCHANGED <<screen, formVars, reportVars>>
ReportStep == screen = "report" /\ R!Next /\ UNCHANGED <<screen, formVars, cabinetVars>>
Next == FormStep \/ OrdersStep \/ ReportStep

Spec == Init /\ [][Next]_vars

-----------------------------------------------------------------------------
\* What stands in a row is what the form had on its screen when it was sent, and
\* after the closing of an edit what was let through last, unless the order was
\* decided on or extended between the look and the writing of an edit (OrderForm.tsx,
\* CreateOrderView.tsx, order-input.ts, OrdersService.update, close, moderatorClose).
SavedAsShown == screen = "form" => F!SavedAsShown

\* An order made with the form can be opened in it and sent as it is, and nothing
\* changes (OrderForm.tsx, changesNothing).
RoundTrip == screen = "form" => F!RoundTrip

\* A form makes a second order only after the answer to the first was lost
\* (MyOrdersController.create).
TwiceOnlyAfterLoss == screen = "form" => F!TwiceOnlyAfterLoss

\* On a closing every creator learns what became of his slot
\* (MyOrdersController.close, OrdersService.close).
ToldWhatBecame == screen = "orders" => C!ToldWhatBecame

\* The creators of an open order were reminded of the deadline it has, unless it
\* moved under the task (OrdersService.markDeadlineReminded, extend).
ReminderTrue == screen = "orders" => C!ReminderTrue

\* An order expires past its deadline only, and extending brings it no nearer
\* (OrdersService.expire, extend).
DeadlineKept == C!DeadlineKept

\* What the card of an order offers is refused only if the order changed or the
\* chips were left open (MyOrderCard, OrderItem).
OfferedWorks == C!OfferedWorks

\* The stars shown are those kept, and a review stays with its video
\* (SubmissionsService.rate, VideoItem, ReviewVideosView).
RatingsTrue == screen = "report" => R!RatingsTrue

\* A report agrees with itself and promises no more than the fund
\* (OrdersService.report, buildOrderReport).
ReportConsistent == screen = "report" => R!ReportConsistent

\* More active orders than the limit come only of two creations at once, or of an
\* expired order that is extended (OrdersService.create, extend).
OverLimitForCause == F!OverLimitForCause

\* Advice on an order is sent once (OrdersService.markInsightsSent).
AdviceOnce == R!AdviceOnce

\* flows.int-spec.ts: no more active orders than the limit. Refuted: the orders are
\* counted before the insert, and extending counts none.
LimitKept == screen = "form" => F!LimitKept

\* The comment of markDeadlineReminded: nobody is reminded of an order extended
\* meanwhile. Refuted: the mark looks at the status only.
RemindedInTime == screen = "orders" => C!RemindedInTime

\* What is typed about a video stays until it is sent or dropped by hand. Refuted in
\* the mini-app: its form is closed by the answer for the video rated before.
FormKept == R!FormKept
=============================================================================
