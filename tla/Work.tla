-------------------------------- MODULE Work ---------------------------------
(****************************************************************************)
(* One creator works on one order: the page of the order, "my submissions"  *)
(* and the page that submits a video, in either app (OrderDetailView,       *)
(* MySubmissionsView, SubmissionCard, SubmitVideoView of the mini-app;      *)
(* OrderPage, Submissions, SubmitVideo of the web cabinet), and what the    *)
(* endpoints behind them do (orders.controller.ts findOpen and claim,       *)
(* submissions.controller.ts, my-submissions.ts, submissions.service.ts).   *)
(*                                                                          *)
(* Money is counted in payouts for a thousand views: the rate is 1, the     *)
(* threshold minViews. What others do to the order, its status, its fund    *)
(* and the rows of the creator is here what OrderFund says they may do,     *)
(* without its edits of rate, threshold and budget. A handler of the        *)
(* server is one step (its statements interleave in OrderFund). The screen  *)
(* is read, pressed and left at any time; answers come late, in any order,  *)
(* or not at all. Leaving a page unmounts it: nobody hears the answer. A    *)
(* read is done when it is sent, only its answer takes time. Notices and    *)
(* messages of errors are left out, except the error that hides a page.     *)
(****************************************************************************)
EXTENDS Integers, Sequences, FiniteSets

CONSTANTS
    Pool,           \* the payout pool of the order
    minViews,
    Views,          \* the numbers of thousands of views a video may have
    MAX_IN_REVIEW,
    None,
    MaxRows, MaxEvents, MaxVisits   \* bounds: submissions, changes made by others
                                    \* and lost answers together, pages opened

\* What the constants must be; assumed by Creator.
WorkAssumption ==
    /\ Pool \in Nat /\ minViews \in 1 .. Pool
    /\ Views \subseteq Nat \ {0}
    /\ MAX_IN_REVIEW \in Nat \ {0}

VARIABLES
    order,    \* the Order: its status, what others hold of its fund, what the API
              \* of the platform counts for the video (0: it cannot)
    rows,     \* the Submission rows of the creator, oldest first
    events,   \* bounds: changes made by others and answers that did not arrive,
    visits,   \*   pages opened
    page,     \* the screen
    net       \* requests in flight; fresh, here and on the page: nothing has
              \* been written since what the page shows, or the answer, was read
vars == <<order, rows, events, visits, page, net>>

Frozen == {"PENDING_MODERATION", "EDIT_REJECTED"}
HoldsMoney == {"SUBMITTED", "MODERATOR_APPROVED"}
Over == {"MODERATOR_REJECTED", "SLOT_EXPIRED"}

\* What the rows of these statuses hold: so much of the pool each.
Held(status) ==
    Cardinality({part \in (DOMAIN rows) \X (1 .. Pool) :
        LET row == rows[part[1]] IN row.status \in status /\ part[2] <= row.payout})
free == Pool - order.held - Held(HoldsMoney)
exhausted == free < minViews
accruedOut == Pool - Held({"MODERATOR_APPROVED"}) < minViews

\* Order.fundBusyAt is kept by syncFundBusy (OrderFund, SyncKept).
fundBusyAt == order.status \in {"OPEN", "CLOSED"} /\ exhausted /\ ~accruedOut

inProgress == {i \in DOMAIN rows : rows[i].status = "IN_PROGRESS"}
hasInProgress == inProgress # {}

(****************************************************************************)
(* What the endpoints answer.                                               *)
(****************************************************************************)

\* OrdersController.findOpen: only an open order has a page.
findOpen == IF order.status = "OPEN"
            THEN [claimed |-> hasInProgress, fundBusy |-> exhausted]
            ELSE None

\* toMySubmissions, with what the cards and the page of submission use of it.
toMySubmissions ==
    [rows |-> [i \in DOMAIN rows |->
                 [status |-> rows[i].status, latest |-> i = Len(rows),
                  fundPaused |-> rows[i].status = "IN_PROGRESS" /\ fundBusyAt]],
     order |-> order.status]

\* SubmissionsService.claim: why it is refused, or "".
claimRefused ==
    CASE order.status # "OPEN" -> "unavailable"
      [] exhausted -> "exhausted"
      [] hasInProgress -> "claimed"
      [] OTHER -> ""

\* ViewCounterService.fetchViews: a number, or 0 for none: no key, no account, a link
\* it does not know, no answer.
fetchViews == Views \cup {0}

\* countedAtSubmit: what the platform counts goes before what the creator says.
counted(views) == IF order.counts = 0 THEN views ELSE order.counts

\* Slip: the sum agreed to is not compared with what is left now.
overBudget_any(views, accept) == counted(views) > free /\ accept = 0
overBudget(views, accept) == counted(views) > free /\ (accept = 0 \/ accept > free)

\* assertCanSubmit and attachVideo: why the video is refused, or "".
submitRefused(i, views, accept) ==
    CASE rows[i].status # "IN_PROGRESS" -> "processed"
      [] order.status = "EXPIRED" -> "expired"
      [] order.status = "REJECTED" -> "removed"
      [] order.status \in Frozen -> "frozen"
      [] counted(views) < minViews -> "below"
      [] exhausted -> "exhausted"
      [] overBudget(views, accept) -> "over"
      [] Cardinality({j \in DOMAIN rows : rows[j].status = "SUBMITTED"}) >= MAX_IN_REVIEW -> "tooMany"
      [] OTHER -> ""

Claimed == Append(rows, [status |-> "IN_PROGRESS", views |-> 0, payout |-> 0, agreed |-> 0,
                         accept |-> 0])

Submitted(i, views, accept) ==
    LET over == counted(views) > free
    IN [rows EXCEPT ![i].status = "SUBMITTED", ![i].accept = accept,
                    ![i].views = counted(views),
                    ![i].payout = IF over THEN free ELSE minViews,
                    ![i].agreed = IF over THEN free ELSE 0]

(****************************************************************************)
(* What others, moderators and other devices of the creator do.             *)
(****************************************************************************)

Old(x) == [x EXCEPT !.fresh = FALSE]

Outside ==
    /\ events < MaxEvents
    /\ events' = events + 1
    /\ page' = Old(page)
    /\ net' = {Old(c) : c \in net}
    /\ UNCHANGED visits

\* Videos of other creators are submitted, approved or rejected.
OthersHold(n) ==
    /\ n # order.held /\ n + Held(HoldsMoney) <= Pool
    /\ n > order.held => order.status \in {"OPEN", "CLOSED"}
    /\ order' = [order EXCEPT !.held = n]
    /\ Outside /\ UNCHANGED rows

NextStatus(s) ==
    CASE s = "OPEN" -> {"CLOSED", "EXPIRED", "PENDING_MODERATION"}
      [] s = "PENDING_MODERATION" -> {"OPEN", "CLOSED", "EDIT_REJECTED"}
      [] s = "EDIT_REJECTED" -> {"PENDING_MODERATION", "CLOSED"}
      [] s = "EXPIRED" -> {"OPEN"}
      [] OTHER -> {}
OrderMoves(s) ==
    /\ s \in NextStatus(order.status)
    /\ order' = [order EXCEPT !.status = s]
    /\ Outside /\ UNCHANGED rows

\* The order is taken down: slots burn, videos on review are rejected.
OrderRemoved ==
    /\ order.status \in {"OPEN", "CLOSED"} \cup Frozen
    /\ order' = [order EXCEPT !.status = "REJECTED", !.held = 0]
    /\ rows' = [i \in DOMAIN rows |->
                 CASE rows[i].status = "IN_PROGRESS" -> [rows[i] EXCEPT !.status = "SLOT_EXPIRED"]
                   [] rows[i].status = "SUBMITTED" ->
                        [rows[i] EXCEPT !.status = "MODERATOR_REJECTED", !.payout = 0]
                   [] OTHER -> rows[i]]
    /\ Outside

\* A moderator decides on a video; an order used up by accruals closes.
Decided(i, payout) ==
    /\ rows[i].status = "SUBMITTED"
    /\ rows' = [rows EXCEPT ![i].status = IF payout > 0 THEN "MODERATOR_APPROVED" ELSE "MODERATOR_REJECTED",
                            ![i].payout = payout]
    /\ order' = IF order.status = "OPEN" /\ accruedOut' THEN [order EXCEPT !.status = "CLOSED"]
                                                       ELSE order
    /\ Outside
Decide(i) ==
    \/ Decided(i, 0)
    \/ \E views \in Views : /\ views >= minViews /\ 2 * views >= rows[i].views
                            /\ Decided(i, IF views < free + rows[i].payout THEN views
                                          ELSE free + rows[i].payout)

SlotExpires(i) ==
    /\ rows[i].status = "IN_PROGRESS" /\ ~fundBusyAt /\ order.status \notin Frozen
    /\ rows' = [rows EXCEPT ![i].status = "SLOT_EXPIRED"]
    /\ Outside /\ UNCHANGED order

\* The creator takes the order, or submits the video, in the other app.
Elsewhere ==
    /\ \/ /\ claimRefused = "" /\ Len(rows) < MaxRows
          /\ rows' = Claimed
       \/ \E i \in inProgress, views \in Views :
            /\ submitRefused(i, views, 0) = ""
            /\ rows' = Submitted(i, views, 0)
    /\ Outside /\ UNCHANGED order

(****************************************************************************)
(* Requests: sent, served, answered.                                        *)
(****************************************************************************)

IsWrite(c) == c.kind \in {"claim", "resubmit", "send"}
Served(c) == "answer" \in DOMAIN c
Ask(c) == net' = net \cup {c}
And(c, more) == [f \in DOMAIN c \cup DOMAIN more |-> IF f \in DOMAIN more THEN more[f] ELSE c[f]]
With(c, answer) == And(c, [answer |-> answer, payout |-> IF answer = "over" THEN free ELSE 0])

\* The write is done, or refused for a reason; nobody may be there to hear it.
Answer(c, why) ==
    LET answered == IF c.heard THEN {With(c, why)} ELSE {}
    IN /\ IF why = "" THEN page' = Old(page) /\ net' = {Old(d) : d \in net \ {c}} \cup answered
                      ELSE UNCHANGED page /\ net' = (net \ {c}) \cup answered
       /\ UNCHANGED <<order, events, visits>>

claim(c) ==
    /\ ~Served(c) /\ c.kind \in {"claim", "resubmit"}
    /\ IF claimRefused = "" THEN Len(rows) < MaxRows /\ rows' = Claimed ELSE UNCHANGED rows
    /\ Answer(c, claimRefused)

submitVideo(c) ==
    /\ ~Served(c) /\ c.kind = "send"
    /\ LET why == submitRefused(c.id, c.views, c.accept)
       IN /\ rows' = IF why = "" THEN Submitted(c.id, c.views, c.accept) ELSE rows
          /\ Answer(c, why)

\* The request or its answer is lost: the page shows an error of its own.
Lose(c) ==
    /\ events < MaxEvents
    /\ events' = events + 1
    /\ net' = (net \ {c}) \cup {And(c, [answer |-> IF IsWrite(c) THEN "lost" ELSE None])}
    /\ UNCHANGED <<order, rows, visits, page>>

-----------------------------------------------------------------------------
\* The pages, blank when they open.
OrderPage == [name |-> "order", fresh |-> FALSE, order |-> None, loadError |-> FALSE, claiming |-> FALSE]
Submissions == [name |-> "list", fresh |-> FALSE, items |-> None, error |-> FALSE, resubmitting |-> FALSE]
SubmitVideo(i) == [name |-> "submit", fresh |-> FALSE, id |-> i, copy |-> None, loadError |-> FALSE,
                   alreadySent |-> FALSE, views |-> 0, sending |-> FALSE,
                   sent |-> FALSE, over |-> 0]

Kind(name) == IF name = "order" THEN "order" ELSE "list"

\* The endpoint answers with what is stored.
Loading(kind) == [kind |-> kind, heard |-> TRUE, fresh |-> TRUE,
                  answer |-> IF kind = "list" THEN toMySubmissions ELSE findOpen]

\* Leaving a page drops its reads; a write on its way is still done.
Open(p) ==
    /\ visits < MaxVisits
    /\ visits' = visits + 1
    /\ page' = p
    /\ net' = {[c EXCEPT !.heard = FALSE] : c \in {c \in net : IsWrite(c) /\ ~Served(c)}}
              \cup {Loading(Kind(p.name))}
    /\ UNCHANGED <<order, rows, events>>

Still == UNCHANGED <<order, rows, events, visits>>
Reading(kind) == \E c \in net : c.kind = kind /\ c.heard

(****************************************************************************)
(* The page of an order.                                                    *)
(****************************************************************************)

\* Every half minute while the page is visible.
Poll ==
    /\ page.name = "order" /\ ~Reading("poll")
    /\ Ask(Loading("poll"))
    /\ UNCHANGED page /\ Still

offersClaim == ~page.order.claimed /\ ~page.claiming /\ ~page.order.fundBusy

PressClaim ==
    /\ page.name = "order" /\ page.order # None /\ ~page.loadError /\ offersClaim
    /\ page' = [page EXCEPT !.claiming = TRUE]
    /\ Ask([kind |-> "claim", fresh |-> page.fresh, heard |-> TRUE])
    /\ Still

\* An error of a poll is not shown: the last data stay.
Loaded(c) ==
    /\ Served(c) /\ c.kind \in {"order", "poll"} /\ page.name = "order"
    /\ page' = IF c.answer # None THEN [page EXCEPT !.order = c.answer, !.fresh = c.fresh]
               ELSE IF c.kind = "order" THEN [page EXCEPT !.loadError = TRUE] ELSE page
    /\ net' = net \ {c}
    /\ Still
ClaimAnswered(c) ==
    /\ Served(c) /\ c.kind = "claim" /\ page.name = "order"
    /\ page' = IF c.answer = "" THEN [page EXCEPT !.claiming = FALSE, !.order.claimed = TRUE]
                                ELSE [page EXCEPT !.claiming = FALSE]
    /\ net' = net \ {c}
    /\ Still

Retry ==
    /\ \/ /\ page.name \in {"order", "submit"} /\ page.loadError
          /\ page' = [page EXCEPT !.loadError = FALSE]
       \/ page.name = "list" /\ page.error /\ page' = [page EXCEPT !.error = FALSE]
    /\ Ask(Loading(Kind(page.name)))
    /\ Still

(****************************************************************************)
(* My submissions.                                                          *)
(****************************************************************************)

ListLoaded(c) ==
    /\ Served(c) /\ c.kind = "list" /\ page.name = "list"
    /\ page' = IF c.answer = None THEN [page EXCEPT !.error = TRUE]
               ELSE [page EXCEPT !.items = c.answer, !.fresh = c.fresh]
    /\ net' = net \ {c}
    /\ Still

Item(i) == page.items.rows[i]
canResubmit(i) == Item(i).status \in Over /\ Item(i).latest /\ page.items.order = "OPEN"
canSend(i) == Item(i).status = "IN_PROGRESS" /\ page.items.order # "EXPIRED"
Listed(i) == page.name = "list" /\ ~page.error /\ page.items # None /\ i \in DOMAIN page.items.rows

PressSend(i) == Listed(i) /\ canSend(i) /\ Open(SubmitVideo(i))

resubmit(i) ==
    /\ Listed(i) /\ canResubmit(i) /\ ~page.resubmitting
    /\ page' = [page EXCEPT !.resubmitting = TRUE]
    /\ Ask([kind |-> "resubmit", fresh |-> page.fresh, heard |-> TRUE])
    /\ Still
Resubmitted(c) ==
    /\ Served(c) /\ c.kind = "resubmit" /\ page.name = "list"
    /\ IF c.answer = ""
       THEN Open(SubmitVideo(Len(rows)))
       ELSE /\ page' = [page EXCEPT !.resubmitting = FALSE]
            /\ net' = net \ {c}
            /\ Still

(****************************************************************************)
(* Submitting the video.                                                    *)
(****************************************************************************)

SlotLoaded(c) ==
    /\ Served(c) /\ c.kind = "list" /\ page.name = "submit"
    /\ page' =
         IF c.answer = None THEN [page EXCEPT !.loadError = TRUE]
         ELSE IF page.id \in DOMAIN c.answer.rows /\ c.answer.rows[page.id].status = "IN_PROGRESS"
         THEN [page EXCEPT !.copy = [fundPaused |-> c.answer.rows[page.id].fundPaused],
                           !.fresh = c.fresh]
         ELSE [page EXCEPT !.alreadySent = TRUE]
    /\ net' = net \ {c}
    /\ Still

Filling == page.name = "submit" /\ page.copy # None /\ ~page.sent

\* The link and the number of views, with every check ticked. The fields stay open
\* under the question, and while a request is on its way.
Type ==
    /\ Filling
    /\ \E v \in Views : v # page.views /\ page' = [page EXCEPT !.views = v]
    /\ UNCHANGED net /\ Still

Sending(accept) ==
    /\ page' = [page EXCEPT !.sending = TRUE]
    /\ Ask([kind |-> "send", id |-> page.id, views |-> page.views, accept |-> accept,
            fresh |-> page.fresh, heard |-> TRUE])
    /\ Still

mayPress == page.views > 0 /\ ~page.copy.fundPaused /\ page.over = 0

\* The button, or Enter, with at least the threshold in the field.
PressSubmit == Filling /\ ~page.sending /\ mayPress /\ page.views >= minViews /\ Sending(0)
Agree == Filling /\ ~page.sending /\ page.over > 0 /\ Sending(page.over)
Cancel ==
    /\ Filling /\ ~page.sending /\ page.over > 0
    /\ page' = [page EXCEPT !.over = 0]
    /\ UNCHANGED net /\ Still

SendAnswered(c) ==
    /\ Served(c) /\ c.kind = "send" /\ page.name = "submit"
    /\ page' = CASE c.answer = "" -> [page EXCEPT !.sending = FALSE, !.sent = TRUE]
                 [] c.answer = "over" -> [page EXCEPT !.sending = FALSE, !.over = c.payout]
                 [] OTHER -> [page EXCEPT !.sending = FALSE, !.over = 0]
    /\ net' = net \ {c}
    /\ Still

\* Tabs and links: the catalogue leads to the page of the order again.
Leave == Open(OrderPage) \/ Open(Submissions)

-----------------------------------------------------------------------------
Init ==
    /\ \E counts \in fetchViews : order = [status |-> "OPEN", held |-> 0, counts |-> counts]
    /\ rows = <<>>
    /\ events = 0 /\ visits = 1
    /\ page = OrderPage
    /\ net = {Loading("order")}

Others ==
    \/ \E n \in 0 .. Pool : OthersHold(n)
    \/ \E s \in Frozen \cup {"OPEN", "CLOSED", "EXPIRED"} : OrderMoves(s)
    \/ OrderRemoved \/ Elsewhere
    \/ \E i \in DOMAIN rows : Decide(i) \/ SlotExpires(i)
Network == \E c \in net :
    \/ claim(c) \/ submitVideo(c)
    \/ (c.heard /\ Lose(c))
    \/ Loaded(c) \/ ClaimAnswered(c) \/ ListLoaded(c) \/ Resubmitted(c)
    \/ SlotLoaded(c) \/ SendAnswered(c)
Person ==
    \/ Poll \/ PressClaim \/ Retry \/ Leave
    \/ \E i \in 1 .. MaxRows : PressSend(i) \/ resubmit(i)
    \/ Type \/ PressSubmit \/ Agree \/ Cancel

Next == Others \/ Network \/ Person

Spec == Init /\ [][Next]_vars

-----------------------------------------------------------------------------
\* Rows, fund and page are what the code's types say.
TypeOK ==
    /\ order.held \in 0 .. Pool /\ free \in 0 .. Pool
    /\ Cardinality(inProgress) <= 1
    /\ page.name \in {"order", "list", "submit"}
    /\ events \in 0 .. MaxEvents /\ visits \in 1 .. MaxVisits

\* A video whose pay is limited to what is left of the fund was submitted with the
\* creator's yes to a sum, and no less than that sum is kept for it, however the
\* fund moved between the question and the answer (attachVideo, OVER_BUDGET).
AgreedAsShown ==
    \A i \in DOMAIN rows : rows[i].agreed > 0 /\ rows[i].status = "SUBMITTED" =>
        /\ rows[i].accept > 0
        /\ rows[i].agreed >= rows[i].accept
        /\ rows[i].payout = rows[i].agreed

\* A button that a page offers works if nothing has changed since the page was
\* read. The card of a rejected video does not know that the fund is reserved, and
\* the page of submission shows neither the state of the order nor the limits; but
\* a yes to the sum just shown is never answered with another question
\* (SubmissionCard canResubmit, SubmitVideoView).
RefusedForCause ==
    [][\A c \in net' \ net : IsWrite(c) /\ Served(c) /\ c.fresh =>
        \/ c.answer \in {"", "lost"}
        \/ c.kind = "resubmit" /\ c.answer = "exhausted"
        \/ c.kind = "send" /\ c.answer \in {"expired", "frozen", "below", "exhausted", "tooMany"}
        \/ c.kind = "send" /\ c.answer = "over" /\ c.accept = 0]_vars

\* The page of the order forgets that the creator has a slot only when an answer
\* read before the slot was taken overtakes the claim (OrderPage refresh).
ForgottenOnlyByOverlap ==
    [][page.name = "order" /\ page'.name = "order" /\ None \notin {page.order, page'.order} =>
       (page.order.claimed /\ ~page'.order.claimed /\ inProgress # {} =>
          \E c \in net \ net' : ~c.fresh)]_vars

\* ru.json, "we will keep the rest for you". Refuted: the sum on the button the creator pressed is kept
\* for the video. If others free the fund before the answer, or the views are
\* lowered under the question, only the threshold is reserved, and the rest may
\* be gone when a moderator decides.
AgreedHeld ==
    \A i \in DOMAIN rows : rows[i].status = "SUBMITTED" => rows[i].payout >= rows[i].accept
=============================================================================
