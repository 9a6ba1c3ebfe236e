------------------------------ MODULE Cabinet --------------------------------
(****************************************************************************)
(* "My orders" of an advertiser: the list and the card of an order in both  *)
(* apps (MyOrders.tsx; MyOrdersView.tsx, MyOrderCard.tsx), the endpoints    *)
(* behind its buttons (my-orders.controller.ts), what OrdersService does    *)
(* for them, and the two tasks that watch the deadline of an open order     *)
(* (scheduled.job.ts).                                                      *)
(*                                                                          *)
(* One order. A request of its card reads, then writes in one locked        *)
(* transaction, then reads again for the messages: between the steps come   *)
(* the other app of the advertiser, moderators, creators and the tasks.     *)
(* A video of a slot is a video, whatever is decided about it. The fund is  *)
(* left to OrderFund, the edit to one step (its form is OrderForm).         *)
(****************************************************************************)
EXTENDS Integers, Sequences, FiniteSets

CONSTANTS
    Creator, None,
    DAY,                        \* in ticks of the clock
    Days,                       \* by how much a card offers to extend
    MaxTime, MaxSlots, MaxEvents, MaxPresses, MaxFaults   \* bounds

\* What the constants must be; assumed by Advertiser.
CabinetAssumption ==
    /\ DAY \in Nat \ {0} /\ Days \subseteq Nat \ {0}
    /\ {MaxTime, MaxSlots, MaxEvents, MaxPresses, MaxFaults} \subseteq Nat

VARIABLES
    now,
    my,        \* the Order row; status "GONE" once deleted, deadline 0 for none
    slots,     \* its Submission rows
    claiming,  \* creators whose claim has found the order open
    jobs,      \* what the tasks have listed: the deadline seen, an overdue order
    cabinet,    \* the list in front, the card in it, lists on their way
    asked,     \* the request of the card
    happened, presses, failed   \* bounds: events, presses of buttons, faults
vars == <<now, my, slots, claiming, jobs, cabinet, asked, happened, presses, failed>>
outside == <<claiming, jobs>>
bounds == <<happened, presses, failed>>

FROZEN == {"PENDING_MODERATION", "EDIT_REJECTED"}
isFrozen(o) == o.published /\ o.status \in FROZEN
NO_VIDEO == {"IN_PROGRESS", "SLOT_EXPIRED"}
InProgress == {i \in DOMAIN slots : slots[i].status = "IN_PROGRESS"}
Rows == {i \in DOMAIN slots : slots[i].status # "DELETED"}
creatorsOf(S) == {slots[i].creator : i \in S}

expired(S) == [i \in DOMAIN slots |->
                 IF i \in S THEN [slots[i] EXCEPT !.status = "SLOT_EXPIRED"] ELSE slots[i]]

\* No row has a video: what the list shows and what remove checks.
deletable == \A i \in Rows : slots[i].status \in NO_VIDEO

\* The row of the order in the answer to "my orders".
listed ==
    IF my.status = "GONE" THEN None
    ELSE [status |-> my.status, frozen |-> isFrozen(my), deadline |-> my.deadline,
          deletable |-> deletable]

NoRequest == [kind |-> "none"]
NoCard == [chips |-> FALSE, error |-> FALSE]

Init ==
    /\ now = 0
    /\ my \in [status : {"OPEN", "PENDING_MODERATION"}, published : BOOLEAN,
               deadline : {0, DAY - 1}, requested : {0}, reminded : {FALSE}, overtaken : {FALSE}]
    /\ my.status = "OPEN" => my.published
    /\ slots \in IF my.published
                THEN {<<[creator |-> c, status |-> "IN_PROGRESS"]>> : c \in Creator}
                ELSE {<<>>}
    /\ claiming = {}
    /\ jobs = [soon |-> None, overdue |-> FALSE]
    /\ cabinet = [list |-> listed, error |-> FALSE, card |-> NoCard, loads |-> {}]
    /\ asked = NoRequest
    /\ happened = 0 /\ presses = 0 /\ failed = 0

busy == asked # NoRequest
shown == cabinet.list

-----------------------------------------------------------------------------
(* What others do to the order *)

extendedDeadline(current, days) ==
    (IF current > now THEN current ELSE now) + days * DAY

\* Slip: the reminder stays sent.
extended_reminded(o, deadline) == [o EXCEPT !.status = "OPEN", !.deadline = deadline]
extended(o, deadline) ==
    [o EXCEPT !.status = "OPEN", !.deadline = deadline,
              !.reminded = FALSE, !.overtaken = FALSE]

Event == happened < MaxEvents /\ happened' = happened + 1

Tick ==
    /\ now < MaxTime /\ now' = now + 1
    /\ UNCHANGED <<my, slots, outside, cabinet, asked, bounds>>

\* claim checks the status without a lock and inserts later.
ClaimCheck(c) ==
    /\ my.status = "OPEN" /\ Len(slots) + Cardinality(claiming) < MaxSlots
    /\ c \notin claiming \cup creatorsOf(InProgress)
    /\ claiming' = claiming \cup {c}
    /\ UNCHANGED <<now, my, slots, jobs, cabinet, asked, bounds>>

Claim(c) ==
    /\ c \in claiming /\ claiming' = claiming \ {c}
    /\ slots' = IF my.status = "GONE" THEN slots
                ELSE Append(slots, [creator |-> c, status |-> "IN_PROGRESS"])
    /\ UNCHANGED <<now, my, jobs, cabinet, asked, bounds>>

\* A slot gets its video, runs out, or goes with its banned creator.
SlotOver(i) ==
    /\ Event /\ my.status # "GONE"
    /\ i \in InProgress
    /\ \E status \in {"VIDEO", "SLOT_EXPIRED", "DELETED"} :
          /\ status # "DELETED" => my.status \in {"OPEN", "CLOSED"}
          /\ slots' = [slots EXCEPT ![i].status = status]
    /\ UNCHANGED <<now, my, outside, cabinet, asked, presses, failed>>

\* The form of the advertiser: the deadline stays as it was or is taken away.
\* On an order under review it is still counted from the sending, and moves with it.
Edit(keep) ==
    /\ Event /\ my.status \in FROZEN \cup {"OPEN"}
    /\ my' = [my EXCEPT
          !.status = "PENDING_MODERATION", !.requested = now,
          !.reminded = FALSE, !.overtaken = FALSE,
          !.deadline = IF ~keep \/ @ = 0 THEN 0
                       ELSE IF my.status \in FROZEN THEN @ + (now - my.requested) ELSE @]
    /\ UNCHANGED <<now, slots, outside, cabinet, asked, presses, failed>>

\* A request that read before knows of the approval only what its write finds.
seenPublished(a) ==
    IF a.kind = "close" /\ a.at = "read" THEN [a EXCEPT !.published = TRUE] ELSE a

moderatorApprove ==
    /\ Event /\ my.status = "PENDING_MODERATION"
    /\ my' = [my EXCEPT
          !.status = "OPEN", !.published = TRUE,
          !.deadline = IF @ = 0 THEN 0 ELSE @ + (now - my.requested)]
    /\ asked' = seenPublished(asked)
    /\ UNCHANGED <<now, slots, outside, cabinet, presses, failed>>

moderatorReject ==
    /\ Event /\ my.status = "PENDING_MODERATION"
    /\ my' = [my EXCEPT !.status = IF my.published THEN "EDIT_REJECTED" ELSE "REJECTED"]
    /\ UNCHANGED <<now, slots, outside, cabinet, asked, presses, failed>>

\* By reports: the slots burn with the order.
moderatorClose ==
    /\ Event /\ my.status \in {"OPEN", "EXPIRED"}
    /\ my' = [my EXCEPT !.status = "CLOSED"]
    /\ slots' = expired(InProgress)
    /\ UNCHANGED <<now, outside, cabinet, asked, presses, failed>>

\* The advertiser in the other app, from the request to its answer.
Elsewhere ==
    /\ Event /\ my.status # "GONE"
    /\ \/ /\ my.status = "OPEN" \/ isFrozen(my)
          /\ my' = [my EXCEPT !.status = "CLOSED"]
          /\ slots' = IF isFrozen(my) THEN expired(InProgress) ELSE slots
       \/ /\ my.status \in {"OPEN", "EXPIRED"}
          /\ \E days \in Days : my' = extended(my, extendedDeadline(my.deadline, days))
          /\ UNCHANGED slots
       \/ /\ deletable
          /\ my' = [my EXCEPT !.status = "GONE"] /\ slots' = <<>>
    /\ UNCHANGED <<now, outside, cabinet, asked, presses, failed>>

-----------------------------------------------------------------------------
(* The tasks: the order is listed, then each is looked at again *)

listDeadlineSoon ==
    /\ jobs.soon = None
    /\ my.status = "OPEN" /\ ~my.reminded
    /\ now < my.deadline /\ my.deadline < now + DAY
    /\ jobs' = [jobs EXCEPT !.soon = my.deadline]
    /\ UNCHANGED <<now, my, slots, claiming, cabinet, asked, bounds>>

markDeadlineReminded ==
    /\ jobs.soon # None
    /\ jobs' = [jobs EXCEPT !.soon = None]
    /\ my' = IF my.status = "OPEN" /\ ~my.reminded
             THEN [my EXCEPT !.reminded = TRUE, !.overtaken = my.deadline # jobs.soon]
             ELSE my
    /\ UNCHANGED <<now, slots, claiming, cabinet, asked, bounds>>

overdue == my.status = "OPEN" /\ my.deadline # 0 /\ my.deadline < now

listOverdue ==
    /\ ~jobs.overdue /\ overdue
    /\ jobs' = [jobs EXCEPT !.overdue = TRUE]
    /\ UNCHANGED <<now, my, slots, claiming, cabinet, asked, bounds>>

expire ==
    /\ jobs.overdue
    /\ jobs' = [jobs EXCEPT !.overdue = FALSE]
    /\ my' = IF overdue THEN [my EXCEPT !.status = "EXPIRED"] ELSE my
    /\ UNCHANGED <<now, slots, claiming, cabinet, asked, bounds>>

-----------------------------------------------------------------------------
(* The buttons of the card *)

canExtend(o) == o.status = "EXPIRED" \/ (o.status = "OPEN" /\ o.deadline # 0)

\* The chips stay when the card is shown again, whatever became of the order.
Extend ==
    /\ ~busy /\ shown # None /\ canExtend(shown)
    /\ cabinet' = [cabinet EXCEPT !.card.chips = ~@]
    /\ UNCHANGED <<now, my, slots, outside, asked, bounds>>

offered ==
    {kind \in {"close", "extend", "remove"} :
        CASE kind = "close"  -> shown.status = "OPEN" \/ shown.frozen
          [] kind = "extend" -> cabinet.card.chips
          [] kind = "remove" -> shown.deletable}

\* run: the request leaves.
Press(kind, days) ==
    /\ ~busy /\ shown # None /\ kind \in offered
    /\ presses < MaxPresses /\ presses' = presses + 1
    /\ cabinet' = [cabinet EXCEPT !.card.error = FALSE]
    /\ asked' = [kind |-> kind, days |-> days, at |-> "sent", shown |-> shown,
                 frozen |-> FALSE, deadline |-> 0,
                 burned |-> {}, rows |-> {}, burnt |-> {}, published |-> FALSE]
    /\ UNCHANGED <<now, my, slots, outside, happened, failed>>

\* Slip: slots are taken for burned whenever the order is closed.
burned_always == InProgress
\* The slots that closing this order will burn.
burned == IF isFrozen(my) THEN InProgress ELSE {}

\* The service reads the order before it writes.
Read ==
    /\ busy /\ asked.at = "sent" /\ my.status # "GONE"
    /\ asked' =
          CASE asked.kind = "close" ->
                 [asked EXCEPT !.at = "read", !.frozen = isFrozen(my),
                               !.burned = burned, !.rows = Rows]
            [] asked.kind = "extend" -> [asked EXCEPT !.at = "read", !.deadline = my.deadline]
            [] asked.kind = "remove" -> [asked EXCEPT !.at = "read"]
    /\ UNCHANGED <<now, my, slots, outside, cabinet, bounds>>

\* What was on the screen matters no more.
written(a) == [a EXCEPT !.at = "written", !.shown = None, !.deadline = 0, !.days = 0]

Close ==
    /\ my' = [my EXCEPT !.status = "CLOSED"]
    /\ slots' = IF asked.frozen THEN expired(InProgress) ELSE slots
    /\ asked' = [written(asked) EXCEPT !.burnt = IF asked.frozen THEN InProgress ELSE {}]

ExtendTo ==
    /\ my' = extended(my, extendedDeadline(asked.deadline, asked.days))
    /\ asked' = written(asked)
    /\ UNCHANGED slots

\* Under the lock of the order, as a submission of a video is.
Remove ==
    /\ my' = [my EXCEPT !.status = "GONE"] /\ slots' = <<>>
    /\ asked' = written(asked)

\* What the write asks of the order.
found ==
    CASE asked.kind = "close"  -> my.status \in (IF asked.frozen THEN FROZEN ELSE {"OPEN"})
      [] asked.kind = "extend" -> my.status \in {"OPEN", "EXPIRED"}
      [] asked.kind = "remove" -> my.status # "GONE" /\ deletable

Write ==
    /\ busy /\ asked.at = "read" /\ found
    /\ \/ asked.kind = "close" /\ Close
       \/ asked.kind = "extend" /\ ExtendTo
       \/ asked.kind = "remove" /\ Remove
    /\ UNCHANGED <<now, outside, cabinet, bounds>>

\* The messages of a closing go out for the rows as they are read after it.
orderClosedSlotsBurned == creatorsOf(asked.burned \cap DOMAIN slots)
orderClosed == creatorsOf(Rows \ asked.burned)

\* onChanged: `load` does not mind another one on its way.
Load(s) == [s EXCEPT !.error = FALSE, !.loads = @ \cup {listed}]

Answered ==
    /\ busy /\ asked.at = "written"
    /\ asked.kind = "close" => my.status # "GONE"
    /\ asked' = NoRequest
    /\ cabinet' = Load([cabinet EXCEPT !.card.chips = @ /\ asked.kind # "extend"])
    /\ UNCHANGED <<now, my, slots, outside, bounds>>

\* The write finds the order in another status, or a read finds none.
Refused ==
    /\ busy
    /\ \/ asked.at = "sent" /\ my.status = "GONE"
       \/ asked.at = "read" /\ ~found
       \/ asked.at = "written" /\ asked.kind = "close" /\ my.status = "GONE"
    /\ asked' = NoRequest
    /\ cabinet' = [cabinet EXCEPT !.card.error = TRUE]
    /\ UNCHANGED <<now, my, slots, outside, bounds>>

\* The request or its answer is lost, or the process stops before the messages.
Lost ==
    /\ failed < MaxFaults /\ failed' = failed + 1
    /\ busy
    /\ asked' = NoRequest
    /\ cabinet' = [cabinet EXCEPT !.card.error = TRUE]
    /\ UNCHANGED <<now, my, slots, outside, happened, presses>>

-----------------------------------------------------------------------------
(* The list *)

\* A card is kept as long as its order is in the list.
Loaded == \E o \in cabinet.loads :
    /\ cabinet' = [cabinet EXCEPT !.loads = @ \ {o}, !.list = o,
                                !.card = IF o = None THEN NoCard ELSE @]
    /\ UNCHANGED <<now, my, slots, outside, asked, bounds>>

LoadFailed == \E o \in cabinet.loads :
    /\ failed < MaxFaults /\ failed' = failed + 1
    /\ cabinet' = [cabinet EXCEPT !.loads = @ \ {o}, !.error = TRUE]
    /\ UNCHANGED <<now, my, slots, outside, asked, happened, presses>>

Retry ==
    /\ cabinet.error
    /\ cabinet' = Load(cabinet)
    /\ UNCHANGED <<now, my, slots, outside, asked, bounds>>

Others ==
    \/ Tick \/ moderatorApprove \/ moderatorReject \/ moderatorClose \/ Elsewhere
    \/ \E c \in Creator : ClaimCheck(c) \/ Claim(c)
    \/ \E i \in DOMAIN slots : SlotOver(i)
    \/ \E keep \in BOOLEAN : Edit(keep)

Tasks == listDeadlineSoon \/ markDeadlineReminded \/ listOverdue \/ expire

Card ==
    \/ Extend
    \/ \E kind \in {"close", "remove"} : Press(kind, 0)
    \/ \E days \in Days : Press("extend", days)
    \/ Read \/ Write \/ Answered \/ Refused \/ Lost

List == Loaded \/ LoadFailed \/ Retry

Next == Others \/ Tasks \/ Card \/ List

Spec == Init /\ [][Next]_vars

-----------------------------------------------------------------------------
\* On a closing every creator learns what became of his slot: those whose slots
\* it burned are told so and no others, unless the order was published again or
\* the slot was taken since the slots were read; both messages reach only a
\* creator with several attempts (MyOrdersController.close, OrdersService.close).
ToldWhatBecame ==
    asked.kind = "close" /\ asked.at = "written" /\ my.status # "GONE" =>
        LET lost == orderClosedSlotsBurned IN
        /\ \A i \in asked.burnt \cap asked.rows : slots[i].creator \in lost \/ asked.published
        /\ asked.published \/ lost \subseteq
              creatorsOf({i \in DOMAIN slots : i \in asked.burnt \/ slots[i].status = "DELETED"})
        /\ \A c \in lost \cap orderClosed :
              Cardinality({i \in DOMAIN slots : slots[i].creator = c}) > 1

\* The creators of an open order were reminded of the deadline it has, unless it
\* was moved between the list of the task and the mark (OrdersService
\* markDeadlineReminded, extend, update).
ReminderTrue ==
    my.status = "OPEN" /\ my.reminded => my.overtaken \/ my.deadline < now + DAY

\* The comment of markDeadlineReminded: nobody is reminded of an order "extended or
\* closed" meanwhile. Refuted: the mark looks at the status only, and the deadline
\* the order now has is not announced at all.
RemindedInTime == my.status = "OPEN" /\ my.reminded => my.deadline < now + DAY

\* An open order expires only past its deadline, and extending never brings the
\* deadline nearer, unless it was moved since the extension read it
\* (OrdersService.expire, extend; deadline.ts).
DeadlineKept ==
    [][/\ my.status = "OPEN" /\ my'.status = "EXPIRED" => my.deadline < now
       /\ asked.kind = "extend" /\ asked.at = "read"
          /\ asked'.kind = "extend" /\ asked'.at = "written" =>
            my.deadline # asked.deadline \/ my'.deadline > my.deadline]_vars

\* What the card offers is refused only if the order changed since the list or
\* the request read it, or by chips left open on a card that would not open them
\* (MyOrderCard, OrderItem).
OfferedWorks ==
    [][busy /\ ~busy' /\ cabinet'.card.error /\ failed' = failed =>
          \/ my.status = "GONE" \/ listed # asked.shown
          \/ asked.kind = "close" /\ asked.frozen # isFrozen(my)
          \/ asked.kind = "extend" /\ ~canExtend(asked.shown)]_vars
=============================================================================
