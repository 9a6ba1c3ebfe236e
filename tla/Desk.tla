-------------------------------- MODULE Desk --------------------------------
(***************************************************************************)
(* Moderators at their screens                                             *)
(* (src/src/moderation/moderation.controller.ts and the moderator screens  *)
(* of src/web and src/webapp).                                             *)
(*                                                                         *)
(* A screen shows a queue it read some time ago and a card it read a       *)
(* little later; lists asked for may arrive out of order; two moderators   *)
(* decide on the same object.  An endpoint changes the row, then writes    *)
(* the journal, then tells people, and may fail between any two of these.  *)
(***************************************************************************)
EXTENDS Naturals, FiniteSets

CONSTANTS
    Item,        \* numbers: a queue is shown oldest first
    KindOf,      \* [Item -> Kind]
    Moderator,
    Apps,        \* what screens the moderators may work on, by moderator
    MaxVer,      \* bound: edits of an order, reviews of a video
    Start,       \* the sets of objects that may be on the desk to begin with
    MaxDone,     \* bound: requests of moderators in all
    MaxFaults    \* bound: requests that fail on the way

Kind == {"order", "video", "review", "payout"}
NoItem == 0
Timer == "timer"   \* decides beside the moderators

\* What the constants must be; assumed by Moderator.
DeskAssumption ==
    /\ Item \subseteq Nat \ {NoItem}
    /\ KindOf \in [Item -> Kind]
    /\ Apps \subseteq [Moderator -> {"web", "mini", "payouts"}]
    /\ MaxVer \in Nat /\ Start \subseteq SUBSET Item /\ MaxDone \in Nat /\ MaxFaults \in Nat
    /\ Timer \notin Moderator

VARIABLES
    item,      \* the rows: where each is in its life, and its version
    app, tab, want,   \* of each screen: which one, the tab, the id in the address
    list,      \* the queue on it
    shown,     \* the card on it
    loads,     \* lists asked for and not yet here, and when they were asked for
    asked, newest, last,   \* lists asked for so far, the newest and the last
                           \* that arrived
    req,       \* requests of a moderator, one for an item at a time
    done, faults,
    decided, journal, told, lost   \* history: decisions, what became of them

screens == <<app, tab, want, list, shown, loads, asked, newest, last>>
records == <<decided, journal, told, lost>>
vars == <<item, screens, req, done, faults, records>>

Place == {"none", "queued", "hold", "due", "out"}
Tab == {"orders", "videos", "holds", "reviews", "payouts"}
Absent == [tab |-> "none", ver |-> 0]
NoCard == [item |-> NoItem, at |-> "none", ver |-> 0]
Idle == [at |-> "idle", what |-> "none", shown |-> 0, ver |-> 0, from |-> "none"]

-----------------------------------------------------------------------------
(* The queue *)

tabOf(i) ==
    LET k == KindOf[i]
        at == item[i].at
    IN CASE k = "order" /\ at = "queued"  -> "orders"
         [] k = "video" /\ at = "queued"  -> "videos"
         [] k = "video" /\ at = "due"     -> "holds"
         [] k = "review" /\ at = "queued" -> "reviews"
         [] k = "payout" /\ at = "queued" -> "payouts"
         [] OTHER -> "none"

\* GET payouts: the requests that wait, for a screen of their own.
payoutsList == {i \in Item : tabOf(i) = "payouts"}

\* GET queue, or GET payouts.
queue(m) == [i \in Item |->
    IF tabOf(i) = "none" \/ (i \in payoutsList <=> app[m] # "payouts") THEN Absent
    ELSE [tab |-> tabOf(i), ver |-> item[i].ver]]

InTab(q, t) == {i \in Item : q[i].tab = t}
First(is) == IF is = {} THEN NoItem ELSE CHOOSE i \in is : \A j \in is : i <= j

\* The card that is open: the one in the address if it is in the list, else the
\* first.
openWeb(m) ==
    LET here == InTab(list[m], tab[m]) IN
    IF want[m] \in here THEN want[m]
    ELSE IF tab[m] \in {"orders", "videos", "holds"} THEN First(here) ELSE NoItem

\* A page of its own.
openMini(m) == want[m]

Open(m) == IF app[m] = "mini" THEN openMini(m) ELSE openWeb(m)

-----------------------------------------------------------------------------
(* People outside the desk *)

Edit(i) ==
    /\ KindOf[i] = "order" /\ item[i].ver \in 1..MaxVer-1
    /\ item' = [item EXCEPT ![i] = [at |-> "queued", ver |-> @.ver + 1]]
    /\ UNCHANGED <<screens, req, done, faults, records>>

\* rate: only a video that has no rating.
Rate(i) ==
    /\ KindOf[i] = "review" /\ item[i].at = "none" /\ item[i].ver \in 1..MaxVer-1
    /\ item' = [item EXCEPT ![i] = [at |-> "queued", ver |-> @.ver + 1]]
    /\ UNCHANGED <<screens, req, done, faults, records>>

HoldEnds(i) ==
    /\ item[i].at = "hold"
    /\ item' = [item EXCEPT ![i].at = "due"]
    /\ UNCHANGED <<screens, req, done, faults, records>>

\* finalizeAutomatic: the views of a video whose hold is over are counted through
\* the platform, and nobody need look at it.
finalizeAutomatic(i) ==
    /\ KindOf[i] = "video" /\ item[i].at = "due"
    /\ item' = [item EXCEPT ![i].at = "out"]
    /\ decided' = decided \cup {[item |-> i, ver |-> item[i].ver, from |-> "due", shown |-> 0,
                                 by |-> Timer, what |-> "finalize"]}
    /\ UNCHANGED <<screens, req, done, faults, journal, told, lost>>

-----------------------------------------------------------------------------
(* The screens *)

Asks(m, before) == loads' = [loads EXCEPT ![m] = @ \cup {[n |-> asked[m] + 1, q |-> before]}]

\* A list is asked for; the server reads it now, the answer comes when it comes.
load(m) ==
    /\ asked' = [asked EXCEPT ![m] = @ + 1]
    /\ Asks(m, queue(m))

\* The list is shown, also if a newer one was faster.
Arrives(m) ==
    \E l \in loads[m] :
        /\ loads' = [loads EXCEPT ![m] = @ \ {l}]
        /\ list' = [list EXCEPT ![m] = l.q]
        /\ newest' = [newest EXCEPT ![m] = IF l.n > @ THEN l.n ELSE @]
        /\ last' = [last EXCEPT ![m] = l.n]
        /\ UNCHANGED <<item, app, tab, want, shown, asked, req, done, faults, records>>

Empty == [i \in Item |-> Absent]

leavesQueue(m) ==
    /\ list' = [list EXCEPT ![m] = Empty]
    /\ loads' = [loads EXCEPT ![m] = {}]

\* Nobody opens an empty tab here.
setTab(m, t) ==
    /\ app[m] # "payouts" /\ t # tab[m] /\ InTab(list[m], t) # {}
    /\ app[m] = "mini" => want[m] = NoItem
    /\ tab' = [tab EXCEPT ![m] = t]
    /\ want' = [want EXCEPT ![m] = NoItem]
    /\ UNCHANGED <<item, app, list, loads, shown, asked, newest, last, req, done, faults, records>>

\* In the mini-app a card is a page: what the list asked for comes to nobody.
Choose(m, i) ==
    /\ i \in InTab(list[m], tab[m]) /\ tab[m] \in {"orders", "videos", "holds"}
    /\ i # Open(m)
    /\ want' = [want EXCEPT ![m] = i]
    /\ IF app[m] = "mini" THEN leavesQueue(m) ELSE UNCHANGED <<list, loads>>
    /\ UNCHANGED <<item, app, tab, shown, asked, newest, last, req, done, faults, records>>

Back(m) ==
    /\ app[m] = "mini" /\ want[m] # NoItem
    /\ want' = [want EXCEPT ![m] = NoItem]
    /\ list' = [list EXCEPT ![m] = queue(m)]
    /\ UNCHANGED <<item, app, tab, shown, loads, asked, newest, last, req, done, faults, records>>

\* GET orders/:id: where it is, and the version a decision has to name.
orderCard(i) == [item |-> i, at |-> item[i].at, ver |-> item[i].ver]

\* GET videos/:id: where it is; the row of a video on review stays as it is.
videoCard(i) == [item |-> i, at |-> item[i].at, ver |-> 1]

\* The card is made anew for every item, and read once.
CardLoads(m) ==
    LET i == Open(m) IN
    /\ i # shown[m].item
    /\ shown' = [shown EXCEPT ![m] = CASE i = NoItem -> NoCard
                                       [] KindOf[i] = "video" -> videoCard(i)
                                       [] OTHER -> orderCard(i)]
    /\ UNCHANGED <<item, app, tab, want, list, loads, asked, newest, last, req, done, faults, records>>

\* The card is there once it has been read; its tabs and lists go on around it.
onCard(m, i, at) == i = Open(m) /\ i = shown[m].item /\ shown[m].at = at

\* Reviews and payouts are decided in the list; in the mini-app a card hides it.
inRow(m, i) == list[m][i].tab = tab[m] /\ (app[m] = "mini" => want[m] = NoItem)

offersVideo(m, i) ==
    IF onCard(m, i, "queued") THEN {"approve", "reject"}
    ELSE IF onCard(m, i, "due") THEN {"finalize", "deleted"} ELSE {}

offersOrder(m, i) == IF onCard(m, i, "queued") THEN {"approve", "reject"} ELSE {}

offersReview(m, i) == IF inRow(m, i) THEN {"approve", "reject"} ELSE {}

offersPayout(m, i) == IF inRow(m, i) THEN {"approve", "reject"} ELSE {}

\* The buttons are dead while the card waits; one payout at a time.
busy(m, i) ==
    \/ req[m][i] # Idle
    \/ app[m] = "payouts" /\ \E j \in Item : req[m][j] # Idle

send(m, i, what, ver) ==
    /\ ~busy(m, i)
    /\ done < MaxDone
    /\ done' = done + 1
    /\ req' = [req EXCEPT ![m][i] = [Idle EXCEPT !.at = "sent", !.what = what, !.shown = ver]]
    /\ UNCHANGED <<item, screens, faults, records>>

decideVideo(m, i, what) ==
    KindOf[i] = "video" /\ what \in offersVideo(m, i) /\ send(m, i, what, shown[m].ver)

\* With the version of the card.
decideOrder(m, i, what) ==
    KindOf[i] = "order" /\ what \in offersOrder(m, i) /\ send(m, i, what, shown[m].ver)

decideReview(m, i, what) ==
    KindOf[i] = "review" /\ what \in offersReview(m, i) /\ send(m, i, what, list[m][i].ver)

decidePayout(m, i, what) ==
    KindOf[i] = "payout" /\ what \in offersPayout(m, i) /\ send(m, i, what, list[m][i].ver)

-----------------------------------------------------------------------------
(* The endpoints *)

\* Slip: the version the moderator saw is not compared.
sameVersion_any(i, ver) == TRUE

sameVersion(i, ver) == KindOf[i] = "order" => item[i].ver = ver

\* The conditional update of each decision.
orderWaits(i) == item[i].at = "queued"

videoWaits(i, what) ==
    CASE what = "finalize" -> item[i].at = "due"
      [] what = "deleted"  -> item[i].at \in {"hold", "due"}
      [] OTHER             -> item[i].at = "queued"

\* A review is removed also after somebody else has published it.
reviewWaits(i, what) ==
    item[i].at = "queued" \/ (what = "reject" /\ item[i].at = "out")

payoutWaits(i) == item[i].at = "queued"

\* Slip: a payout is not asked whether it is still open.
stillWaits_payout(i, what) ==
    CASE KindOf[i] = "order"  -> orderWaits(i)
      [] KindOf[i] = "video"  -> videoWaits(i, what)
      [] KindOf[i] = "review" -> reviewWaits(i, what)
      [] KindOf[i] = "payout" -> TRUE

stillWaits(i, what) ==
    CASE KindOf[i] = "order"  -> orderWaits(i)
      [] KindOf[i] = "video"  -> videoWaits(i, what)
      [] KindOf[i] = "review" -> reviewWaits(i, what)
      [] KindOf[i] = "payout" -> payoutWaits(i)

result(i, what) ==
    CASE KindOf[i] = "video" /\ what = "approve" -> "hold"
      [] KindOf[i] = "review" /\ what = "reject" -> "none"
      [] OTHER -> "out"

Decision(m, i) == [item |-> i, ver |-> req[m][i].ver, from |-> req[m][i].from,
                   shown |-> req[m][i].shown, by |-> m, what |-> req[m][i].what]

At(m, i, at) == req[m][i].at = at

Commits(m, i) ==
    LET r == req[m][i] IN
    /\ At(m, i, "sent")
    /\ stillWaits(i, r.what) /\ sameVersion(i, r.shown)
    /\ item' = [item EXCEPT ![i].at = result(i, r.what)]
    /\ req' = [req EXCEPT ![m][i] = [r EXCEPT !.at = "committed", !.ver = item[i].ver,
                                             !.from = item[i].at]]
    /\ decided' = decided \cup {[item |-> i, ver |-> item[i].ver, from |-> item[i].at,
                                 shown |-> r.shown, by |-> m, what |-> r.what]}
    /\ UNCHANGED <<screens, done, faults, journal, told, lost>>

\* Another moderator was faster, or the order was edited.
Refused(m, i) ==
    LET r == req[m][i] IN
    /\ At(m, i, "sent")
    /\ ~(stillWaits(i, r.what) /\ sameVersion(i, r.shown))
    /\ req' = [req EXCEPT ![m][i].at = "error"]
    /\ UNCHANGED <<item, screens, done, faults, records>>

\* What follows the change of the row: the journal, then the messages.
stepsOrder == <<"log", "tell">>

stepsVideo == <<"log", "tell">>

stepsPayout == <<"log", "tell">>

\* A published review the other way, a removed one and nobody is told.
stepsReview(what) == IF what = "approve" THEN <<"tell", "log">> ELSE <<"log">>

\* Slip: the creator of a rejected video hears nothing.
steps_quiet(i, what) ==
    IF what = "reject" THEN <<"log">>
    ELSE IF KindOf[i] = "review" THEN stepsReview(what) ELSE stepsVideo

steps(i, what) ==
    CASE KindOf[i] = "order"  -> stepsOrder
      [] KindOf[i] = "video"  -> stepsVideo
      [] KindOf[i] = "payout" -> stepsPayout
      [] KindOf[i] = "review" -> stepsReview(what)

Does(m, i, step, n) ==
    LET d == Decision(m, i)
        todo == steps(i, req[m][i].what)
    IN
    /\ n \in DOMAIN todo /\ todo[n] = step
    /\ At(m, i, <<"committed", "first">>[n])
    /\ req' = [req EXCEPT ![m][i].at = IF n + 1 \in DOMAIN todo THEN "first" ELSE "ok"]
    /\ UNCHANGED <<item, screens, done, faults, decided, lost>>

Logs(m, i) ==
    /\ \E n \in 1..2 : Does(m, i, "log", n)
    /\ journal' = journal \cup {Decision(m, i)}
    /\ UNCHANGED told

Tells(m, i) ==
    /\ \E n \in 1..2 : Does(m, i, "tell", n)
    /\ told' = told \cup {Decision(m, i)}
    /\ UNCHANGED journal

\* A query fails, the process dies or the connection breaks.
Fails(m, i) ==
    /\ req[m][i].at \in {"sent", "committed", "first", "ok"}
    /\ faults < MaxFaults
    /\ faults' = faults + 1
    /\ req' = [req EXCEPT ![m][i].at = "error"]
    /\ lost' = IF At(m, i, "sent") THEN lost ELSE lost \cup {Decision(m, i)}
    /\ UNCHANGED <<item, screens, done, decided, journal, told>>

-----------------------------------------------------------------------------
(* The answer on the screen *)

Answered(m, i) == req' = [req EXCEPT ![m][i] = Idle]

without(q, i) == [q EXCEPT ![i] = Absent]

\* done: the item leaves the list, its tab is opened, the queue is read again.
doneWeb(m, i, t) ==
    /\ list' = [list EXCEPT ![m] = IF @[i].tab = t THEN without(@, i) ELSE @]
    /\ tab' = [tab EXCEPT ![m] = t]
    /\ want' = [want EXCEPT ![m] = NoItem]
    /\ shown' = [shown EXCEPT ![m] = NoCard]
    /\ load(m)

\* goNext: a fresh queue, and the first other card of the tab.
goNext(m, i, t) ==
    LET next == First(InTab(queue(m), t) \ {i}) IN
    /\ tab' = [tab EXCEPT ![m] = t]
    /\ want' = [want EXCEPT ![m] = next]
    /\ shown' = [shown EXCEPT ![m] = NoCard]
    /\ list' = [list EXCEPT ![m] = IF next = NoItem THEN queue(m) ELSE Empty]
    /\ loads' = [loads EXCEPT ![m] = {}]
    /\ UNCHANGED asked

\* A review is decided in the list, which is read again; a payout leaves it.
inList(m, i) ==
    /\ IF KindOf[i] = "payout"
       THEN list' = [list EXCEPT ![m] = without(@, i)] /\ UNCHANGED <<loads, asked>>
       ELSE load(m) /\ UNCHANGED list
    /\ UNCHANGED <<tab, want, shown>>

Succeeds(m, i) ==
    LET t == IF KindOf[i] = "order" THEN "orders"
             ELSE IF req[m][i].what \in {"approve", "reject"} THEN "videos" ELSE "holds"
    IN
    /\ At(m, i, "ok")
    /\ Answered(m, i)
    /\ CASE KindOf[i] \in {"review", "payout"} -> inList(m, i)
         [] app[m] = "web" -> doneWeb(m, i, t)
         [] OTHER -> goNext(m, i, t)
    /\ UNCHANGED <<item, app, newest, last, done, faults, records>>

\* Slip: the card stays busy when the server refuses.
Errs_busy(m, i) ==
    /\ At(m, i, "error")
    /\ UNCHANGED vars

\* The error is shown on the card, which can be used again; reviews are read again.
Errs(m, i) ==
    /\ At(m, i, "error")
    /\ Answered(m, i)
    /\ IF KindOf[i] = "review" THEN load(m) ELSE UNCHANGED <<loads, asked>>
    /\ UNCHANGED <<item, app, tab, want, list, shown, newest, last, done, faults, records>>

-----------------------------------------------------------------------------

Init ==
    /\ \E here \in Start :
        item = [i \in Item |-> IF i \in here THEN [at |-> "queued", ver |-> 1]
                ELSE [at |-> "none", ver |-> 0]]
    /\ app \in Apps
    /\ tab = [m \in Moderator |-> IF app[m] = "payouts" THEN "payouts" ELSE "videos"]
    /\ want = [m \in Moderator |-> NoItem]
    /\ list = [m \in Moderator |-> queue(m)]
    /\ shown = [m \in Moderator |-> NoCard]
    /\ loads = [m \in Moderator |-> {}]
    /\ asked = [m \in Moderator |-> 0] /\ newest = [m \in Moderator |-> 0]
    /\ last = [m \in Moderator |-> 0]
    /\ req = [m \in Moderator |-> [i \in Item |-> Idle]]
    /\ done = 0 /\ faults = 0
    /\ decided = {} /\ journal = {} /\ told = {} /\ lost = {}

Serve(m, i) == Commits(m, i) \/ Refused(m, i) \/ Logs(m, i) \/ Tells(m, i)
Answer(m, i) == Succeeds(m, i) \/ Errs(m, i)

Next ==
    \/ \E i \in Item : Edit(i) \/ Rate(i) \/ HoldEnds(i) \/ finalizeAutomatic(i)
    \/ \E m \in Moderator :
        \/ Arrives(m) \/ CardLoads(m) \/ Back(m)
        \/ \E t \in Tab : setTab(m, t)
        \/ \E i \in Item :
            \/ Choose(m, i) \/ Serve(m, i) \/ Answer(m, i) \/ Fails(m, i)
            \/ \E what \in {"approve", "reject", "finalize", "deleted"} :
                  \/ decideVideo(m, i, what) \/ decideOrder(m, i, what)
                  \/ decideReview(m, i, what) \/ decidePayout(m, i, what)

\* The server goes on with what it was sent and browsers report what it answers;
\* nobody has to click.
Spec == Init /\ [][Next]_vars /\ \A m \in Moderator :
            WF_vars(\E i \in Item : Serve(m, i) \/ Answer(m, i))

-----------------------------------------------------------------------------
(* Properties *)

TypeOK ==
    /\ item \in [Item -> [at : Place, ver : 0..MaxVer]]
    /\ \A m \in Moderator, i \in Item :
        /\ list[m][i].tab \in Tab \cup {"none"} /\ list[m][i].ver \in 0..MaxVer
        /\ req[m][i].at \in {"idle", "sent", "committed", "first", "ok", "error"}
    /\ \A m \in Moderator : newest[m] <= asked[m] /\ Open(m) \in Item \cup {NoItem}
    /\ journal \cup told \cup lost \subseteq decided

\* An object waits for one decision and gets one, however old the screens are that
\* two moderators decide on, and whatever the timer decides beside them; only a review
\* one has published another may still remove (moderation.controller.ts, the comment on
\* the class; removeReview).
OneDecision ==
    \A d, e \in decided :
        /\ d.item = e.item /\ d.ver = e.ver
        /\ d.what \in {"approve", "reject"} <=> e.what \in {"approve", "reject"}
        => d = e \/ (KindOf[d.item] = "review" /\ {d.what, e.what} = {"approve", "reject"}
                     /\ {d.from, e.from} = {"queued", "out"})

\* What a moderator decides about an order is the version his card shows, and
\* not an edit made since (parseVersion).
DecidedAsShown ==
    \A d \in decided : KindOf[d.item] = "order" => d.shown = d.ver

\* A decision is in the journal and people know of it when the moderator has his
\* answer, unless the request broke off on the way; and nobody hears of a decision
\* that is not in the journal, but for a review published by a request that broke off.
Announced ==
    /\ \A d \in decided \ lost : d.by # Timer /\ req[d.by][d.item] = Idle =>
        d \in journal /\ (d \in told \/ (KindOf[d.item] = "review" /\ d.what = "reject"))
    /\ \A d \in told \ journal : KindOf[d.item] = "review"

\* A moderator does not see again what he has decided: it leaves his list with
\* the answer, and comes back only if lists overtake each other (Queue.tsx, done).
DecidedLeavesList ==
    \A d \in decided \ lost : d.by = Timer \/
        LET m == d.by
            tabThen == IF d.from = "due" THEN "holds"
                       ELSE CASE KindOf[d.item] = "order"  -> "orders"
                              [] KindOf[d.item] = "video"  -> "videos"
                              [] KindOf[d.item] = "review" -> "reviews"
                              [] KindOf[d.item] = "payout" -> "payouts"
        IN (loads[m] = {} /\ last[m] = newest[m] /\ req[m][d.item] = Idle)
           => list[m][d.item] # [tab |-> tabThen, ver |-> d.ver]

\* A button that was pressed comes back to life (busy).
ButtonsRecover ==
    \A m \in Moderator :
        (\E i \in Item : busy(m, i)) ~> (\A i \in Item : ~busy(m, i))

\* "It appears in the profile after it is checked" (submissions.service.ts, rate).
ReviewSeen == \A d \in decided : d.what = "approve" => d.shown = d.ver

=============================================================================
