------------------------------ MODULE OrderForm ------------------------------
(***************************************************************************)
(* The order form of both apps (src/web/src/advertiser/OrderForm.tsx,      *)
(* src/webapp/src/views/CreateOrderView.tsx), and the endpoints of         *)
(* src/src/orders that take it.                                            *)
(*                                                                         *)
(* An advertiser may have the form open in both apps.  It is filled from   *)
(* an order by an answer that comes late or not at all, checked by the     *)
(* browser, sent, checked by the server, and sent again when an answer is  *)
(* lost; meanwhile the order itself moves on.                              *)
(*                                                                         *)
(* Left out: the reference link (taken as the link to the product is, less *)
(* the box), the orientation (a choice that cannot go wrong), fractions    *)
(* (both sides refuse them), the title (taken as the task is), and the     *)
(* sums of the fund (OrderFund).                                           *)
(***************************************************************************)
EXTENDS Naturals, Sequences, FiniteSets

CONSTANTS
    Client,                       \* the apps the advertiser has open
    MIN_EXAMPLES, MAX_EXAMPLES,
    MIN_BUDGET, MAX_BUDGET,
    MAX_VIEWS,
    MAX_DURATION,
    MAX_ACTIVE_ORDERS,
    Videos,        \* values tried in the field of an example
    Numbers,       \* and in those of numbers; 0 is an empty field
    MaxOrders,     \* bound: orders
    MaxForms,      \* bound: forms opened
    MaxTyped,      \* bound: fields changed by hand
    MaxMoves,      \* bound: steps of an order outside the forms
    MaxFaults      \* bound: answers and requests lost

\* What the constants must be; assumed by Advertiser.
OrderFormAssumption ==
    /\ Client \subseteq {"web", "mini"}
    /\ MIN_EXAMPLES \in Nat \ {0} /\ MAX_EXAMPLES >= MIN_EXAMPLES
    /\ MIN_BUDGET \in Nat \ {0} /\ MAX_BUDGET >= MIN_BUDGET
    /\ MAX_VIEWS \in Nat \ {0} /\ MAX_DURATION > 2
    /\ MAX_ACTIVE_ORDERS \in Nat \ {0}
    /\ Numbers \subseteq Nat /\ 0 \in Numbers
    /\ {MaxOrders, MaxForms, MaxTyped, MaxMoves, MaxFaults} \subseteq Nat /\ MaxForms > 0

VARIABLES
    orders,     \* the rows, by number
    form,       \* of each app: the form on its screen
    req,        \* and the request it has sent
    opened, typed, moves, faults,
    made, dropped,   \* history: orders a form has made, answers it never got
    written, vetted, \* history: the forms a row was written from: last, and when let through
    late, mixed,     \* history: edits of an order that moved since they looked; rows they wrote
    beside, extended \* history: two creations overlapped; an expired order reopened

bounds == <<opened, typed, moves, faults>>
forms == <<written, vetted, late, mixed>>
history == <<made, dropped, forms, beside, extended>>
vars == <<orders, form, req, bounds, history>>

Texts == {"empty", "dashes", "words", "padded", "other"}
Targets == {"empty", "word", "ftp", "site", "contact"}
NoOrder == 0
Vacant == [status |-> "none"]
Idle == [at |-> "idle"]

-----------------------------------------------------------------------------
(* What the server makes of a body *)

\* A string without what cannot be seen, and trimmed.
text(t) == IF t = "padded" THEN "words" ELSE t

isMeaningfulText(t) == t \notin {"empty", "dashes"}

httpUrl(l) == l \notin {"empty", "word", "ftp"}

\* The video a link is to; "short" is a short link of TikTok, taken as it is.
videoIdKey(l) == CASE l \in {"post1", "copy1"} -> "video1"
                   [] l \in {"post2", "post3", "short"} -> l
                   [] OTHER -> "none"

Platform == {"post1", "copy1", "post2", "post3", "short", "profile"}

parseExamples(list) ==
    [examplesCount    |-> Len(list) \notin MIN_EXAMPLES..MAX_EXAMPLES,
     exampleNotVideo  |-> \E i \in DOMAIN list : list[i] \notin Platform,
     exampleNotPost   |-> \E i \in DOMAIN list :
                             list[i] \in Platform /\ videoIdKey(list[i]) = "none",
     exampleDuplicate |-> \E i, j \in DOMAIN list :
                             /\ i # j /\ videoIdKey(list[i]) # "none"
                             /\ videoIdKey(list[i]) = videoIdKey(list[j])]

optionalUrl(l) ==
    [urlScheme    |-> l # "empty" /\ ~httpUrl(l),
     urlIsContact |-> l = "contact"]

parseViews(n) == n \in 1..MAX_VIEWS

durationSec(n) == n \in 1..MAX_DURATION

Wrong(tests) == {c \in DOMAIN tests : tests[c]}

\* Why a body is refused; not at all, if for no reason.
parseOrderInput(b) ==
    Wrong(parseExamples(b.examples)) \cup Wrong(optionalUrl(b.target))
    \cup Wrong([briefEmpty           |-> ~isMeaningfulText(text(b.text)),
                linkInBioNeedsTarget |-> b.bio /\ b.target = "empty",
                budgetRange          |-> b.budget \notin MIN_BUDGET..MAX_BUDGET,
                viewsRange           |-> ~parseViews(b.minViews),
                durationRange        |-> ~(durationSec(b.minSec) /\ durationSec(b.maxSec)),
                durationOrder        |-> b.minSec > b.maxSec,
                chooseCategory       |-> b.category = "none"])

\* A new order must say its deadline; an edit may leave it as it was.
parseOrderEdit(b) == parseOrderInput([b EXCEPT !.deadline = "none"])

parseNew(b) == parseOrderInput(b) \cup Wrong([chooseDeadline |-> b.deadline = "keep"])

\* Slip: the text goes in the row as it was typed.
terms_untrimmed(b) == [text |-> b.text, examples |-> b.examples, target |-> b.target,
             bio |-> b.bio, budget |-> b.budget, minViews |-> b.minViews,
             minSec |-> b.minSec, maxSec |-> b.maxSec, platforms |-> b.platforms,
             category |-> b.category]

terms(b) == [text |-> text(b.text), examples |-> b.examples, target |-> b.target,
             bio |-> b.bio, budget |-> b.budget, minViews |-> b.minViews,
             minSec |-> b.minSec, maxSec |-> b.maxSec, platforms |-> b.platforms,
             category |-> b.category]

\* Statuses of an order: in the queue of the moderators, on show, ...
FROZEN == {"queued", "editRejected"}

\* A published order with an edit not let through; the rate comes with "paid".
isFrozen(o) == orders[o].paid # 0 /\ orders[o].status \in FROZEN

active == {o \in 1..MaxOrders : orders[o].status \in FROZEN \cup {"open"}}
Rows == {o \in 1..MaxOrders : orders[o] # Vacant}

changesNothing(o, b) ==
    /\ b.deadline = "keep" \/ (b.deadline = "none" /\ orders[o].deadline = "none")
    /\ orders[o].terms = terms(b)

-----------------------------------------------------------------------------
(* The form *)

\* Empty fields up to the number of examples asked for.
Pad(list) == list \o [i \in 1..(IF Len(list) < MIN_EXAMPLES
                                THEN MIN_EXAMPLES - Len(list) ELSE 0) |-> "empty"]

\* The examples that are filled in, in their order.
Filled(list) ==
    LET full == {i \in DOMAIN list : list[i] # "empty"}
    IN  [k \in 1 .. Cardinality(full) |->
            list[CHOOSE i \in full : Cardinality({j \in full : j < i}) = k - 1]]

\* The form before anything is put in; the deadline of an edit is "as it was".
blankWeb(id) ==
    [text |-> "empty", examples |-> Pad(<<>>), target |-> "empty", bio |-> FALSE,
     budget |-> 0, minViews |-> 1, minSec |-> 2, maxSec |-> 3, platforms |-> {},
     category |-> "none", deadline |-> IF id = NoOrder THEN "none" ELSE "keep"]

blankMini(id) ==
    [text |-> "empty", examples |-> Pad(<<>>), target |-> "empty", bio |-> FALSE,
     budget |-> 0, minViews |-> 1, minSec |-> 2, maxSec |-> 3, platforms |-> {},
     category |-> "none", deadline |-> IF id = NoOrder THEN "none" ELSE "keep"]

blank(c, id) == IF c = "web" THEN blankWeb(id) ELSE blankMini(id)

\* The order of the list in the fields, over what stands there; not the deadline.
fillWeb(f, o) ==
    LET t == orders[o].terms IN
    [text |-> t.text, examples |-> Pad(t.examples), target |-> t.target, bio |-> t.bio,
     budget |-> t.budget, minViews |-> t.minViews, minSec |-> t.minSec, maxSec |-> t.maxSec,
     platforms |-> t.platforms, category |-> t.category, deadline |-> f.deadline]

\* Slip: the box of the mini-app is not filled from the order.
fillMini_box(f, o) == [k \in DOMAIN f |->
    CASE k \in {"deadline", "bio"} -> f[k]
      [] k = "examples" -> Pad(orders[o].terms.examples)
      [] OTHER -> orders[o].terms[k]]

fillMini(f, o) == [k \in DOMAIN f |->
    CASE k = "deadline" -> f.deadline
      [] k = "examples" -> Pad(orders[o].terms.examples)
      [] OTHER -> orders[o].terms[k]]

fill(c, f, o) == IF c = "web" THEN fillWeb(f, o) ELSE fillMini(f, o)

hasTarget(f) == f.target # "empty"

\* type="url", required, min and max of the fields, and a category.
validateWeb(f) ==
    /\ f.text # "empty"
    /\ \A i \in DOMAIN f.examples :
          f.examples[i] # "word" /\ (i <= MIN_EXAMPLES => f.examples[i] # "empty")
    /\ f.target # "word"
    /\ f.minSec \in 1..MAX_DURATION /\ f.maxSec \in 1..MAX_DURATION
    /\ f.budget \in MIN_BUDGET..MAX_BUDGET /\ f.minViews >= 1
    /\ f.category # "none"

validateMini(f) ==
    /\ "word" \notin {f.examples[i] : i \in DOMAIN f.examples} \cup {f.target}
    /\ "empty" \notin {f.examples[i] : i \in 1..MIN_EXAMPLES} \cup {f.text}
    /\ {f.minSec, f.maxSec} \subseteq 1..MAX_DURATION
    /\ f.budget \in MIN_BUDGET..MAX_BUDGET /\ f.minViews # 0
    /\ f.category # "none"

validate(c, f) == IF c = "web" THEN validateWeb(f) ELSE validateMini(f)

\* What is sent: no empty examples, no link in the bio without a link.
inputWeb(f) == [f EXCEPT !.examples = Filled(@), !.bio = @ /\ hasTarget(f)]

inputMini(f) == [f EXCEPT !.bio = @ /\ hasTarget(f),
                          !.examples = Filled(@)]

input(c, f) == IF c = "web" THEN inputWeb(f) ELSE inputMini(f)

-----------------------------------------------------------------------------
(* What a hand does with it *)

typedText(f) == {[f EXCEPT !.text = t] : t \in Texts}

typedExamples(f) ==
    {[f EXCEPT !.examples[i] = v] : i \in DOMAIN f.examples, v \in Videos}
    \cup {[f EXCEPT !.examples = SubSeq(@, 1, i - 1) \o SubSeq(@, i + 1, Len(@))] :
             i \in {j \in DOMAIN f.examples : Len(f.examples) > MIN_EXAMPLES}}
    \cup {[f EXCEPT !.examples = Append(@, "empty")] :
             x \in {y \in {1} : Len(f.examples) < MAX_EXAMPLES}}

typedTarget(f) ==
    {[f EXCEPT !.target = l] : l \in Targets}
    \cup {[f EXCEPT !.bio = b] : b \in {x \in BOOLEAN : hasTarget(f)}}

typedRequirements(f) ==
    {[f EXCEPT !.minSec = n] : n \in Numbers} \cup {[f EXCEPT !.maxSec = n] : n \in Numbers}
    \cup {[f EXCEPT !.platforms = p] : p \in SUBSET {"youtube"}}
    \cup {[f EXCEPT !.category = "food"]}

typedBudget(f) ==
    {[f EXCEPT !.budget = n] : n \in Numbers} \cup {[f EXCEPT !.minViews = n] : n \in Numbers}

typedDeadline(f, id) ==
    {[f EXCEPT !.deadline = d] : d \in {"days", "none"} \cup (IF id = NoOrder THEN {} ELSE {"keep"})}

Typed(f, id) == typedText(f) \cup typedExamples(f) \cup typedTarget(f)
    \cup typedRequirements(f) \cup typedBudget(f) \cup typedDeadline(f, id)

Or(x, none, y) == IF x = none THEN y ELSE x

\* What is asked for and empty is filled in.
Good(f) == [f EXCEPT !.text = Or(@, "empty", "words"), !.category = Or(@, "none", "food"),
    !.budget = Or(@, 0, MIN_BUDGET), !.minSec = Or(@, 0, 2), !.maxSec = Or(@, 0, 3),
    !.examples = [i \in DOMAIN @ |-> Or(@[i], "empty", IF i = 1 THEN "post1" ELSE "post2")]]

-----------------------------------------------------------------------------
(* The screens *)

Closed == [at |-> "closed"]
Shown(c) == form[c].at # "closed"

\* /my-orders/new, /my-orders/new?from=<id>, /my-orders/:id/edit.
Opens(c, at, from) ==
    /\ ~Shown(c) /\ req[c] = Idle /\ opened < MaxForms
    /\ opened' = opened + 1
    /\ form' = [form EXCEPT ![c] =
          [at |-> at, n |-> opened + 1, from |-> from, waits |-> from # NoOrder,
           f |-> blank(c, IF at = "edit" THEN from ELSE NoOrder),
           preview |-> FALSE, error |-> "none"]]
    /\ UNCHANGED <<orders, req, typed, moves, faults, history>>

OpenNew(c) == Opens(c, "new", NoOrder)
OpenCopy(c) == \E o \in Rows : Opens(c, "new", o)
OpenEdit(c) == \E o \in Rows : Opens(c, "edit", o)

\* The list of the orders arrives.
Listed(c) ==
    /\ Shown(c) /\ form[c].waits
    /\ form' = [form EXCEPT ![c].waits = FALSE, ![c].f = fill(c, @, form[c].from)]
    /\ UNCHANGED <<orders, req, bounds, history>>

\* catch(() => []): the form stays as it is, and nothing is said.
NotListed(c) ==
    /\ Shown(c) /\ form[c].waits /\ faults < MaxFaults
    /\ form' = [form EXCEPT ![c].waits = FALSE]
    /\ faults' = faults + 1
    /\ UNCHANGED <<orders, req, opened, typed, moves, history>>

editId(c) == IF form[c].at = "edit" THEN form[c].from ELSE NoOrder

\* The fields are hidden while the order is looked at before it goes.
Type(c) ==
    /\ Shown(c) /\ ~form[c].preview /\ typed < MaxTyped
    /\ \E f \in Typed(form[c].f, editId(c)) :
          form' = [form EXCEPT ![c].f = f]
    /\ typed' = typed + 1
    /\ UNCHANGED <<orders, req, opened, moves, faults, history>>

FillIn(c) ==
    /\ Shown(c) /\ ~form[c].preview
    /\ form[c].f.text = "empty" \/ form[c].f.minSec = 0
    /\ form' = [form EXCEPT ![c].f = Good(@)]
    /\ UNCHANGED <<orders, req, bounds, history>>

\* The first press on the button of a new order shows it as it will be seen.
Preview(c) ==
    /\ Shown(c) /\ req[c] = Idle /\ validate(c, form[c].f)
    /\ form[c].at = "new" /\ ~form[c].preview
    /\ form' = [form EXCEPT ![c].preview = TRUE, ![c].error = "none"]
    /\ UNCHANGED <<orders, req, bounds, history>>

Back(c) ==
    /\ Shown(c) /\ form[c].preview
    /\ form' = [form EXCEPT ![c].preview = FALSE]
    /\ UNCHANGED <<orders, req, bounds, history>>

\* The button is off until the answer is there.
Submit(c) ==
    /\ Shown(c) /\ req[c] = Idle /\ validate(c, form[c].f)
    /\ form[c].at = "edit" \/ form[c].preview
    /\ req' = [req EXCEPT ![c] = [at |-> "sent", id |-> editId(c), n |-> form[c].n,
          shown |-> form[c].f, b |-> input(c, form[c].f), why |-> {}, seen |-> Vacant]]
    /\ form' = [form EXCEPT ![c].error = "none"]
    /\ UNCHANGED <<orders, bounds, history>>

Leave(c) ==
    /\ Shown(c)
    /\ form' = [form EXCEPT ![c] = Closed]
    /\ UNCHANGED <<orders, req, bounds, history>>

-----------------------------------------------------------------------------
(* The server *)

Refuse(c, why) ==
    req' = [req EXCEPT ![c].at = "answered", ![c].why = why, ![c].seen = Vacant]
Accept(c) == Refuse(c, {})

\* POST my-orders: the body, and the number of orders on the way.
Count(c) ==
    /\ req[c].at = "sent" /\ req[c].id = NoOrder
    /\ LET why == IF parseNew(req[c].b) # {} THEN parseNew(req[c].b)
                  ELSE Wrong([tooManyActive |-> Cardinality(active) >= MAX_ACTIVE_ORDERS])
       IN IF why # {} THEN Refuse(c, why)
          ELSE req' = [req EXCEPT ![c].at = "counted"]
    /\ UNCHANGED <<orders, form, bounds, history>>

\* Then the row, the count being what it was.
Create(c) ==
    /\ req[c].at = "counted" /\ Cardinality(Rows) < MaxOrders
    /\ LET o == Cardinality(Rows) + 1 IN
       /\ orders' = [orders EXCEPT ![o] = [status |-> "queued", terms |-> terms(req[c].b),
             deadline |-> IF req[c].b.deadline = "days" THEN "set" ELSE "none",
             paid |-> 0, prev |-> Vacant]]
       /\ written' = [written EXCEPT ![o] = req[c].shown]
    /\ made' = [made EXCEPT ![req[c].n] = @ + 1]
    /\ beside' = (beside \/ \E d \in Client \ {c} : req[d].at = "counted")
    /\ Accept(c)
    /\ UNCHANGED <<form, bounds, dropped, vetted, late, mixed, extended>>

\* PUT my-orders/:id: an edit of nothing is answered and not put in the queue.
Look(c) ==
    /\ req[c].at = "sent" /\ req[c].id # NoOrder
    /\ LET why == parseOrderEdit(req[c].b)
           o == req[c].id
       IN IF why # {} THEN Refuse(c, why)
          ELSE IF orders[o].status \in {"open", "queued"} /\ changesNothing(o, req[c].b)
          THEN Accept(c)
          ELSE req' = [req EXCEPT ![c].at = "looked", ![c].seen = orders[o]]
    /\ late' = late \ {c}
    /\ UNCHANGED <<orders, form, bounds, made, dropped, written, vetted, mixed, beside, extended>>

\* "As it was": that of an order not on show is moved on from the row looked at.
keptDeadline(seen, o) ==
    IF seen.status \in FROZEN /\ seen.deadline = "set" THEN "set" ELSE orders[o].deadline

\* What was on show is kept with the first edit, as it was looked at.
update(c) ==
    /\ req[c].at = "looked"
    /\ LET o == req[c].id
           seen == req[c].seen
           days == req[c].b.deadline
       IN IF orders[o].status \notin FROZEN \cup {"open"}
          THEN Refuse(c, {"orderProcessed"}) /\ UNCHANGED <<orders, written, mixed>>
          ELSE /\ orders' = [orders EXCEPT ![o] =
                     [status |-> "queued", terms |-> terms(req[c].b),
                      deadline |-> CASE days = "keep" -> keptDeadline(seen, o)
                                     [] days = "none" -> "none"
                                     [] OTHER -> "set",
                      paid |-> orders[o].paid,
                      prev |-> IF seen.status = "open" THEN seen.terms ELSE orders[o].prev]]
               /\ written' = [written EXCEPT ![o] = req[c].shown]
               /\ mixed' = IF c \in late THEN mixed \cup {o} ELSE mixed
               /\ Accept(c)
    /\ UNCHANGED <<form, bounds, made, dropped, vetted, late, beside, extended>>

\* Is the answer for the form on the screen?
Own(c) == Shown(c) /\ form[c].n = req[c].n

\* Slip: an order that is made leaves the form where it was.
Answer_stays(c) ==
    /\ req[c].at = "answered"
    /\ form' = IF Own(c) /\ req[c].why # {}
               THEN [form EXCEPT ![c].error = "refused"] ELSE form
    /\ req' = [req EXCEPT ![c] = Idle]
    /\ UNCHANGED <<orders, bounds, history>>

Answer(c) ==
    /\ req[c].at = "answered"
    /\ form' = IF ~Own(c) THEN form
               ELSE IF req[c].why = {} THEN [form EXCEPT ![c] = Closed]
               ELSE [form EXCEPT ![c].error = "refused"]
    /\ req' = [req EXCEPT ![c] = Idle]
    /\ UNCHANGED <<orders, bounds, history>>

\* The request or the answer is lost: an error, and the button is on again.
Lost(c) ==
    /\ req[c].at \in {"sent", "answered"} /\ faults < MaxFaults
    /\ faults' = faults + 1
    /\ dropped' = [dropped EXCEPT ![req[c].n] = @ + 1]
    /\ form' = IF Own(c) THEN [form EXCEPT ![c].error = "failed"] ELSE form
    /\ req' = [req EXCEPT ![c] = Idle]
    /\ UNCHANGED <<orders, opened, typed, moves, made, forms, beside, extended>>

-----------------------------------------------------------------------------
(* The order moves on *)

Goes(o, from, row) ==
    /\ orders[o].status \in from /\ moves < MaxMoves
    /\ orders' = [orders EXCEPT ![o] = row]
    /\ moves' = moves + 1
    /\ UNCHANGED <<form, req, opened, typed, faults, made, dropped, beside>>

Becomes(o, from, to) == Goes(o, from, [orders[o] EXCEPT !.status = to])

\* The edits of an order that have looked at it and are still to be written.
LookedAt(o) == {c \in Client : req[c].at = "looked" /\ req[c].id = o}

\* The sum is paid, and what stands in the row is what was let through.
Approve(o) ==
    /\ Goes(o, {"queued"}, [orders[o] EXCEPT !.status = "open", !.paid = orders[o].terms.budget])
    /\ vetted' = [vetted EXCEPT ![o] = written[o]]
    /\ late' = late \cup LookedAt(o) /\ mixed' = mixed \ {o}
    /\ UNCHANGED <<written, extended>>

Reject(o) ==
    /\ Becomes(o, {"queued"}, IF orders[o].paid = 0 THEN "rejected" ELSE "editRejected")
    /\ UNCHANGED <<forms, extended>>

\* Slip: the terms go back to those let through, the budget stays that of the edit.
cancelEdit_budget(o) ==
    [(IF orders[o].prev = Vacant THEN orders[o].terms ELSE orders[o].prev)
        EXCEPT !.budget = orders[o].terms.budget]

\* The terms before the edit, and the budget that was paid.
cancelEdit(o) ==
    [(IF orders[o].prev = Vacant THEN orders[o].terms ELSE orders[o].prev)
        EXCEPT !.budget = orders[o].paid]

Close(o) ==
    \/ /\ isFrozen(o)
       /\ Goes(o, FROZEN, [orders[o] EXCEPT !.status = "closed", !.terms = cancelEdit(o)])
       /\ written' = [written EXCEPT ![o] = IF o \in mixed THEN Vacant ELSE vetted[o]]
       /\ UNCHANGED <<vetted, late, mixed, extended>>
    \/ /\ ~isFrozen(o)
       /\ Becomes(o, {"open"}, "closed")
       /\ UNCHANGED <<forms, extended>>

\* Terms, or a form, without the link to the product.
unlinked(t) == IF t = Vacant THEN t ELSE [t EXCEPT !.target = "empty", !.bio = FALSE]

\* A measure on reports: the link goes, whatever the status.
moderatorClose(o) ==
    /\ Goes(o, {orders[o].status},
            [orders[o] EXCEPT !.terms = unlinked(@), !.prev = unlinked(@),
                              !.status = IF @ \in {"open", "expired"} THEN "closed" ELSE @])
    /\ written' = [written EXCEPT ![o] = unlinked(@)]
    /\ vetted' = [vetted EXCEPT ![o] = unlinked(@)]
    /\ late' = late \cup LookedAt(o)
    /\ UNCHANGED <<mixed, extended>>

Expire(o) ==
    /\ orders[o].deadline = "set"
    /\ Becomes(o, {"open"}, "expired") /\ UNCHANGED <<forms, extended>>

\* Orders are not counted here.
extend(o) ==
    /\ Becomes(o, {"expired"}, "open")
    /\ extended' = TRUE /\ late' = late \cup LookedAt(o)
    /\ UNCHANGED <<written, vetted, mixed>>

-----------------------------------------------------------------------------
\* An order that has expired has no examples and no durations: it is older than they are.
OldTerms == [text |-> "words", examples |-> <<>>, target |-> "site", bio |-> TRUE,
    budget |-> MIN_BUDGET, minViews |-> 1, minSec |-> 0, maxSec |-> 0, platforms |-> {},
    category |-> "food"]
OldRows == [status : {"expired"}, terms : {OldTerms}, deadline : {"set"},
            paid : {MIN_BUDGET}, prev : {Vacant}]

\* One that is on show came through the form.
OldForms ==
    {f \in {[Good(blankWeb(NoOrder)) EXCEPT !.target = "site", !.bio = TRUE, !.deadline = "days"]} :
        parseNew(inputWeb(f)) = {}}

RowOf(f) == [status |-> "open", terms |-> terms(inputWeb(f)), deadline |-> "set",
             paid |-> f.budget, prev |-> Vacant]

First(row, f) ==
    /\ orders = [o \in 1..MaxOrders |-> IF o = 1 THEN row ELSE Vacant]
    /\ written = [o \in 1..MaxOrders |-> IF o = 1 THEN f ELSE Vacant]
    /\ vetted = written

Init ==
    /\ \/ \E old \in OldRows : First(old, Vacant)
       \/ \E f \in OldForms : First(RowOf(f), f)
    /\ form = [c \in Client |-> Closed]
    /\ req = [c \in Client |-> Idle]
    \* a hand at the last form beside the order on show, or every form and no hand;
    \* the last form beside the old order
    /\ \/ opened = MaxForms - 1 /\ typed = 0 /\ orders[1].status = "open"
       \/ opened = 0 /\ typed = MaxTyped /\ orders[1].status = "open"
       \/ opened = MaxForms - 1 /\ typed = MaxTyped /\ orders[1].status = "expired"
    /\ moves = 0 /\ faults = 0
    /\ made = [n \in 1..MaxForms |-> 0] /\ dropped = [n \in 1..MaxForms |-> 0]
    /\ late = {} /\ mixed = {}
    /\ beside = FALSE /\ extended = FALSE

Next ==
    \/ \E c \in Client :
          \/ OpenNew(c) \/ OpenCopy(c) \/ OpenEdit(c) \/ Leave(c)
          \/ Listed(c) \/ NotListed(c) \/ Type(c) \/ FillIn(c)
          \/ Preview(c) \/ Back(c) \/ Submit(c)
          \/ Count(c) \/ Create(c) \/ Look(c) \/ update(c)
          \/ Answer(c) \/ Lost(c)
    \/ \E o \in Rows :
          \/ Approve(o) \/ Reject(o) \/ Close(o) \/ moderatorClose(o)
          \/ Expire(o) \/ extend(o)

Spec == Init /\ [][Next]_vars

-----------------------------------------------------------------------------
(* Properties *)

\* What stands in a row is what the form had on its screen when it was sent, as
\* a reader of the form would put it: the text trimmed, the examples that were
\* filled in, the box as it was drawn (off without a link).  An edit that is
\* closed away gives the order back as it was let through last, its budget with
\* it, unless a moderator decided, or the order was extended, between the look and
\* the writing of an edit; and a link a moderator took away comes back by a new
\* edit only.
SavedAsShown == \A o \in Rows : written[o] # Vacant =>
    LET f == written[o]
        t == orders[o].terms
    IN /\ t.text = text(f.text) /\ t.target = f.target
       /\ t.bio <=> (f.bio /\ f.target # "empty")
       /\ <<t.budget, t.minViews, t.minSec, t.maxSec, t.platforms, t.category>>
            = <<f.budget, f.minViews, f.minSec, f.maxSec, f.platforms, f.category>>
       /\ {t.examples[i] : i \in DOMAIN t.examples}
            = {f.examples[i] : i \in DOMAIN f.examples} \ {"empty"}

\* An order that came through the form can be opened in it and sent as it is:
\* the browser lets it through, the server takes it and sees nothing changed (so
\* an order on show stays on show) - in either app.  An order older than the
\* examples is the exception.
RoundTrip == \A o \in Rows, c \in Client : written[o] # Vacant =>
    LET f == fill(c, blank(c, o), o) IN
    /\ validate(c, f) /\ parseOrderEdit(input(c, f)) = {}
    /\ changesNothing(o, input(c, f))

\* A form makes a second order only after the answer to the first was lost.
TwiceOnlyAfterLoss == \A n \in 1..MaxForms : made[n] <= 1 + dropped[n]

Active == {o \in Rows : orders[o].status \notin {"closed", "expired", "rejected"}}

\* More active orders than the limit come only of two creations that overlap,
\* or of an expired order extended.
OverLimitForCause ==
    Cardinality(Active) > MAX_ACTIVE_ORDERS => beside \/ extended

\* flows.int-spec.ts says more than the limit are not to be had; refuted.
LimitKept == Cardinality(Active) <= MAX_ACTIVE_ORDERS
=============================================================================
