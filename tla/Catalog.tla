------------------------------- MODULE Catalog -------------------------------
(****************************************************************************)
(* The catalogue of open orders as one creator scrolls it                   *)
(* (CatalogView.tsx of the mini-app, Catalog.tsx of the web cabinet, which  *)
(* differ in nothing that is modelled) and the endpoint behind it           *)
(* (orders.controller.ts listOpen, orders.service.ts listOpen, openFacets,  *)
(* countOpen).                                                              *)
(*                                                                          *)
(* An order is a number: a larger one was created later. The pair           *)
(* (createdAt, id) of the cursor is that number. Orders are opened and      *)
(* closed by others while the creator scrolls and changes filters; an       *)
(* answer may be late, overtaken or lost. What a card shows of an order is  *)
(* left out, the fund is OrderFund's.                                       *)
(****************************************************************************)
EXTENDS Integers, Sequences, FiniteSets, SequencesExt

CONSTANTS
    Order,        \* the orders that may be open, numbers in order of creation
    Category, VideoPlatform,
    CategoryOf,   \* [Order -> Category]
    PlatformsOf,  \* [Order -> SUBSET VideoPlatform]; none means any
    PAGE_SIZE,
    All,          \* the undefined of a filter, of facets and of notifyOn
    MaxChanges,   \* bounds: orders opened and closed,
    MaxLoads,     \*   requests for a page,
    MaxFaults     \*   requests or answers lost

\* What the constants must be; assumed by Creator.
CatalogAssumption ==
    /\ Order \subseteq Nat \ {0} /\ IsFiniteSet(Order)
    /\ CategoryOf \in [Order -> Category]
    /\ PlatformsOf \in [Order -> SUBSET VideoPlatform]
    /\ PAGE_SIZE \in Nat \ {0}
    /\ All \notin Category \cup VideoPlatform \cup BOOLEAN

VARIABLES
    open,     \* the orders whose status is OPEN
    changes,  \* how often that changed; changedAt: when it last did for an order
    changedAt,
    facetsOf, \* OrdersService.facets: what is cached for a pair of filters
    list,     \* the state of the screen: its filters, orders, flags, chips
    calls,    \* requests for a page in flight, with the answer once there is one
    faults
vars == <<open, changes, changedAt, facetsOf, list, calls, faults>>

Filter == [category : Category \cup {All}, platform : VideoPlatform \cup {All}]
NoFilter == [category |-> All, platform |-> All]

(****************************************************************************)
(* The server.                                                              *)
(****************************************************************************)

\* An order without platforms suits any.
Suits(o, f) ==
    /\ f.category \in {All, CategoryOf[o]}
    /\ f.platform = All \/ PlatformsOf[o] = {} \/ f.platform \in PlatformsOf[o]

openWhere(f) == {o \in open : Suits(o, f)}

\* orderBy createdAt and id, the newest first.
Descending(S) ==
    [i \in 1 .. Cardinality(S) |->
        CHOOSE o \in S : Cardinality({newer \in S : newer > o}) = i - 1]

And(c, more) == [f \in DOMAIN c \cup DOMAIN more |-> IF f \in DOMAIN more THEN more[f] ELSE c[f]]

\* Slip: the pages are numbered, so what is shown is skipped by its number.
After_offset(after, f) ==
    LET seen == Cardinality({o \in DOMAIN CategoryOf : o >= after /\ Suits(o, f)})
        rows == Descending(openWhere(f))
    IN IF after = 0 THEN ToSet(rows) ELSE ToSet(SubSeq(rows, seen + 1, Len(rows)))
After(after, f) == {o \in openWhere(f) : after = 0 \/ o < after}

listOpen(f, after) ==
    LET rows == Descending(After(after, f))
    IN [items |-> SubSeq(rows, 1, IF Len(rows) < PAGE_SIZE THEN Len(rows) ELSE PAGE_SIZE),
        hasMore |-> Len(rows) > PAGE_SIZE]

\* The categories under the chosen platform, the platforms under the category.
openFacets(f) ==
    LET byCategory == openWhere([f EXCEPT !.category = All])
        byPlatforms == openWhere([f EXCEPT !.platform = All])
    IN [categories |-> {CategoryOf[o] : o \in byCategory},
        platforms |-> IF \E o \in byPlatforms : PlatformsOf[o] = {}
                      THEN VideoPlatform ELSE UNION {PlatformsOf[o] : o \in byPlatforms},
        at |-> changes]

\* Another creator, an advertiser or a moderator opens or closes an order.
Change(o) ==
    /\ changes < MaxChanges
    /\ open' = IF o \in open THEN open \ {o} ELSE open \cup {o}
    /\ changes' = changes + 1
    /\ changedAt' = [changedAt EXCEPT ![o] = changes']
    /\ UNCHANGED <<facetsOf, list, calls, faults>>

\* OPEN_COUNT_TTL_MS is over for a pair of filters.
Stale(f) ==
    /\ facetsOf[f] # All
    /\ facetsOf' = [facetsOf EXCEPT ![f] = All]
    /\ UNCHANGED <<open, changes, changedAt, list, calls, faults>>

Answered(c) == "items" \in DOMAIN c

\* OrdersController.listOpen: the page and, with the first one, the facets, from
\* their cache if it has them. The number of orders in the heading is left out.
Serve(c) ==
    LET f == c.filter
        facets == IF facetsOf[f] = All THEN openFacets(f) ELSE facetsOf[f]
        page == listOpen(f, c.after)
    IN /\ ~Answered(c)
       /\ calls' = (calls \ {c})
                   \cup {And(c, [items |-> page.items, hasMore |-> page.hasMore, at |-> changes,
                            facets |-> IF c.after = 0 THEN facets ELSE All])}
       /\ facetsOf' = IF c.after = 0 THEN [facetsOf EXCEPT ![f] = facets] ELSE facetsOf
       /\ UNCHANGED <<open, changes, changedAt, list, faults>>

(****************************************************************************)
(* The screen.                                                              *)
(****************************************************************************)

Requested(filter, reset, l) ==
    [id |-> l.lastRequest + 1, filter |-> filter, reset |-> reset, shown |-> l.orders,
     after |-> IF reset \/ l.orders = <<>> THEN 0 ELSE Last(l.orders)]

\* load(reset): the list stays on the screen until the answer comes.
load(filter, reset, l) ==
    /\ l.lastRequest < MaxLoads
    /\ list' = [l EXCEPT !.filter = filter, !.lastRequest = @ + 1, !.loading = TRUE,
                         !.error = FALSE]
    /\ calls' = calls \cup {Requested(filter, reset, l)}

\* Slip: every answer is applied, whatever was asked since.
isLast_any(c) == TRUE
isLast(c) == c.id = list.lastRequest

Arrive(c) ==
    /\ Answered(c)
    /\ calls' = calls \ {c}
    /\ IF isLast(c)
       THEN list' = [list EXCEPT
                       !.orders = IF c.reset THEN c.items ELSE c.shown \o c.items,
                       !.hasMore = c.hasMore, !.loading = FALSE,
                       !.facets = IF c.facets = All THEN @ ELSE c.facets,
                       !.since = IF c.reset THEN c.at ELSE @]
       ELSE UNCHANGED list
    /\ UNCHANGED <<open, changes, changedAt, facetsOf, faults>>

\* The request or its answer is lost, or the server answers with an error.
Fail(c) ==
    /\ faults < MaxFaults
    /\ faults' = faults + 1
    /\ calls' = calls \ {c}
    /\ list' = IF isLast(c) THEN [list EXCEPT !.error = TRUE, !.loading = FALSE] ELSE list
    /\ UNCHANGED <<open, changes, changedAt, facetsOf>>

\* The chips: where there are orders, and the chosen one, to be taken off.
shownPlatforms == {p \in VideoPlatform :
    p = list.filter.platform \/ (list.facets # All /\ p \in list.facets.platforms)}
shownCategories == {k \in Category :
    k = list.filter.category \/ (list.facets # All /\ k \in list.facets.categories)}

filtered == list.filter # NoFilter
empty == ~list.loading /\ ~list.error /\ list.orders = <<>>

\* A change of a filter runs the effect that loads the first page again.
setFilter(f) ==
    /\ f # list.filter
    /\ load(f, TRUE, list)
    /\ UNCHANGED <<open, changes, changedAt, facetsOf, faults>>
setPlatform ==
    /\ shownPlatforms # {}
    /\ \E p \in shownPlatforms \cup {All} : setFilter([list.filter EXCEPT !.platform = p])
setCategory ==
    /\ shownCategories # {}
    /\ \E k \in shownCategories \cup {All} : setFilter([list.filter EXCEPT !.category = k])
resetFilters == empty /\ filtered /\ setFilter(NoFilter)

Retry ==
    /\ list.error
    /\ load(list.filter, TRUE, list)
    /\ UNCHANGED <<open, changes, changedAt, facetsOf, faults>>

mayAskMore == list.hasMore /\ ~list.loading

More ==
    /\ mayAskMore
    /\ load(list.filter, FALSE, list)
    /\ UNCHANGED <<open, changes, changedAt, facetsOf, faults>>

\* The empty catalogue asks whether the creator hears of new orders, and offers to.
AskProfile ==
    /\ empty /\ list.notifyOn = All
    /\ \E on \in BOOLEAN : list' = [list EXCEPT !.notifyOn = on]
    /\ UNCHANGED <<open, changes, changedAt, facetsOf, calls, faults>>
notifyMe ==
    /\ empty /\ ~filtered /\ list.notifyOn = FALSE
    /\ list' = [list EXCEPT !.notifyOn = TRUE]
    /\ UNCHANGED <<open, changes, changedAt, facetsOf, calls, faults>>

-----------------------------------------------------------------------------
\* The screen opens with the platform remembered from the last visit.
Opened(platform) ==
    [filter |-> [NoFilter EXCEPT !.platform = platform], orders |-> <<>>, hasMore |-> FALSE, loading |-> FALSE, error |-> FALSE, facets |-> All,
     lastRequest |-> 0, since |-> 0, notifyOn |-> All]

Init ==
    /\ open \in SUBSET Order
    /\ changes = 0
    /\ changedAt = [o \in Order |-> 0]
    /\ facetsOf = [f \in Filter |-> All]
    /\ \E p \in VideoPlatform \cup {All} :
         LET l == Opened(p)
         IN /\ list = [l EXCEPT !.lastRequest = 1, !.loading = TRUE]
            /\ calls = {Requested(l.filter, TRUE, l)}
    /\ faults = 0

Server == (\E o \in Order : Change(o)) \/ (\E f \in Filter : Stale(f)) \/ (\E c \in calls : Serve(c))
Answers == \E c \in calls : Arrive(c) \/ Fail(c)
Creator == setPlatform \/ setCategory \/ resetFilters \/ Retry \/ More \/ AskProfile \/ notifyMe

Next == Server \/ Answers \/ Creator

Spec == Init /\ [][Next]_vars

-----------------------------------------------------------------------------
Page == {s \in UNION {[1 .. n -> Order] : n \in 0 .. Cardinality(Order)} :
            \A i, j \in DOMAIN s : i < j => s[i] > s[j]}

\* Pages, filters and caches are what the code's types say.
TypeOK ==
    /\ open \subseteq Order
    /\ list.filter \in Filter /\ list.lastRequest \in 0 .. MaxLoads
    /\ \A c \in calls : c.id \in 1 .. list.lastRequest

Quiet == ~list.loading /\ ~list.error

\* However filters are switched and answers overtake each other, a quiet screen
\* shows orders of the chosen filters only, newest first and each once - as long
\* as no page failed to load (Catalog.tsx load: only the last request's answer).
OneFilter ==
    Quiet /\ faults = 0 =>
        /\ list.orders \in Page
        /\ \A o \in ToSet(list.orders) : Suits(o, list.filter)

\* Nothing is skipped between pages while orders open and close: an order that
\* suits and was open since the first page was read is on the screen, or is older
\* than what is and the button for more is there (listOpen: a cursor, not a page
\* number).
NothingSkipped ==
    Quiet /\ faults = 0 =>
        \A o \in openWhere(list.filter) : changedAt[o] <= list.since =>
            \/ o \in ToSet(list.orders)
            \/ list.hasMore /\ list.orders # <<>> /\ o < Last(list.orders)

\* A chip finds something: if no order opened or closed since the facets on the
\* screen were computed, choosing one more filter that is offered leaves at least
\* one order (openFacets: each list under the other filter).
ChipsFind ==
    Quiet /\ faults = 0 /\ list.facets # All /\ list.facets.at = changes =>
        /\ \A p \in list.facets.platforms : openWhere([list.filter EXCEPT !.platform = p]) # {}
        /\ \A k \in list.facets.categories : openWhere([list.filter EXCEPT !.category = k]) # {}

\* Catalog.tsx reads the list anew when a filter changes, so that only its orders
\* are on the screen. Refuted: the first page of new filters fails, the old
\* list and its button for more stay, and the next page of the new filters is
\* appended to the orders of the old ones.
AlwaysOneFilter == Quiet => \A o \in ToSet(list.orders) : Suits(o, list.filter)
=============================================================================
