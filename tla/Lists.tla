-------------------------------- MODULE Lists --------------------------------
(****************************************************************************)
(* The two lists a moderator pages through, "all orders" and "people", in   *)
(* both apps (AllOrders.tsx, Users.tsx over usePaged.ts; ModAllOrdersView   *)
(* and ModUsersView of the mini-app) and what answers them                  *)
(* (moderation.controller.ts, listAll, ModUsersService.list). A row is a    *)
(* number, larger if created later, with the status its list filters by; a  *)
(* filter is a set of statuses, empty for all. Text typed into the search   *)
(* of people acts as one more filter. The columns of a row are left out.    *)
(****************************************************************************)
EXTENDS Integers, Sequences, FiniteSets

CONSTANTS
    Row, Status,
    FILTERS,     \* sets of statuses
    PAGE_SIZE,
    Missing,     \* of a row not created yet, and of an answer not read yet
    MaxRequests, MaxAltered, MaxMisses   \* bounds: pages asked for, rows changed
                                         \* or created, requests lost

\* What the constants must be; assumed by Moderator.
ListsAssumption ==
    /\ Row \subseteq Nat \ {0} /\ IsFiniteSet(Row)
    /\ FILTERS \subseteq SUBSET Status /\ {} \in FILTERS
    /\ PAGE_SIZE \in Nat \ {0} /\ Missing \notin Status

VARIABLES
    status,    \* of every row
    kind,      \* which list it is
    paged,     \* the state of its component
    asking,    \* requests for a page in flight
    changed,   \* history: a row changed since the first page was asked for
    altered, misses   \* bounds
vars == <<status, kind, paged, asking, changed, altered, misses>>

Kind == {"people", "orders", "ordersMini"}

-----------------------------------------------------------------------------
(* What is listed *)

\* parseStatusFilter: nothing named is everything.
Matching(filter) ==
    {r \in Row : status[r] # Missing /\ (filter = {} \/ status[r] \in filter)}

\* orderBy createdAt, the newest first.
newestFirst(rows) ==
    [i \in 1..Cardinality(rows) |->
        CHOOSE r \in rows : Cardinality({newer \in rows : newer > r}) = i - 1]

listAll(filter, page) ==
    LET newest == newestFirst(Matching(filter))
        skip == page * PAGE_SIZE
    IN SubSeq(newest, skip + 1, IF skip + PAGE_SIZE < Len(newest) THEN skip + PAGE_SIZE
                                ELSE Len(newest))

\* A row is created or changes its status: a new one is newer than all.
Alter(r) ==
    /\ altered < MaxAltered /\ altered' = altered + 1
    /\ status[r] = Missing => \A older \in Row : older < r => status[older] # Missing
    /\ \E s \in Status \ {status[r]} : status' = [status EXCEPT ![r] = s]
    /\ changed' = TRUE
    /\ UNCHANGED <<kind, paged, asking, misses>>

\* The page and the total are two queries.
Query(c, part) ==
    /\ c[part] = Missing
    /\ asking' = (asking \ {c}) \cup
         {[c EXCEPT ![part] = IF part = "items" THEN listAll(c.filter, c.page)
                              ELSE Cardinality(Matching(c.filter))]}
    /\ UNCHANGED <<status, kind, paged, changed, altered, misses>>

-----------------------------------------------------------------------------
(* The component *)

Blank == [filter |-> {}, items |-> <<>>, total |-> 0, loading |-> FALSE, error |-> FALSE,
          page |-> -1, lastRequest |-> 0, timer |-> TRUE]

Init ==
    /\ kind \in Kind
    /\ status \in [Row -> Status \cup {Missing}]
    /\ \A r, older \in Row : older < r /\ status[r] # Missing => status[older] # Missing
    /\ paged = Blank /\ asking = {}
    /\ changed = FALSE
    /\ altered = 0 /\ misses = 0

\* usePaged and ModUsersView start over from a timer, if only of no delay; the
\* effect of ModAllOrdersView runs before anything else does.
waits == kind # "ordersMini"
Settled == waits \/ ~paged.timer

loadMore(reset) ==
    LET cleared == IF reset THEN [paged EXCEPT !.page = -1, !.items = <<>>, !.error = FALSE,
                                               !.timer = FALSE]
                   ELSE paged
        id == paged.lastRequest + 1
    IN /\ id <= MaxRequests
       /\ paged' = [cleared EXCEPT !.lastRequest = id, !.loading = TRUE]
       /\ asking' = asking \cup {[id |-> id, filter |-> cleared.filter, page |-> cleared.page + 1,
                                  items |-> Missing, total |-> Missing]}
       /\ UNCHANGED <<status, kind, altered, misses>>

StartOver ==
    /\ paged.timer
    /\ loadMore(TRUE)
    /\ changed' = FALSE

setFilter(f) ==
    /\ Settled /\ f # paged.filter
    /\ paged' = [paged EXCEPT !.filter = f, !.timer = TRUE]
    /\ UNCHANGED <<status, kind, asking, changed, altered, misses>>

\* The button under the list.
More ==
    /\ Settled /\ Len(paged.items) < paged.total /\ ~paged.loading
    /\ loadMore(FALSE)
    /\ UNCHANGED changed

\* Slip: an answer is taken whichever request it is of.
current_any(c) == TRUE
current(c) == c.id = paged.lastRequest

\* ModAllOrdersView does not look who failed, or whose answer ends the loading.
Heeds(c) == current(c) \/ kind = "ordersMini"

Answered(c) ==
    /\ Settled /\ Missing \notin {c.items, c.total}
    /\ asking' = asking \ {c}
    /\ paged' = IF current(c)
                THEN [paged EXCEPT !.items = @ \o c.items, !.total = c.total, !.page = @ + 1,
                                   !.loading = FALSE]
                ELSE [paged EXCEPT !.loading = @ /\ ~Heeds(c)]
    /\ UNCHANGED <<status, kind, changed, altered, misses>>

Missed(c) ==
    /\ Settled /\ misses < MaxMisses /\ misses' = misses + 1
    /\ asking' = asking \ {c}
    /\ paged' = IF Heeds(c) THEN [paged EXCEPT !.error = TRUE, !.loading = FALSE] ELSE paged
    /\ UNCHANGED <<status, kind, changed, altered>>

Next ==
    \/ \E r \in Row : Alter(r)
    \/ \E c \in asking : \/ \E part \in {"items", "total"} : Query(c, part)
                         \/ Answered(c) \/ Missed(c)
    \/ StartOver \/ More
    \/ \E f \in FILTERS : setFilter(f)

Spec == Init /\ [][Next]_vars

-----------------------------------------------------------------------------
\* Once the list has started over for the chosen filter, it shows the pages asked
\* for, each once, in order and of that filter alone, and offers more as long as
\* there is more: a late answer to another filter or to the same page is dropped
\* (usePaged, ModUsersView, ModAllOrdersView: lastRequest). Rows that change while
\* pages are turned shift the offsets: that is accepted.
PagesOfFilter ==
    paged.timer \/ changed \/
        LET newest == newestFirst(Matching(paged.filter))
            shown == (paged.page + 1) * PAGE_SIZE
        IN /\ paged.items = SubSeq(newest, 1, IF shown < Len(newest) THEN shown ELSE Len(newest))
           /\ paged.page >= 0 => paged.total = Len(newest)

\* The comments of usePaged.ts and ModUsersView.tsx: an answer for a filter that
\* has been changed is never mixed in. Refuted: until the timer starts over, it is.
StaleNotMixed ==
    [][\A c \in asking \ asking' : paged.items # paged'.items => c.filter = paged.filter]_vars
=============================================================================
