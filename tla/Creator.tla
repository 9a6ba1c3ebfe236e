------------------------------- MODULE Creator -------------------------------
(****************************************************************************)
(* The creator's part of both apps: the catalogue (Catalog), the pages of   *)
(* work on one order (Work), the profile (Profile) and the balance          *)
(* (Balance). A screen that is left is unmounted and loses its state and    *)
(* its answers, so the screens meet only in what the server stores; each    *)
(* module lets others change that at any time. What the creator has in      *)
(* front is chosen when the app opens.                                      *)
(****************************************************************************)
EXTENDS Integers, Sequences, FiniteSets

CONSTANTS
    Order, Category, VideoPlatform, CategoryOf, PlatformsOf, PAGE_SIZE, All,
    MaxChanges, MaxLoads, MaxFaults,                                \* of Catalog
    Pool, minViews, Views, MAX_IN_REVIEW, None, MaxRows, MaxEvents,
    MaxVisits,                                                      \* of Work
    Client, MAX_LINKS, MAX_SOCIAL_LINKS, Links, Wallets, StartLinks,
    MaxHand, MaxLost,                                               \* of Profile
    Sub, Earns, CENTS, MIN_PAYOUT, MaxPayouts, MaxMoves, MaxSlips   \* of Balance

VARIABLES
    screen,                                                  \* the tab in front
    open, changes, changedAt, facetsOf, list, calls, faults, \* of Catalog
    order, rows, events, visits, page, net,                  \* of Work
    user, profilePage, call, hand, lost, replaced, beside,         \* of Profile
    accrual, payouts, wallet, stale, balancePage, reading, sending,
    moved, moves, slips                                      \* of Balance

C == INSTANCE Catalog
W == INSTANCE Work
P == INSTANCE Profile WITH screen <- profilePage, faults <- lost,
                           MaxFaults <- MaxLost
B == INSTANCE Balance
catalogVars == <<open, changes, changedAt, facetsOf, list, calls, faults>>
workVars == <<order, rows, events, visits, page, net>>
profileVars == <<user, profilePage, call, hand, lost, replaced, beside>>
balanceVars == <<accrual, payouts, wallet, stale, balancePage, reading, sending,
                 moved, moves, slips>>
vars == <<screen, catalogVars, workVars, profileVars, balanceVars>>

ASSUME CreatorAssumption ==
    C!CatalogAssumption /\ W!WorkAssumption /\ P!ProfileAssumption /\ B!BalanceAssumption

\* The tabs of a creator that are modelled (TabBar, App: routes).
Tabs == {"catalog", "work", "profile", "balance"}

Init ==
    /\ screen \in Tabs
    /\ C!Init /\ W!Init /\ P!Init /\ B!Init
    \* a screen that is not in front has one state
    /\ screen # "catalog" => open = {} /\ list.filter = C!NoFilter
    /\ screen # "work" => order.counts = 0
    /\ screen # "profile" => user.links = <<>> /\ user.wallet = "none"
    /\ screen # "balance" => ~wallet /\ \A v \in Sub : accrual[v] = "HELD"

CatalogStep == screen = "catalog" /\ C!Next
    /\ UNCHANGED <<screen, workVars, profileVars, balanceVars>>
WorkStep == screen = "work" /\ W!Next
    /\ UNCHANGED <<screen, catalogVars, profileVars, balanceVars>>
ProfileStep == screen = "profile" /\ P!Next
    /\ UNCHANGED <<screen, catalogVars, workVars, balanceVars>>
BalanceStep == screen = "balance" /\ B!Next
    /\ UNCHANGED <<screen, catalogVars, workVars, profileVars>>
Next == CatalogStep \/ WorkStep \/ ProfileStep \/ BalanceStep

Spec == Init /\ [][Next]_vars

-----------------------------------------------------------------------------
\* A quiet catalogue shows the chosen filters' orders only, newest first, each
\* once, as long as no page failed (Catalog.tsx load).
OneFilter == C!OneFilter

\* No order that stays open and suits is skipped between two pages of the
\* catalogue (OrdersService.listOpen).
NothingSkipped == C!NothingSkipped

\* A video limited to what is left of the fund was agreed to, for no more than
\* what is kept for it (SubmissionsService.attachVideo, SubmitVideoView).
AgreedAsShown == W!AgreedAsShown

\* What an up-to-date page offers is refused only for what it cannot show
\* (OrderDetailView, SubmissionCard, SubmitVideoView).
RefusedForCause == W!RefusedForCause

\* Only an answer older than the claim makes the page forget the slot
\* (OrderPage refresh).
ForgottenOnlyByOverlap == W!ForgottenOnlyByOverlap

\* A quiet profile screen shows what is stored, unless something crossed since its
\* last read that was alone (Profile.tsx, ProfileView.tsx).
QuietShowsStored == P!QuietShowsStored

\* What is typed about the links goes away only with a save, by hand or when the
\* row is read again (ProfileView.tsx load).
EditsLostOnlyToReading == P!EditsLostOnlyToReading

\* A chip of the catalogue that is offered finds an order (openFacets).
ChipsFind == C!ChipsFind

\* As long as nothing changed, the form of the balance lets through exactly what
\* the server accepts (BalanceView withdraw, PayoutsService.requestPayout).
OffersWhatIsLeft == screen = "balance" => B!OffersWhatIsLeft

\* Catalog.tsx reads the list anew for a new filter, so that only its orders are on
\* the screen. Refuted: after a page that failed to load they are mixed.
AlwaysOneFilter == C!AlwaysOneFilter

\* ru.json, "we will keep the rest for you". Refuted: only the threshold is kept
\* when the fund is free again by the time of the answer.
AgreedHeld == W!AgreedHeld

\* ProfileView.tsx, "saved too, rather than lost in silence". Refuted in the
\* mini-app: a profile read again replaces the links that are being edited.
EditsKept == P!EditsKept

\* schema.prisma, walletChangedAt: a wallet that is replaced is marked as changed.
\* Refuted: two saves of the wallet, both of which have seen none.
AlwaysMarked == P!AlwaysMarked
=============================================================================
