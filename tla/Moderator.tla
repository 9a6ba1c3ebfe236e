------------------------------ MODULE Moderator ------------------------------
(****************************************************************************)
(* What moderators do in both apps: the queue and its cards (Desk), the     *)
(* decisions on reports (Reports) and the lists of orders and people        *)
(* (Lists). As in Creator, one of the three is in front from the start:     *)
(* each module lets the rest of the system change what it has on its        *)
(* screens.                                                                 *)
(****************************************************************************)
EXTENDS Naturals, FiniteSets

CONSTANTS
    Moderators,
    Item, KindOf, Apps, MaxVer, Start, MaxDone, MaxFaults,           \* of Desk
    Reporter, Object, TargetOf, AuthorOf, User, Concerned, MaxCalls,
    MaxFailed, NoObject,                                             \* of Reports
    Row, Status, FILTERS, PAGE_SIZE, Missing,
    MaxRequests, MaxAltered, MaxMisses                               \* of Lists

VARIABLES
    screen,                                                    \* what is in front
    item, app, tab, want, list, shown, loads, asked, newest, last,
    req, done, faults, decided, journal, told, lost,           \* of Desk
    row, by, up, banned, resolving, calls, failed,
    reportJournal, toldReporters, taken, bannedBy,             \* of Reports
    status, kind, paged, asking, changed, altered, misses      \* of Lists

D == INSTANCE Desk WITH Moderator <- Moderators
R == INSTANCE Reports WITH Moderator <- Moderators, MaxFaults <- MaxFailed,
         req <- resolving, faults <- failed, journal <- reportJournal, told <- toldReporters
L == INSTANCE Lists
deskVars == <<item, app, tab, want, list, shown, loads, asked, newest, last,
              req, done, faults, decided, journal, told, lost>>
reportVars == <<row, by, up, banned, resolving, calls, failed,
                reportJournal, toldReporters, taken, bannedBy>>
listVars == <<status, kind, paged, asking, changed, altered, misses>>
vars == <<screen, deskVars, reportVars, listVars>>

ASSUME ModeratorAssumption ==
    D!DeskAssumption /\ R!ReportsAssumption /\ L!ListsAssumption

\* The tabs of the moderators' part (TabBar); reports are shown with the queue.
Screens == {"queue", "reports", "lists"}

Init ==
    /\ screen \in Screens
    /\ D!Init /\ R!Init /\ L!Init
    \* what is not in front has one state
    /\ screen # "lists" => kind = "people" /\ \A r \in Row : status[r] = Missing
    /\ screen # "queue" =>
          /\ {i \in Item : item[i].at = "queued"} = CHOOSE here \in Start : TRUE
          /\ app = CHOOSE a \in Apps : TRUE

QueueStep(A) == screen = "queue" /\ A /\ UNCHANGED <<screen, reportVars, listVars>>
ReportsStep(A) == screen = "reports" /\ A /\ UNCHANGED <<screen, deskVars, listVars>>
ListsStep(A) == screen = "lists" /\ A /\ UNCHANGED <<screen, deskVars, reportVars>>
Next == QueueStep(D!Next) \/ ReportsStep(R!Next) \/ ListsStep(L!Next)

\* As in Desk and Reports: the server goes on with what it has, nobody must click.
Answers(m) == QueueStep(\E i \in Item : D!Serve(m, i) \/ D!Answer(m, i))
Resolves(m) == ReportsStep(R!Step(m))
Spec == Init /\ [][Next]_vars
        /\ \A m \in Moderators : WF_vars(Answers(m)) /\ WF_vars(Resolves(m))

-----------------------------------------------------------------------------
\* An object waits for one decision and gets one, however old the screens are
\* that two moderators decide on (moderation.controller.ts).
OneDecision == D!OneDecision

\* What is decided about an order is the version on the card (parseVersion).
DecidedAsShown == D!DecidedAsShown

\* A decision is in the journal and people know of it when the moderator has his
\* answer, unless the request broke off (moderator-actions.service.ts).
Announced == D!Announced

\* A button that was pressed comes back to life (Queue.tsx, ModQueueView.tsx: busy).
ButtonsRecover == D!ButtonsRecover

\* A measure is taken only with a report to show for it, and a report marked as
\* acted on has had its measure (reports.service.ts, resolve).
MeasureForReports == R!MeasureForReports

\* A reporter hears of a decision only when it was made on the object he reported,
\* by the moderator who made it (moderation.controller.ts, resolveReports).
ToldOfADecision == R!ToldOfADecision

\* What the journal calls a ban is a ban this moderator made, for reports he has
\* decided (bans.service.ts, resolveReports).
BanJournalTrue == R!BanJournalTrue

\* A moderator does not see again what he has decided (Queue.tsx, done).
DecidedLeavesList == D!DecidedLeavesList

\* A list that has started over for the chosen filter shows the pages asked for, of
\* that filter alone, each once (usePaged.ts, ModUsersView, ModAllOrdersView).
PagesOfFilter == L!PagesOfFilter

\* The comment of ReportsService.resolve: the second moderator "will be refused".
\* Refuted: the second decides what came in since, and everyone who reported before
\* hears of both decisions.
ToldAsDecided == screen = "reports" => R!ToldAsDecided

\* The comment of rate (submissions.service.ts): a review appears "after it is checked".
\* Refuted: what appears may have been written after the moderator looked.
ReviewSeen == D!ReviewSeen

\* The comment of usePaged.ts: the answer for a filter that has been changed is not
\* mixed in. Refuted: until the timer starts the list over, it is.
StaleNotMixed == L!StaleNotMixed
=============================================================================
