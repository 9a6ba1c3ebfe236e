------------------------------- MODULE Reports -------------------------------
(***************************************************************************)
(* Reports and what moderators decide on them                              *)
(* (src/src/reports, resolveReports, banUser and unban of                  *)
(* src/src/moderation/bans.service.ts, and the endpoints around them).     *)
(*                                                                         *)
(* A decision is one request of many steps: it reads the author, marks the *)
(* reports and takes the measure in one transaction, bans the author in    *)
(* another, writes the journal and tells the reporters.  Two moderators    *)
(* decide at once, new reports come in between, and any step may fail.     *)
(***************************************************************************)
EXTENDS Naturals, FiniteSets

CONSTANTS
    Reporter,
    Object,      \* what can be reported
    TargetOf,    \* [Object -> Target]
    AuthorOf,    \* [Object -> User]: who is banned for it
    User,
    Concerned,   \* <<reporter, object>>: took a slot on the order, ordered the
                 \* video, was given the review, may see the profile
    Moderator,
    MaxCalls,    \* bound: requests of moderators in all
    MaxFaults,   \* bound: steps that fail, processes that die
    NoObject

Target == {"ORDER", "VIDEO", "REVIEW", "PROFILE"}

\* What the constants must be; assumed by Moderator.
ReportsAssumption ==
    /\ TargetOf \in [Object -> Target] /\ AuthorOf \in [Object -> User]
    /\ Concerned \subseteq Reporter \X Object
    /\ NoObject \notin Object \cup User
    /\ MaxCalls \in Nat /\ MaxFaults \in Nat

VARIABLES
    row,       \* the report of a reporter on an object; one at most
    by,        \* who decided it
    up,        \* objects no measure has been taken on
    banned,    \* users
    req,       \* the request each moderator has sent
    calls,
    faults,
    journal,   \* ModeratorAction rows
    told,      \* messages queued for reporters
    taken,     \* history: measures, by moderator and object
    bannedBy   \* history: bans that were committed, by moderator and user

vars == <<row, by, up, banned, req, calls, faults, journal, told, taken, bannedBy>>

Report == Reporter \X Object
On(o) == Reporter \X {o}
Open(ks) == {k \in ks : row[k] = "OPEN"}

\* on: the object, or the user of a ban by hand; toBan, seen, marked: what the
\* steps have read and written; closed: the takedown closed the order.
Idle == [op |-> "none", on |-> NoObject, actioned |-> FALSE, ban |-> FALSE, at |-> "idle",
         toBan |-> NoObject, seen |-> {}, marked |-> {}, closed |-> FALSE, didBan |-> FALSE]

At(m, at) == req[m].at = at
Goes(m, at) == req' = [req EXCEPT ![m].at = at]
Over(m) == req' = [req EXCEPT ![m] = Idle]

decision(m) == IF req[m].actioned THEN "ACTIONED" ELSE "DISMISSED"

-----------------------------------------------------------------------------
(* Reporters *)

\* An order of the catalogue everybody sees, the rest those it concerns; a review
\* only when it is published.
describeIfVisible(r, o) ==
    /\ r # AuthorOf[o]
    /\ <<r, o>> \in Concerned \/ (TargetOf[o] = "ORDER" /\ o \in up)
    /\ TargetOf[o] = "REVIEW" => o \in up

\* A second report of the same object is refused by the unique index, also when
\* the first was decided.
create(r, o) ==
    /\ describeIfVisible(r, o)
    /\ row[<<r, o>>] = "NONE"
    /\ row' = [row EXCEPT ![<<r, o>>] = "OPEN"]
    /\ UNCHANGED <<by, up, banned, req, calls, faults, journal, told, taken, bannedBy>>

\* The links are filled in again, the video is rated again and the text passes.
Restore(o) ==
    /\ o \notin up
    /\ TargetOf[o] \in {"REVIEW", "PROFILE"}
    /\ up' = up \cup {o}
    /\ UNCHANGED <<row, by, banned, req, calls, faults, journal, told, taken, bannedBy>>

-----------------------------------------------------------------------------
(* POST /api/mod/reports/resolve *)

Begins(m, request) ==
    /\ req[m] = Idle
    /\ calls < MaxCalls
    /\ calls' = calls + 1
    /\ req' = [req EXCEPT ![m] = request]
    /\ UNCHANGED <<row, by, up, banned, faults, journal, told, taken, bannedBy>>

\* A ban always comes with the measure.
parseReportDecision(o, actioned, ban) ==
    [Idle EXCEPT !.op = "resolve", !.on = o, !.at = "author", !.actioned = actioned \/ ban,
                 !.ban = ban]

\* The screen listed the group once; it may be old.
Resolve(m, o, actioned, ban) ==
    /\ \E k \in On(o) : row[k] # "NONE"
    /\ Begins(m, parseReportDecision(o, actioned, ban))

\* authorOf, mustNotBeModerator: the author as he is now.
ReadAuthor(m) ==
    LET author == AuthorOf[req[m].on] IN
    /\ At(m, "author")
    /\ req' = [req EXCEPT ![m].at = "find",
            ![m].toBan = IF req[m].ban /\ author \notin banned THEN author ELSE NoObject]
    /\ UNCHANGED <<row, by, up, banned, calls, faults, journal, told, taken, bannedBy>>

FindReports(m) ==
    /\ At(m, "find")
    /\ req' = [req EXCEPT ![m].at = "mark", ![m].seen = Open(On(req[m].on))]
    /\ UNCHANGED <<row, by, up, banned, calls, faults, journal, told, taken, bannedBy>>

Locked(m) == UNION {req[n].marked : n \in Moderator \ {m}}

stillOpen(m) == Open(req[m].seen)

\* updateMany waits for reports another transaction has marked.
MarkReports(m) ==
    /\ At(m, "mark")
    /\ req[m].seen \cap Locked(m) = {}
    /\ stillOpen(m) # {}
    /\ req' = [req EXCEPT ![m].at = "measure", ![m].marked = stillOpen(m)]
    /\ UNCHANGED <<row, by, up, banned, calls, faults, journal, told, taken, bannedBy>>

\* Slip: the measure is taken though another moderator has decided.
AlreadyResolved_measured(m) ==
    /\ At(m, "mark")
    /\ req[m].seen \cap Locked(m) = {}
    /\ stillOpen(m) = {}
    /\ Goes(m, "measure")
    /\ UNCHANGED <<row, by, up, banned, calls, faults, journal, told, taken, bannedBy>>

AlreadyResolved(m) ==
    /\ At(m, "mark")
    /\ req[m].seen \cap Locked(m) = {}
    /\ stillOpen(m) = {}
    /\ Over(m)
    /\ UNCHANGED <<row, by, up, banned, calls, faults, journal, told, taken, bannedBy>>

\* resolveIn after the marks, and the commit: an order is closed if it is open,
\* a video leaves the portfolio, a review and the links of a profile are cleared.
Measure(m) ==
    LET o == req[m].on
        takes == req[m].actioned
    IN
    /\ At(m, "measure")
    /\ row' = [k \in Report |-> IF k \in req[m].marked THEN decision(m) ELSE row[k]]
    /\ by' = [k \in Report |-> IF k \in req[m].marked THEN m ELSE by[k]]
    /\ up' = IF takes THEN up \ {o} ELSE up
    /\ taken' = IF takes THEN taken \cup {<<m, o>>} ELSE taken
    /\ req' = [req EXCEPT ![m].marked = {}, ![m].closed = takes /\ o \in up,
                          ![m].at = IF req[m].toBan = NoObject THEN "log" ELSE "ban"]
    /\ UNCHANGED <<banned, calls, faults, journal, told, bannedBy>>

\* A transaction of its own; if another moderator was faster, that is enough.
BanAuthor(m) ==
    LET u == req[m].toBan IN
    /\ At(m, "ban") /\ req[m].op = "resolve"
    /\ req' = [req EXCEPT ![m].at = "log", ![m].didBan = u \notin banned]
    /\ banned' = banned \cup {u}
    /\ bannedBy' = IF u \in banned THEN bannedBy ELSE bannedBy \cup {<<m, u>>}
    /\ UNCHANGED <<row, by, up, calls, faults, journal, told, taken>>

Line(m, type, on) == [by |-> m, type |-> type, on |-> on]

Log(m) ==
    /\ At(m, "log") /\ req[m].op = "resolve"
    /\ journal' = journal \cup
            {Line(m, IF req[m].actioned THEN "REPORT_ACTION" ELSE "REPORT_DISMISS", req[m].on)}
    /\ Goes(m, IF req[m].didBan THEN "logBan" ELSE "tell")
    /\ UNCHANGED <<row, by, up, banned, calls, faults, told, taken, bannedBy>>

LogBan(m) ==
    /\ At(m, "logBan")
    /\ journal' = journal \cup {Line(m, "USER_BAN", req[m].toBan)}
    /\ Goes(m, "tell")
    /\ UNCHANGED <<row, by, up, banned, calls, faults, told, taken, bannedBy>>

\* Slip: everybody who ever reported the object is told.
reporters_all(m) == {k \in On(req[m].on) : row[k] # "NONE"}

\* Those of the reports found, not of those marked.
reporters(m) == req[m].seen

\* Not awaited: the answer is given, the messages are queued behind it.
Tell(m) ==
    /\ At(m, "tell")
    /\ told' = told \cup
            {[to |-> k, by |-> m, what |-> decision(m)] : k \in reporters(m)}
    /\ Over(m)
    /\ UNCHANGED <<row, by, up, banned, calls, faults, journal, taken, bannedBy>>

-----------------------------------------------------------------------------
(* POST /api/mod/users/:id/ban and /unban *)

Ban(m, u) == Begins(m, [Idle EXCEPT !.op = "ban", !.on = u, !.at = "ban"])

Unban(m, u) == Begins(m, [Idle EXCEPT !.op = "unban", !.on = u, !.at = "ban"])

\* Refused if nothing changes.
BanUser(m) ==
    LET u == req[m].on IN
    /\ At(m, "ban") /\ req[m].op = "ban"
    /\ IF u \in banned THEN Over(m) ELSE Goes(m, "log")
    /\ banned' = banned \cup {u}
    /\ bannedBy' = IF u \in banned THEN bannedBy ELSE bannedBy \cup {<<m, u>>}
    /\ UNCHANGED <<row, by, up, calls, faults, journal, told, taken>>

UnbanUser(m) ==
    LET u == req[m].on IN
    /\ At(m, "ban") /\ req[m].op = "unban"
    /\ IF u \in banned THEN Goes(m, "log") ELSE Over(m)
    /\ banned' = banned \ {u}
    /\ UNCHANGED <<row, by, up, calls, faults, journal, told, taken, bannedBy>>

LogUser(m) ==
    /\ At(m, "log") /\ req[m].op \in {"ban", "unban"}
    /\ journal' = journal \cup
            {Line(m, IF req[m].op = "ban" THEN "USER_BAN" ELSE "USER_UNBAN", req[m].on)}
    /\ Over(m)
    /\ UNCHANGED <<row, by, up, banned, calls, faults, told, taken, bannedBy>>

-----------------------------------------------------------------------------

\* A query fails or the process dies: the open transaction is rolled back, the
\* moderator sees an error, what was committed stays.
Fail(m) ==
    /\ req[m] # Idle
    /\ faults < MaxFaults
    /\ faults' = faults + 1
    /\ Over(m)
    /\ UNCHANGED <<row, by, up, banned, calls, journal, told, taken, bannedBy>>

Init ==
    /\ row = [k \in Report |-> "NONE"]
    /\ by = [k \in Report |-> NoObject]
    /\ up = Object
    /\ banned = {}
    /\ req = [m \in Moderator |-> Idle]
    /\ calls = 0 /\ faults = 0
    /\ journal = {} /\ told = {} /\ taken = {} /\ bannedBy = {}

Step(m) ==
    \/ ReadAuthor(m) \/ FindReports(m) \/ MarkReports(m) \/ AlreadyResolved(m)
    \/ Measure(m) \/ BanAuthor(m) \/ Log(m) \/ LogBan(m) \/ Tell(m)
    \/ BanUser(m) \/ UnbanUser(m) \/ LogUser(m)

Next ==
    \/ \E r \in Reporter, o \in Object : create(r, o)
    \/ \E o \in Object : Restore(o)
    \/ \E m \in Moderator :
        \/ Step(m) \/ Fail(m)
        \/ \E o \in Object, actioned, ban \in BOOLEAN : Resolve(m, o, actioned, ban)
        \/ \E u \in User : Ban(m, u) \/ Unban(m, u)

\* The server goes on with a request it has; people need do nothing.
Spec == Init /\ [][Next]_vars /\ \A m \in Moderator : WF_vars(Step(m))

-----------------------------------------------------------------------------
(* Properties *)

TypeOK ==
    /\ row \in [Report -> {"NONE", "OPEN", "ACTIONED", "DISMISSED"}]
    /\ by \in [Report -> Moderator \cup {NoObject}]
    /\ up \subseteq Object /\ banned \subseteq User
    /\ calls \in 0..MaxCalls /\ faults \in 0..MaxFaults
    /\ \A m \in Moderator : req[m].marked \subseteq req[m].seen

\* A measure is taken only with a report to show for it, and a report marked as
\* acted on has had its measure: the two are one transaction, whatever fails
\* (reports.service.ts, resolve).
MeasureForReports ==
    /\ \A t \in taken : \E k \in On(t[2]) : row[k] = "ACTIONED" /\ by[k] = t[1]
    /\ \A k \in Report : row[k] = "ACTIONED" => <<by[k], k[2]>> \in taken

\* A reporter hears of a decision only when it was made on the object he
\* reported, by the moderator who made it; the report itself is decided by then
\* (moderation.controller.ts, resolveReports).
ToldOfADecision ==
    \A t \in told :
        /\ row[t.to] \in {"ACTIONED", "DISMISSED"}
        /\ \E k \in On(t.to[2]) : by[k] = t.by /\ row[k] = t.what

\* What the journal calls a ban is a ban this moderator made, and one made for a
\* report comes with a measure (bans.service.ts, resolveReports).
BanJournalTrue ==
    /\ \A l \in journal : l.type = "USER_BAN" => <<l.by, l.on>> \in bannedBy
    /\ \A m \in Moderator : req[m].op = "resolve" /\ req[m].didBan =>
            <<m, req[m].on>> \in taken

\* "The second moderator will be refused" (reports.service.ts): nobody hears the
\* opposite of what was decided on his report.
ToldAsDecided == \A t \in told : row[t.to] = t.what

=============================================================================
