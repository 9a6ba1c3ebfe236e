-------------------------------- MODULE Bans --------------------------------
(***************************************************************************)
(* A ban and the requests it runs beside, statement by statement           *)
(* (src/src/moderation/bans.service.ts, and the transactions of            *)
(* src/src/orders and src/src/submissions that touch the same rows).       *)
(*                                                                         *)
(* PostgreSQL runs these transactions at READ COMMITTED: a statement sees  *)
(* what is committed and what its own transaction wrote.  A written row    *)
(* stays locked until the end of the transaction; a statement waits for    *)
(* the rows it wants to write and then looks at them again, but not at     *)
(* rows that have come to match meanwhile.  Transactions that wait for     *)
(* each other are found, and one of them is rolled back.                   *)
(*                                                                         *)
(* The fund of an order is reduced to one reserve: a video on review takes *)
(* all of it (the fund is busy), a rejected one gives it back.             *)
(***************************************************************************)
EXTENDS Integers, FiniteSets

CONSTANTS
    User,
    Order,       \* numbers: a ban locks orders in ascending order
    Sub,         \* submission rows
    OwnerOf,     \* the advertiser of an order
    OrderOf,     \* the order of a submission
    CreatorOf,   \* the creator of a submission
    Tx,          \* requests at work at one time
    StartOrder,  \* statuses orders may have to begin with
    StartSub,    \* statuses submissions may have to begin with
    MaxCalls     \* bound: requests in all

Row == User \cup Order \cup Sub

OrderStatus == {"NEW", "PENDING_MODERATION", "OPEN", "EDIT_REJECTED", "REJECTED", "CLOSED"}
SubStatus == {"NONE", "IN_PROGRESS", "SUBMITTED", "MODERATOR_REJECTED", "SLOT_EXPIRED",
              "DELETED"}

ASSUME BansAssumption ==
    /\ Order \subseteq Nat
    /\ OwnerOf \in [Order -> User]
    /\ OrderOf \in [Sub -> Order] /\ CreatorOf \in [Sub -> User]
    /\ \A s \in Sub : OwnerOf[OrderOf[s]] # CreatorOf[s]
    /\ User \cap Order = {} /\ User \cap Sub = {} /\ Order \cap Sub = {}
    /\ StartOrder \subseteq OrderStatus /\ StartSub \subseteq SubStatus
    /\ MaxCalls \in Nat

VARIABLES
    db,       \* committed rows
    mine,     \* what each transaction has written or locked, not committed
    call,     \* the requests
    calls,    \* requests begun so far
    slipped   \* history: rows another request put in force behind the back of
              \* the ban of their author

vars == <<db, mine, call, calls, slipped>>

FROZEN == {"PENDING_MODERATION", "EDIT_REJECTED"}
LIVE == FROZEN \cup {"OPEN"}
ACCEPTS_VIDEOS == {"OPEN", "CLOSED"}

UserRow == [banned : BOOLEAN, final : BOOLEAN]
\* published: the order has a rate; byBan: history, a ban closed it.
OrderRow == [status : OrderStatus, published : BOOLEAN, busy : BOOLEAN, byBan : BOOLEAN]
SubRow == [status : SubStatus]

Ops == {"ban", "tighten", "unban", "create", "update", "moderatorApprove",
        "moderatorClose", "claim", "attachVideo", "moderatorReject"}

\* on: the row the request is about; at: the statement it comes to; open, pending
\* and todo: what a ban has read and has still to go through; reserved: the
\* orders it locked; waiting: the rows a waiting statement found.
Idle == [op |-> "none", on |-> 0, at |-> "idle", open |-> {}, pending |-> {},
         reserved |-> {}, todo |-> {}, waiting |-> {}, forUpdate |-> {}]

\* Rows laid over others.
Upon(new, old) ==
    [r \in DOMAIN new \cup DOMAIN old |-> IF r \in DOMAIN new THEN new[r] ELSE old[r]]

View(t) == Upon(mine[t], db)

Of(c) == {s \in Sub : CreatorOf[s] = c}
In(os) == {s \in Sub : OrderOf[s] \in os}

isFrozen(row) == row.published /\ row.status \in FROZEN

\* One video on review takes all that is free.
FundBusy(v, o) ==
    /\ v[o].status \in ACCEPTS_VIDEOS
    /\ \E s \in In({o}) : v[s].status = "SUBMITTED"

Slots(v, o) == {s \in In({o}) : v[s].status = "IN_PROGRESS"}

Lowest(os) == CHOOSE o \in os : \A p \in os : o <= p

-----------------------------------------------------------------------------
(* Statements *)

At(t, op, at) == call[t].op = op /\ call[t].at = at

\* syncFundBusy: the order, and the slots whose pause ends.
SyncRows(v, o) ==
    IF v[o].busy /\ ~FundBusy(v, o) THEN {o} \cup Slots(v, o) ELSE {o}

\* Slots that move in time with their order: the pause of a busy fund ends with
\* the edit, the freeze with its approval.
MovedSlots(v, op, o) ==
    IF \/ op = "update" /\ v[o].status = "OPEN" /\ v[o].busy
       \/ op = "moderatorApprove" /\ isFrozen(v[o])
    THEN Slots(v, o) ELSE {}

\* The rows the next statement of a transaction would write or lock.
Where(t) ==
    LET c == call[t]
        v == View(t)
        order == IF c.on \in Sub THEN OrderOf[c.on] ELSE c.on
    IN CASE c.at = "user"   -> {u \in {c.on} : ~v[u].banned}
         [] c.at = "close"  -> {o \in c.open : v[o].status = "OPEN"}
         [] c.at = "remove" -> {o \in c.pending : v[o].status \in FROZEN}
         [] c.at = "slots"  -> {s \in In(c.open \cup c.pending) :
                                    v[s].status = "IN_PROGRESS"}
         [] c.at = "videos" -> {s \in In(c.pending) : v[s].status = "SUBMITTED"}
         [] c.at = "delete" -> {s \in Of(c.on) : v[s].status = "IN_PROGRESS"}
         [] c.at = "lock"   -> {Lowest(c.todo)}
         [] c.at = "own"    -> {s \in Of(c.on) : v[s].status = "SUBMITTED"}
         [] c.at = "freed"  -> SyncRows(v, Lowest(c.todo))
         [] c.at = "order"  -> {order}
         [] c.at = "write"  -> {c.on} \cup MovedSlots(v, c.op, c.on)
         [] c.at = "sync"   -> SyncRows(v, order)
         [] OTHER           -> {}

Locked(t) == DOMAIN mine[t]

\* What a statement finds: all that matches, or of what it waited for the rows
\* that still do.
Found(t) ==
    IF call[t].waiting = {} THEN Where(t) ELSE call[t].waiting \cap Where(t)

BlockedBy(t) == {u \in Tx \ {t} : Found(t) \cap Locked(u) # {}}

\* A row is taken: the statement has its list of rows and waits.
Wait(t) ==
    /\ call[t].waiting = {}
    /\ BlockedBy(t) # {}
    /\ call' = [call EXCEPT ![t].waiting = Where(t)]
    /\ UNCHANGED <<db, mine, calls, slipped>>

\* The statement writes value(row) into every row it finds.
Write(t, value(_)) ==
    /\ BlockedBy(t) = {}
    /\ mine' = [mine EXCEPT ![t] = Upon([r \in Found(t) |-> value(View(t)[r])], @)]
    /\ UNCHANGED <<db, calls, slipped>>

Goes(t, at) == call' = [call EXCEPT ![t].at = at, ![t].waiting = {}]

Over(t) == call' = [call EXCEPT ![t] = Idle]

Nothing == [r \in {} |-> 0]

\* The ban of u has got past a statement: it has read its rows, or found them and
\* waits for them; or it is committed.
BanPast(u, earlier, statement) ==
    \/ db[u].banned
    \/ \E t \in Tx :
        /\ call[t].op = "ban" /\ call[t].on = u
        /\ call[t].at \notin earlier
        /\ call[t].at = statement => call[t].waiting # {}

Commit(t, slips) ==
    /\ db' = View(t)
    /\ mine' = [mine EXCEPT ![t] = Nothing]
    /\ Over(t)
    /\ slipped' = slipped \cup slips
    /\ UNCHANGED calls

Rollback(t) ==
    /\ mine' = [mine EXCEPT ![t] = Nothing]
    /\ Over(t)
    /\ UNCHANGED <<db, calls, slipped>>

\* Each waits for the next, and the last for the first.
Circle(p, n) == \A i \in 1..n : p[IF i = n THEN 1 ELSE i + 1] \in BlockedBy(p[i])

InCycle(t) ==
    \E n \in 1..Cardinality(Tx) : \E p \in [1..n -> Tx] : p[1] = t /\ Circle(p, n)

\* PostgreSQL finds transactions that wait for each other and ends one.
AbortDeadlocked(t) ==
    /\ InCycle(t)
    /\ Rollback(t)

-----------------------------------------------------------------------------
(* The ban *)

Begins(t, op, on, at) ==
    /\ call[t].op = "none"
    /\ calls < MaxCalls
    /\ calls' = calls + 1
    /\ call' = [call EXCEPT ![t] = [Idle EXCEPT !.op = op, !.on = on, !.at = at]]
    /\ UNCHANGED <<db, mine, slipped>>

\* banUser: the user is read; a ban of somebody banned can only be made final.
Ban(t, u, final) ==
    Begins(t, IF db[u].banned /\ final THEN "tighten" ELSE "ban", u,
           IF db[u].banned /\ final THEN "write" ELSE "user")

BanUser(t) ==
    /\ At(t, "ban", "user")
    /\ Found(t) # {}
    /\ Write(t, LAMBDA row : [row EXCEPT !.banned = TRUE])
    /\ Goes(t, "open")

\* Banned already, by another moderator.
BanRefused(t) ==
    /\ At(t, "ban", "user")
    /\ Found(t) = {}
    /\ Rollback(t)

BanReadsOpen(t) ==
    /\ At(t, "ban", "open")
    /\ call' = [call EXCEPT ![t].at = "pending",
            ![t].open = {o \in Order : OwnerOf[o] = call[t].on /\ View(t)[o].status = "OPEN"}]
    /\ UNCHANGED <<db, mine, calls, slipped>>

\* Slip: an order whose edit was rejected is forgotten.
pendingStatuses_queue == {"PENDING_MODERATION"}

pendingStatuses == FROZEN

BanReadsPending(t) ==
    /\ At(t, "ban", "pending")
    /\ call' = [call EXCEPT ![t].at = "close",
            ![t].pending = {o \in Order : OwnerOf[o] = call[t].on
                                    /\ View(t)[o].status \in pendingStatuses}]
    /\ UNCHANGED <<db, mine, calls, slipped>>

CloseOpenOrders(t) ==
    /\ At(t, "ban", "close")
    /\ Write(t, LAMBDA row : [row EXCEPT !.status = "CLOSED", !.byBan = TRUE])
    /\ Goes(t, "remove")

RejectPendingOrders(t) ==
    /\ At(t, "ban", "remove")
    /\ Write(t, LAMBDA row : [row EXCEPT !.status = "REJECTED", !.byBan = TRUE])
    /\ Goes(t, "slots")

\* Also when a moderator takes an order down.
ExpireSlots(t) ==
    /\ call[t].at = "slots"
    /\ Write(t, LAMBDA row : [row EXCEPT !.status = "SLOT_EXPIRED"])
    /\ Goes(t, IF call[t].op = "ban" THEN "videos" ELSE "commit")

rejected(row) == [row EXCEPT !.status = "MODERATOR_REJECTED"]

RejectSubmitted(t) ==
    /\ At(t, "ban", "videos")
    /\ Write(t, rejected)
    /\ Goes(t, "delete")

DeleteInProgress(t) ==
    /\ At(t, "ban", "delete")
    /\ Write(t, LAMBDA row : [row EXCEPT !.status = "DELETED"])
    /\ Goes(t, "reserved")

BanReadsReserved(t) ==
    LET reserved == {OrderOf[s] : s \in {x \in Of(call[t].on) :
                                            View(t)[x].status = "SUBMITTED"}}
    IN
    /\ At(t, "ban", "reserved")
    /\ call' = [call EXCEPT ![t].at = IF reserved = {} THEN "own" ELSE "lock",
                            ![t].reserved = reserved, ![t].todo = reserved]
    /\ UNCHANGED <<db, mine, calls, slipped>>

\* lockOrder: SELECT ... FOR UPDATE.
BanLocksOrder(t) ==
    LET rest == call[t].todo \ {Lowest(call[t].todo)} IN
    /\ At(t, "ban", "lock")
    /\ Write(t, LAMBDA row : row)
    /\ call' = [call EXCEPT ![t].at = IF rest = {} THEN "own" ELSE "lock",
                            ![t].todo = rest, ![t].waiting = {},
                            ![t].forUpdate = call[t].reserved \ rest]

RejectOwn(t) ==
    /\ At(t, "ban", "own")
    /\ Write(t, rejected)
    /\ call' = [call EXCEPT ![t].at = IF call[t].reserved = {} THEN "commit" ELSE "freed",
                            ![t].todo = call[t].reserved, ![t].waiting = {}]

\* What syncFundBusy writes; a slot is only moved in time.
synced(row, busy) ==
    IF "busy" \in DOMAIN row THEN [row EXCEPT !.busy = busy] ELSE row

FreedOrder(t) ==
    LET o == Lowest(call[t].todo)
        rest == call[t].todo \ {o}
    IN
    /\ At(t, "ban", "freed")
    /\ Write(t, LAMBDA row : synced(row, FundBusy(View(t), o)))
    /\ call' = [call EXCEPT ![t].at = IF rest = {} THEN "commit" ELSE "freed",
                            ![t].todo = rest, ![t].waiting = {}]

BanCommits(t) == At(t, "ban", "commit") /\ Commit(t, {})

\* An ordinary ban is made final; one final already is refused.
Tighten(t) ==
    /\ At(t, "tighten", "write")
    /\ BlockedBy(t) = {}
    /\ db' = [db EXCEPT ![call[t].on].final = @ \/ db[call[t].on].banned]
    /\ Over(t)
    /\ UNCHANGED <<mine, calls, slipped>>

\* One statement outside any transaction of ours.
Unban(t, u) ==
    /\ call[t].op = "none"
    /\ calls < MaxCalls
    /\ calls' = calls + 1
    /\ \A x \in Tx : u \notin Locked(x)
    /\ db' = [db EXCEPT ![u] = [banned |-> FALSE, final |-> FALSE]]
    /\ UNCHANGED <<mine, call, slipped>>

-----------------------------------------------------------------------------
(* The requests beside it: the guard of the request has found its user free *)

BeginCreate(t, o) ==
    /\ ~db[OwnerOf[o]].banned
    /\ db[o].status = "NEW"
    /\ \A x \in Tx : call[x].op = "create" => call[x].on # o
    /\ Begins(t, "create", o, "insert")

\* The limit of active orders was looked at; the row is inserted.
Create(t) ==
    LET o == call[t].on IN
    /\ At(t, "create", "insert")
    /\ db' = [db EXCEPT ![o].status = "PENDING_MODERATION"]
    /\ Over(t)
    /\ slipped' = IF BanPast(OwnerOf[o], {"user", "open"}, "pending")
                  THEN slipped \cup {o} ELSE slipped
    /\ UNCHANGED <<mine, calls>>

BeginUpdate(t, o) ==
    /\ ~db[OwnerOf[o]].banned
    /\ db[o].status # "NEW"
    /\ Begins(t, "update", o, "order")

BeginApprove(t, o) ==
    /\ db[o].status = "PENDING_MODERATION"
    /\ Begins(t, "moderatorApprove", o, "order")

\* The takedown of a reported order.
BeginClose(t, o) ==
    /\ db[o].status # "NEW"
    /\ Begins(t, "moderatorClose", o, "order")

\* Slip: the video is written before the order is locked.
firstLock_late(op) == IF op = "attachVideo" THEN "write" ELSE "order"

\* Whatever moves the money of an order locks the order first.
firstLock(op) == "order"

\* An attempt finds the slot in progress on an order that takes videos.
BeginAttach(t, s) ==
    LET row == db[OrderOf[s]] IN
    /\ ~db[CreatorOf[s]].banned
    /\ db[s].status = "IN_PROGRESS"
    /\ row.status # "REJECTED" /\ ~isFrozen(row)
    /\ Begins(t, "attachVideo", s, firstLock("attachVideo"))

BeginReject(t, s) ==
    /\ db[s].status = "SUBMITTED"
    /\ Begins(t, "moderatorReject", s, firstLock("moderatorReject"))

BeginClaim(t, s) ==
    /\ ~db[CreatorOf[s]].banned
    /\ db[OrderOf[s]].status = "OPEN" /\ ~FundBusy(db, OrderOf[s])
    /\ \A x \in Tx : call[x].op = "claim" => call[x].on # s
    /\ db[s].status = "NONE"
    /\ Begins(t, "claim", s, "insert")

BeforeSlots == {"user", "open", "pending", "close", "remove"}

\* The foreign key waits for an order locked FOR UPDATE, not for one being
\* updated; the unique index lets a creator have one slot on an order.
Claim(t) ==
    LET s == call[t].on IN
    /\ At(t, "claim", "insert")
    /\ \A x \in Tx : OrderOf[s] \notin call[x].forUpdate
    /\ \A x \in Slots(db, OrderOf[s]) : CreatorOf[x] # CreatorOf[s]
    /\ db' = [db EXCEPT ![s].status = "IN_PROGRESS"]
    /\ Over(t)
    /\ slipped' = IF \/ BanPast(CreatorOf[s], BeforeSlots \cup {"slots", "videos"}, "delete")
                     \/ BanPast(OwnerOf[OrderOf[s]], BeforeSlots, "slots")
                     \/ db[OrderOf[s]].byBan
                  THEN slipped \cup {s} ELSE slipped
    /\ UNCHANGED <<mine, calls>>

\* A second slot in progress: the unique index refuses it.
ClaimRefused(t) ==
    LET s == call[t].on IN
    /\ At(t, "claim", "insert")
    /\ \E x \in Slots(db, OrderOf[s]) : CreatorOf[x] = CreatorOf[s]
    /\ Rollback(t)

LockOrder(t) ==
    /\ call[t].at = "order"
    /\ Write(t, LAMBDA row : row)
    /\ call' = [call EXCEPT ![t].at = "write", ![t].waiting = {},
                            ![t].forUpdate = Found(t)]

\* What the conditional update of each request asks of the rows under the lock.
Allowed(t) ==
    LET c == call[t]
        v == View(t)
    IN \/ c.op = "update" /\ v[c.on].status \in LIVE
       \/ c.op = "moderatorApprove" /\ v[c.on].status = "PENDING_MODERATION"
       \/ c.op = "moderatorClose" /\ v[c.on].status = "OPEN"
       \/ /\ c.op = "attachVideo"
          /\ ~FundBusy(v, OrderOf[c.on])
          /\ v[c.on].status = "IN_PROGRESS" /\ v[OrderOf[c.on]].status \in ACCEPTS_VIDEOS
       \/ c.op = "moderatorReject" /\ v[c.on].status = "SUBMITTED"

written(op, row) ==
    IF "busy" \notin DOMAIN row /\ op \in {"update", "moderatorApprove"} THEN row
    ELSE CASE op = "update" -> [row EXCEPT !.status = "PENDING_MODERATION", !.busy = FALSE]
           [] op = "moderatorApprove" -> [row EXCEPT !.status = "OPEN", !.published = TRUE]
           [] op = "moderatorClose" -> [row EXCEPT !.status = "CLOSED"]
           [] op = "attachVideo" -> [row EXCEPT !.status = "SUBMITTED"]
           [] op = "moderatorReject" -> rejected(row)

Transition(t) ==
    LET op == call[t].op IN
    /\ call[t].at = "write" /\ op # "tighten"
    /\ Allowed(t)
    /\ Write(t, LAMBDA row : written(op, row))
    /\ call' = [call EXCEPT ![t].waiting = {},
                ![t].at = CASE op = "update" -> "commit"
                            [] op = "moderatorClose" -> "slots"
                            [] OTHER -> "sync",
                ![t].open = IF op = "moderatorClose" THEN {call[t].on} ELSE {}]

Refused(t) ==
    /\ call[t].at = "write" /\ call[t].op # "tighten"
    /\ BlockedBy(t) = {}
    /\ ~Allowed(t)
    /\ Rollback(t)

SyncFundBusy(t) ==
    LET c == call[t]
        o == IF c.on \in Sub THEN OrderOf[c.on] ELSE c.on
    IN
    /\ c.at = "sync"
    /\ Write(t, LAMBDA row : synced(row, FundBusy(View(t), o)))
    /\ Goes(t, "commit")

\* An order that comes into force while its author is being banned slips through.
Commits(t) ==
    LET c == call[t] IN
    /\ c.at = "commit" /\ c.op # "ban"
    /\ Commit(t, IF c.on \in Order /\ BanPast(OwnerOf[c.on], {"user"}, "open")
                 THEN {c.on} ELSE {})

-----------------------------------------------------------------------------

\* A state the program can be in: slots and videos only on published orders.
Plausible(rows) ==
    /\ \A o \in Order :
        /\ rows[o].published =>
                rows[o].status \in {"OPEN", "CLOSED", "PENDING_MODERATION", "EDIT_REJECTED"}
        /\ rows[o].status \in {"OPEN", "CLOSED", "EDIT_REJECTED"} => rows[o].published
        /\ rows[o].busy <=> FundBusy(rows, o)
        /\ Cardinality({s \in In({o}) : rows[s].status = "SUBMITTED"}) <= 1
        /\ ~rows[o].published => \A s \in In({o}) : rows[s].status = "NONE"
    /\ \A s, x \in Sub :
        s # x /\ OrderOf[s] = OrderOf[x] /\ CreatorOf[s] = CreatorOf[x] =>
            ~(rows[s].status = "IN_PROGRESS" /\ rows[x].status = "IN_PROGRESS")

Init ==
    /\ \E os \in [Order -> [status : StartOrder, published : BOOLEAN, busy : BOOLEAN,
                            byBan : {FALSE}]],
          ss \in [Sub -> [status : StartSub]] :
        /\ Plausible(Upon(os, ss))
        /\ db = Upon(Upon(os, ss), [u \in User |-> [banned |-> FALSE, final |-> FALSE]])
    /\ mine = [t \in Tx |-> Nothing]
    /\ call = [t \in Tx |-> Idle]
    /\ calls = 0
    /\ slipped = {}

BanStep(t) ==
    \/ BanUser(t) \/ BanRefused(t) \/ BanReadsOpen(t) \/ BanReadsPending(t)
    \/ CloseOpenOrders(t) \/ RejectPendingOrders(t) \/ ExpireSlots(t)
    \/ RejectSubmitted(t) \/ DeleteInProgress(t) \/ BanReadsReserved(t)
    \/ BanLocksOrder(t) \/ RejectOwn(t) \/ FreedOrder(t) \/ BanCommits(t)
    \/ Tighten(t)

RequestStep(t) ==
    \/ Create(t) \/ Claim(t) \/ ClaimRefused(t) \/ LockOrder(t) \/ Transition(t) \/ Refused(t)
    \/ SyncFundBusy(t) \/ Commits(t)

Step(t) == BanStep(t) \/ RequestStep(t) \/ Wait(t) \/ AbortDeadlocked(t)

Begin(t) ==
    \/ \E u \in User, final \in BOOLEAN : Ban(t, u, final)
    \/ \E u \in User : Unban(t, u)
    \/ \E o \in Order : BeginCreate(t, o) \/ BeginUpdate(t, o) \/ BeginApprove(t, o)
                          \/ BeginClose(t, o)
    \/ \E s \in Sub : BeginClaim(t, s) \/ BeginAttach(t, s) \/ BeginReject(t, s)

Next == \E t \in Tx : Begin(t) \/ Step(t)

\* A statement that may run is run, one that waits gets its rows if they come
\* free again and again (waiters are queued).
Spec == Init /\ [][Next]_vars /\ \A t \in Tx : SF_vars(Step(t))

-----------------------------------------------------------------------------
(* Properties *)

TypeOK ==
    /\ \A u \in User : db[u] \in UserRow
    /\ \A o \in Order : db[o] \in OrderRow
    /\ \A s \in Sub : db[s] \in SubRow
    /\ \A t \in Tx : Locked(t) \subseteq Row
    /\ \A t \in Tx : call[t].op = "none" => Locked(t) = {}
    /\ slipped \subseteq Row

\* Nobody works for a banned advertiser and nothing of a banned creator waits for
\* a moderator, whatever ran beside the ban: only an order decided on or created
\* behind the reads of the ban, or a slot claimed behind its deletions, remains
\* (bans.service.ts, ban).
BannedLeavesNothing ==
    \A u \in User : db[u].banned =>
        /\ \A o \in Order \ slipped : OwnerOf[o] = u => db[o].status \notin LIVE
        /\ \A s \in Of(u) \ slipped : db[s].status \notin {"IN_PROGRESS", "SUBMITTED"}
        /\ \A s \in Sub \ slipped : LET o == OrderOf[s] IN
            OwnerOf[o] = u /\ db[o].byBan =>
                /\ db[s].status # "IN_PROGRESS"
                /\ db[o].status = "REJECTED" => db[s].status # "SUBMITTED"

\* The slots of an order are paused exactly while its fund is reserved, also
\* after the videos of a banned creator are rejected in the orders of others;
\* only a slot claimed, or an order approved, behind the ban can leave a pause that
\* nothing ends.
PauseSurvivesBan ==
    \A o \in Order :
        db[o].status \in ACCEPTS_VIDEOS /\ ({o} \cup In({o})) \cap slipped = {} =>
            (db[o].busy <=> FundBusy(db, o))

\* Requests that lock the order before its submissions never wait for each other
\* in a circle: every deadlock has a ban in it.
DeadlockNeedsBan ==
    \A t \in Tx : InCycle(t) =>
        \E u \in Tx : call[u].op = "ban" /\ InCycle(u)

\* Every request is answered, even when two of them wait for each other.
RequestsAnswered == \A t \in Tx : call[t].op # "none" ~> call[t].op = "none"

\* "In ascending order of id, without waiting for each other" (bans.service.ts).
NoDeadlock == \A t \in Tx : ~InCycle(t)

=============================================================================
