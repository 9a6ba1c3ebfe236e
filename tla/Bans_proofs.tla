----------------------------- MODULE Bans_proofs ------------------------------
(***************************************************************************)
(* Theorems about Bans for any users, orders, submissions and requests at  *)
(* work at one time: what a ban leaves behind, whatever ran beside it, and *)
(* who can wait for whom in a circle.                                      *)
(***************************************************************************)
EXTENDS Bans, WellFoundedInduction, TLAPS

-----------------------------------------------------------------------------
(* The inductive invariant, in parts *)

\* A row is what its table keeps.
Fits(r, x) ==
    /\ r \in User => x \in UserRow
    /\ r \in Order => x \in OrderRow
    /\ r \in Sub => x \in SubRow

Typed(f) ==
    /\ f = [r \in DOMAIN f |-> f[r]] /\ DOMAIN f \subseteq Row
    /\ \A r \in DOMAIN f : Fits(r, f[r])

BeforeClose == {"user", "open", "pending"}
BanAt == {"user", "open", "pending", "close", "remove", "slots", "videos", "delete",
          "reserved", "lock", "own", "freed", "commit"}
OrderOps == {"update", "moderatorApprove", "moderatorClose"}
SubOps == {"attachVideo", "moderatorReject"}

\* The order whose money a request moves.
orderOf(c) == IF c.on \in Sub THEN OrderOf[c.on] ELSE c.on

CallShape ==
    [op : Ops \cup {"none"}, on : Row \cup {0}, at : BanAt \cup {"idle", "insert", "order", "write", "sync"},
     open : SUBSET Order, pending : SUBSET Order, reserved : SUBSET Order,
     todo : SUBSET Order, waiting : SUBSET Row, forUpdate : SUBSET Row]

\* What a request is about and where it can be.
CallOK(c) ==
    /\ c \in CallShape
    /\ c.op # "unban"
    /\ c.op = "none" => c.at = "idle"
    /\ c.op = "ban" => c.on \in User /\ c.at \in BanAt
    /\ c.op = "ban" /\ c.at \in {"lock", "freed"} => c.todo # {}
    /\ c.op = "tighten" => c.on \in User /\ c.at = "write"
    /\ c.op = "create" => c.on \in Order /\ c.at = "insert"
    /\ c.op = "claim" => c.on \in Sub /\ c.at = "insert"
    /\ c.op \in OrderOps => c.on \in Order /\ c.at \in {"order", "write", "slots", "sync", "commit"}
    /\ c.op # "ban" => c.pending = {}
    /\ c.at = "slots" /\ c.op # "ban" => c.op = "moderatorClose" /\ c.open = {c.on}
    /\ c.op \in SubOps => c.on \in Sub /\ c.at \in {"order", "write", "sync", "commit"}

TypeInv ==
    /\ Typed(db) /\ DOMAIN db = Row
    /\ mine = [t \in Tx |-> mine[t]] /\ call = [t \in Tx |-> call[t]]
    /\ \A t \in Tx : Typed(mine[t])
    /\ \A t \in Tx : CallOK(call[t])
    /\ calls \in Nat
    /\ slipped \subseteq Row

-----------------------------------------------------------------------------
(* Rows and statements *)

LEMMA ViewIs ==
    ASSUME TypeInv, NEW t \in Tx
    PROVE  /\ Typed(View(t)) /\ DOMAIN View(t) = Row
           /\ \A r \in Row : View(t)[r] = IF r \in Locked(t) THEN mine[t][r] ELSE db[r]
           /\ Locked(t) \subseteq Row
BY DEF TypeInv, Typed, Fits, View, Upon, Locked

\* An order has a pause and a rate; a submission has neither.
LEMMA RowFields ==
    /\ \A r \in OrderRow : "busy" \in DOMAIN r
    /\ \A r \in SubRow : "busy" \notin DOMAIN r
BY DEF OrderRow, OrderStatus, SubRow, SubStatus

LEMMA LowestIs ==
    ASSUME NEW os \in SUBSET Order, os # {}
    PROVE  Lowest(os) \in os
<1>1. os \subseteq Nat
    BY BansAssumption DEF BansAssumption
<1>2. PICK o \in os : \A p \in os : ~(<<p, o>> \in OpToRel(<, Nat))
    BY <1>1, NatLessThanWellFounded, WFMin
<1>3. ASSUME NEW p \in os
      PROVE  o <= p
    <2>1. ~(p < o)
        BY <1>1, <1>2 DEF OpToRel
    <2> QED
        BY <1>1, <2>1
<1> QED
    BY <1>3 DEF Lowest

\* The rows each statement is about.
LEMMA WhereIs ==
    ASSUME TypeInv, NEW t \in Tx
    PROVE  LET c == call[t]
               v == View(t)
           IN
        /\ c.at = "user"   => Where(t) = {u \in {c.on} : ~v[u].banned}
        /\ c.at = "close"  => Where(t) = {o \in c.open : v[o].status = "OPEN"}
        /\ c.at = "remove" => Where(t) = {o \in c.pending : v[o].status \in FROZEN}
        /\ c.at = "slots"  => Where(t) = {s \in In(c.open \cup c.pending) :
                                              v[s].status = "IN_PROGRESS"}
        /\ c.at = "videos" => Where(t) = {s \in In(c.pending) : v[s].status = "SUBMITTED"}
        /\ c.at = "delete" => Where(t) = {s \in Of(c.on) : v[s].status = "IN_PROGRESS"}
        /\ c.at = "lock"   => Where(t) = {Lowest(c.todo)}
        /\ c.at = "own"    => Where(t) = {s \in Of(c.on) : v[s].status = "SUBMITTED"}
        /\ c.at = "freed"  => Where(t) = SyncRows(v, Lowest(c.todo))
        /\ c.at = "order"  => Where(t) = {orderOf(c)}
        /\ c.at = "write"  => Where(t) = {c.on} \cup MovedSlots(v, c.op, c.on)
        /\ c.at = "sync"   => Where(t) = SyncRows(v, orderOf(c))
        /\ c.at \in {"idle", "insert", "open", "pending", "reserved", "commit"} =>
               Where(t) = {}
        /\ Found(t) \subseteq Where(t)
BY DEF TypeInv, CallOK, CallShape, Where, orderOf, Found

-----------------------------------------------------------------------------
(* What the steps do *)

\* Nobody but t is at work.
Alone(t) ==
    /\ mine' = [u \in Tx |-> mine'[u]] /\ call' = [u \in Tx |-> call'[u]]
    /\ \A u \in Tx \ {t} : mine'[u] = mine[u] /\ call'[u] = call[u]
    /\ calls' \in Nat

\* Nothing is committed.
Inside(t) == Alone(t) /\ db' = db /\ slipped' = slipped

\* Only the request moves on.
Thinks(t) == Inside(t) /\ mine'[t] = mine[t]

\* The statement of t writes the rows it has found, which are free.
Writes(t) ==
    /\ Inside(t)
    /\ BlockedBy(t) = {}
    /\ mine'[t] = [r \in Found(t) \cup Locked(t) |-> mine'[t][r]]
    /\ \A r \in Locked(t) \ Found(t) : mine'[t][r] = mine[t][r]

\* t is given up: its rows come free as they were.
GivesUp(t) == Inside(t) /\ mine'[t] = Nothing /\ call'[t] = Idle

\* t commits: its rows are what it wrote.
Lands(t) ==
    /\ Alone(t) /\ db' = View(t) /\ mine'[t] = Nothing /\ call'[t] = Idle
    /\ slipped \subseteq slipped'

LEMMA BanUserDoes ==
    ASSUME TypeInv, NEW t \in Tx, BanUser(t)
    PROVE  /\ call[t].op = "ban" /\ call[t].at = "user"
           /\ Writes(t)
           /\ Found(t) # {}
           /\ \A r \in Found(t) : mine'[t][r] = [View(t)[r] EXCEPT !.banned = TRUE]
           /\ call'[t] = [call[t] EXCEPT !.at = "open", !.waiting = {}]
BY DEF TypeInv, BanUser, At, Write, Goes, Inside, Alone, Writes, Upon, Locked

LEMMA CloseOpenOrdersDoes ==
    ASSUME TypeInv, NEW t \in Tx, CloseOpenOrders(t)
    PROVE  /\ call[t].op = "ban" /\ call[t].at = "close"
           /\ Writes(t)
           /\ \A r \in Found(t) :
                mine'[t][r] = [View(t)[r] EXCEPT !.status = "CLOSED", !.byBan = TRUE]
           /\ call'[t] = [call[t] EXCEPT !.at = "remove", !.waiting = {}]
BY DEF TypeInv, CloseOpenOrders, At, Write, Goes, Inside, Alone, Writes, Upon, Locked

LEMMA RejectPendingOrdersDoes ==
    ASSUME TypeInv, NEW t \in Tx, RejectPendingOrders(t)
    PROVE  /\ call[t].op = "ban" /\ call[t].at = "remove"
           /\ Writes(t)
           /\ \A r \in Found(t) :
                mine'[t][r] = [View(t)[r] EXCEPT !.status = "REJECTED", !.byBan = TRUE]
           /\ call'[t] = [call[t] EXCEPT !.at = "slots", !.waiting = {}]
BY DEF TypeInv, RejectPendingOrders, At, Write, Goes, Inside, Alone, Writes, Upon, Locked

LEMMA RejectSubmittedDoes ==
    ASSUME TypeInv, NEW t \in Tx, RejectSubmitted(t)
    PROVE  /\ call[t].op = "ban" /\ call[t].at = "videos"
           /\ Writes(t)
           /\ \A r \in Found(t) :
                mine'[t][r] = [View(t)[r] EXCEPT !.status = "MODERATOR_REJECTED"]
           /\ call'[t] = [call[t] EXCEPT !.at = "delete", !.waiting = {}]
BY DEF TypeInv, RejectSubmitted, At, Write, Goes, Inside, Alone, Writes, Upon, Locked, rejected

LEMMA DeleteInProgressDoes ==
    ASSUME TypeInv, NEW t \in Tx, DeleteInProgress(t)
    PROVE  /\ call[t].op = "ban" /\ call[t].at = "delete"
           /\ Writes(t)
           /\ \A r \in Found(t) : mine'[t][r] = [View(t)[r] EXCEPT !.status = "DELETED"]
           /\ call'[t] = [call[t] EXCEPT !.at = "reserved", !.waiting = {}]
BY DEF TypeInv, DeleteInProgress, At, Write, Goes, Inside, Alone, Writes, Upon, Locked

LEMMA ExpireSlotsDoes ==
    ASSUME TypeInv, NEW t \in Tx, ExpireSlots(t)
    PROVE  /\ call[t].at = "slots"
           /\ Writes(t)
           /\ \A r \in Found(t) : mine'[t][r] = [View(t)[r] EXCEPT !.status = "SLOT_EXPIRED"]
           /\ call'[t] = [call[t] EXCEPT !.waiting = {},
                                  !.at = IF call[t].op = "ban" THEN "videos" ELSE "commit"]
BY DEF TypeInv, ExpireSlots, At, Write, Goes, Inside, Alone, Writes, Upon, Locked

LEMMA BanLocksOrderDoes ==
    ASSUME TypeInv, NEW t \in Tx, BanLocksOrder(t)
    PROVE  LET rest == call[t].todo \ {Lowest(call[t].todo)} IN
           /\ call[t].op = "ban" /\ call[t].at = "lock"
           /\ Writes(t)
           /\ \A r \in Found(t) : mine'[t][r] = View(t)[r]
           /\ call'[t] = [call[t] EXCEPT !.at = IF rest = {} THEN "own" ELSE "lock",
                              !.todo = rest, !.waiting = {},
                              !.forUpdate = call[t].reserved \ rest]
BY DEF TypeInv, BanLocksOrder, At, Write, Goes, Inside, Alone, Writes, Upon, Locked

LEMMA RejectOwnDoes ==
    ASSUME TypeInv, NEW t \in Tx, RejectOwn(t)
    PROVE  /\ call[t].op = "ban" /\ call[t].at = "own"
           /\ Writes(t)
           /\ \A r \in Found(t) :
                mine'[t][r] = [View(t)[r] EXCEPT !.status = "MODERATOR_REJECTED"]
           /\ call'[t] = [call[t] EXCEPT !.todo = call[t].reserved, !.waiting = {},
                              !.at = IF call[t].reserved = {} THEN "commit" ELSE "freed"]
BY DEF TypeInv, RejectOwn, At, Write, Goes, Inside, Alone, Writes, Upon, Locked, rejected

LEMMA FreedOrderDoes ==
    ASSUME TypeInv, NEW t \in Tx, FreedOrder(t)
    PROVE  LET rest == call[t].todo \ {Lowest(call[t].todo)} IN
           /\ call[t].op = "ban" /\ call[t].at = "freed"
           /\ Writes(t)
           /\ \A r \in Found(t) :
                mine'[t][r] = synced(View(t)[r], FundBusy(View(t), Lowest(call[t].todo)))
           /\ call'[t] = [call[t] EXCEPT !.at = IF rest = {} THEN "commit" ELSE "freed",
                              !.todo = rest, !.waiting = {}]
BY DEF TypeInv, FreedOrder, At, Write, Goes, Inside, Alone, Writes, Upon, Locked

LEMMA LockOrderDoes ==
    ASSUME TypeInv, NEW t \in Tx, LockOrder(t)
    PROVE  /\ call[t].at = "order"
           /\ Writes(t)
           /\ \A r \in Found(t) : mine'[t][r] = View(t)[r]
           /\ call'[t] = [call[t] EXCEPT !.at = "write", !.waiting = {}, !.forUpdate = Found(t)]
BY DEF TypeInv, LockOrder, At, Write, Goes, Inside, Alone, Writes, Upon, Locked

LEMMA TransitionDoes ==
    ASSUME TypeInv, NEW t \in Tx, Transition(t)
    PROVE  LET c == call[t] IN
           /\ c.at = "write" /\ c.op # "tighten" /\ Allowed(t)
           /\ Writes(t)
           /\ \A r \in Found(t) : mine'[t][r] = written(c.op, View(t)[r])
           /\ call'[t] = [c EXCEPT !.waiting = {},
                !.at = CASE c.op = "update" -> "commit"
                         [] c.op = "moderatorClose" -> "slots"
                         [] OTHER -> "sync",
                !.open = IF c.op = "moderatorClose" THEN {c.on} ELSE {}]
BY DEF TypeInv, Transition, At, Write, Goes, Inside, Alone, Writes, Upon, Locked

LEMMA SyncFundBusyDoes ==
    ASSUME TypeInv, NEW t \in Tx, SyncFundBusy(t)
    PROVE  /\ call[t].at = "sync"
           /\ Writes(t)
           /\ \A r \in Found(t) :
                mine'[t][r] = synced(View(t)[r], FundBusy(View(t), orderOf(call[t])))
           /\ call'[t] = [call[t] EXCEPT !.at = "commit", !.waiting = {}]
BY DEF TypeInv, SyncFundBusy, At, Write, Goes, Inside, Alone, Writes, Upon, Locked, orderOf

\* A request that has just come.
Fresh(op, on, at) == [Idle EXCEPT !.op = op, !.on = on, !.at = at]

BeganAs(t, op, on, at) ==
    /\ Thinks(t) /\ call[t].op = "none" /\ call'[t] = Fresh(op, on, at)

LEMMA BeginsDoes ==
    ASSUME TypeInv, NEW t \in Tx, NEW op, NEW on, NEW at, Begins(t, op, on, at)
    PROVE  BeganAs(t, op, on, at)
BY BansAssumption DEF BansAssumption, TypeInv, Begins, Inside, Alone, Thinks, BeganAs, Fresh

LEMMA WaitDoes ==
    ASSUME TypeInv, NEW t \in Tx, Wait(t)
    PROVE  /\ Thinks(t)
           /\ call[t].waiting = {} /\ BlockedBy(t) # {}
           /\ call'[t] = [call[t] EXCEPT !.waiting = Where(t)]
BY DEF TypeInv, Wait, Inside, Alone, Thinks, Locked

LEMMA BanReadsOpenDoes ==
    ASSUME TypeInv, NEW t \in Tx, BanReadsOpen(t)
    PROVE  /\ call[t].op = "ban" /\ call[t].at = "open" /\ Thinks(t)
           /\ call'[t] = [call[t] EXCEPT !.at = "pending",
                 !.open = {o \in Order : OwnerOf[o] = call[t].on /\ View(t)[o].status = "OPEN"}]
BY DEF TypeInv, BanReadsOpen, Inside, Alone, Thinks, Locked, At

LEMMA BanReadsPendingDoes ==
    ASSUME TypeInv, NEW t \in Tx, BanReadsPending(t)
    PROVE  /\ call[t].op = "ban" /\ call[t].at = "pending" /\ Thinks(t)
           /\ call'[t] = [call[t] EXCEPT !.at = "close",
                 !.pending = {o \in Order : OwnerOf[o] = call[t].on
                                  /\ View(t)[o].status \in FROZEN}]
BY DEF TypeInv, BanReadsPending, Inside, Alone, Thinks, Locked, At, pendingStatuses

LEMMA BanReadsReservedDoes ==
    ASSUME TypeInv, NEW t \in Tx, BanReadsReserved(t)
    PROVE  LET reserved == {OrderOf[s] : s \in {x \in Of(call[t].on) :
                                            View(t)[x].status = "SUBMITTED"}}
           IN
           /\ call[t].op = "ban" /\ call[t].at = "reserved" /\ Thinks(t)
           /\ call'[t] = [call[t] EXCEPT !.at = IF reserved = {} THEN "own" ELSE "lock",
                              !.reserved = reserved, !.todo = reserved]
BY DEF TypeInv, BanReadsReserved, Inside, Alone, Thinks, Locked, At

LEMMA BanRefusedDoes ==
    ASSUME TypeInv, NEW t \in Tx, BanRefused(t)
    PROVE  call[t].op = "ban" /\ call[t].at = "user" /\ GivesUp(t)
BY DEF TypeInv, BanRefused, GivesUp, Rollback, Over, Inside, Alone, At

LEMMA ClaimRefusedDoes ==
    ASSUME TypeInv, NEW t \in Tx, ClaimRefused(t)
    PROVE  call[t].op = "claim" /\ GivesUp(t)
BY DEF TypeInv, ClaimRefused, GivesUp, Rollback, Over, Inside, Alone, At

LEMMA RefusedDoes ==
    ASSUME TypeInv, NEW t \in Tx, Refused(t)
    PROVE  call[t].at = "write" /\ call[t].op # "tighten" /\ GivesUp(t)
BY DEF TypeInv, Refused, GivesUp, Rollback, Over, Inside, Alone

LEMMA AbortDeadlockedDoes ==
    ASSUME TypeInv, NEW t \in Tx, AbortDeadlocked(t)
    PROVE  GivesUp(t)
BY DEF TypeInv, AbortDeadlocked, GivesUp, Rollback, Over, Inside, Alone

LEMMA BanCommitsDoes ==
    ASSUME TypeInv, NEW t \in Tx, BanCommits(t)
    PROVE  /\ call[t].op = "ban" /\ call[t].at = "commit"
           /\ Lands(t) /\ slipped' = slipped
BY DEF TypeInv, BanCommits, Lands, Commit, Over, Alone, At

LEMMA CommitsDoes ==
    ASSUME TypeInv, NEW t \in Tx, Commits(t)
    PROVE  /\ call[t].op # "ban" /\ call[t].at = "commit" /\ Lands(t)
           /\ slipped' = slipped \cup
                (IF call[t].on \in Order /\ BanPast(OwnerOf[call[t].on], {"user"}, "open")
                 THEN {call[t].on} ELSE {})
BY DEF TypeInv, Commits, Lands, Commit, Over, Alone

LEMMA TightenDoes ==
    ASSUME TypeInv, NEW t \in Tx, Tighten(t)
    PROVE  /\ call[t].op = "tighten" /\ call[t].at = "write" /\ Alone(t)
           /\ BlockedBy(t) = {}
           /\ db' = [db EXCEPT ![call[t].on].final = @ \/ db[call[t].on].banned]
           /\ mine' = mine /\ call'[t] = Idle /\ slipped' = slipped
BY DEF TypeInv, Tighten, At, Over, Alone

LEMMA UnbanDoes ==
    ASSUME TypeInv, NEW t \in Tx, NEW u, Unban(t, u)
    PROVE  /\ \A x \in Tx : u \notin Locked(x)
           /\ Alone(t) /\ mine' = mine /\ call' = call /\ slipped' = slipped
           /\ db' = [db EXCEPT ![u] = [banned |-> FALSE, final |-> FALSE]]
BY DEF TypeInv, Unban, Alone

LEMMA CreateDoes ==
    ASSUME TypeInv, NEW t \in Tx, Create(t)
    PROVE  LET o == call[t].on IN
           /\ call[t].op = "create" /\ call[t].at = "insert"
           /\ Alone(t) /\ mine' = mine /\ call'[t] = Idle
           /\ db' = [db EXCEPT ![o].status = "PENDING_MODERATION"]
           /\ slipped' = IF BanPast(OwnerOf[o], {"user", "open"}, "pending")
                         THEN slipped \cup {o} ELSE slipped
BY DEF TypeInv, Create, At, Over, Alone

LEMMA ClaimDoes ==
    ASSUME TypeInv, NEW t \in Tx, Claim(t)
    PROVE  LET s == call[t].on IN
           /\ call[t].op = "claim" /\ call[t].at = "insert"
           /\ Alone(t) /\ mine' = mine /\ call'[t] = Idle
           /\ db' = [db EXCEPT ![s].status = "IN_PROGRESS"]
           /\ slipped' = IF \/ BanPast(CreatorOf[s], BeforeSlots \cup {"slots", "videos"}, "delete")
                            \/ BanPast(OwnerOf[OrderOf[s]], BeforeSlots, "slots")
                            \/ db[OrderOf[s]].byBan
                         THEN slipped \cup {s} ELSE slipped
BY DEF TypeInv, Claim, At, Over, Alone

-----------------------------------------------------------------------------
(* Types *)

\* The kind of the rows a statement finds.
LEMMA FoundKind ==
    ASSUME TypeInv, NEW t \in Tx
    PROVE  LET c == call[t] IN
        /\ Found(t) \subseteq Row
        /\ c.op = "ban" /\ c.at = "user" => Found(t) \subseteq {c.on}
        /\ c.op = "ban" /\ c.at = "close" => Found(t) \subseteq c.open
        /\ c.op = "ban" /\ c.at = "remove" => Found(t) \subseteq c.pending
        /\ c.op = "ban" /\ c.at = "lock" =>
              /\ Found(t) \subseteq {Lowest(c.todo)} /\ Lowest(c.todo) \in c.todo
        /\ c.at = "slots" => Found(t) \subseteq In(c.open \cup c.pending)
        /\ c.at = "videos" => Found(t) \subseteq In(c.pending)
        /\ c.at \in {"delete", "own"} => Found(t) \subseteq Of(c.on)
        /\ c.op = "ban" /\ c.at = "freed" =>
              /\ Lowest(c.todo) \in c.todo
              /\ Found(t) \subseteq {Lowest(c.todo)} \cup In({Lowest(c.todo)})
        /\ c.op \in OrderOps \cup SubOps =>
              /\ orderOf(c) \in Order
              /\ c.on \in {orderOf(c)} \cup In({orderOf(c)})
              /\ c.at = "order" => Found(t) \subseteq {orderOf(c)}
              /\ c.at \in {"write", "sync"} => Found(t) \subseteq {orderOf(c)} \cup In({orderOf(c)})
        /\ c.op = "tighten" => Found(t) \subseteq {c.on}
        /\ c.op \in {"none", "create", "claim"} \/ c.at \in {"open", "pending", "reserved", "commit"} =>
              Found(t) = {}
<1> DEFINE c == call[t]
<1>1. CallOK(c) /\ Found(t) \subseteq Where(t)
    BY WhereIs DEF TypeInv
<1>2. c.op \in OrderOps \cup SubOps =>
            /\ orderOf(c) \in Order
            /\ c.on \in {orderOf(c)} \cup In({orderOf(c)})
            /\ c.op \in SubOps => c.on \in Sub
            /\ c.op \in OrderOps => orderOf(c) = c.on
    BY <1>1, BansAssumption DEF CallOK, orderOf, BansAssumption, In
<1>3. c.op = "ban" /\ c.at \in {"lock", "freed"} => Lowest(c.todo) \in c.todo
    BY <1>1, LowestIs DEF CallOK, CallShape
<1>6. c.op = "tighten" => MovedSlots(View(t), c.op, c.on) = {}
    BY DEF MovedSlots
<1>7. In(c.open \cup c.pending) \subseteq Sub /\ In(c.pending) \subseteq Sub /\ Of(c.on) \subseteq Sub
    BY DEF In, Of
<1>8. c.op \in OrderOps \cup SubOps /\ c.at \in {"write", "sync"} =>
          Found(t) \subseteq {orderOf(c)} \cup In({orderOf(c)})
    <2>1. c.at = "sync" => Found(t) \subseteq {orderOf(c)} \cup In({orderOf(c)})
        BY <1>1, WhereIs DEF SyncRows, Slots
    <2>2. c.at = "write" => Found(t) \subseteq {c.on} \cup MovedSlots(View(t), c.op, c.on)
        BY <1>1, WhereIs
    <2>3. c.op \in OrderOps => MovedSlots(View(t), c.op, c.on) \subseteq In({orderOf(c)})
        BY <1>2 DEF MovedSlots, Slots
    <2>4. c.op \in SubOps => MovedSlots(View(t), c.op, c.on) = {}
        BY DEF MovedSlots, SubOps
    <2> QED
        BY <1>2, <2>1, <2>2, <2>3, <2>4
<1>9. c.op = "tighten" => Found(t) \subseteq {c.on}
    BY <1>1, <1>6, WhereIs DEF CallOK
<1>10. c.op \in {"none", "create", "claim"} \/ c.at \in {"open", "pending", "reserved", "commit"} =>
              Found(t) = {}
    BY <1>1, WhereIs DEF CallOK
<1>11. /\ c.at = "user" => Found(t) \subseteq {c.on}
       /\ c.at = "close" => Found(t) \subseteq c.open
       /\ c.at = "remove" => Found(t) \subseteq c.pending
       /\ c.at = "lock" => Found(t) \subseteq {Lowest(c.todo)}
       /\ c.at = "slots" => Found(t) \subseteq In(c.open \cup c.pending)
       /\ c.at = "videos" => Found(t) \subseteq In(c.pending)
       /\ c.at = "delete" => Found(t) \subseteq Of(c.on)
       /\ c.at = "own" => Found(t) \subseteq Of(c.on)
       /\ c.at = "freed" => Found(t) \subseteq {Lowest(c.todo)} \cup In({Lowest(c.todo)})
       /\ c.at = "order" => Found(t) \subseteq {orderOf(c)}
    <2>1. c.at = "user" => Found(t) \subseteq {c.on}
        BY <1>1, WhereIs
    <2>2. c.at = "close" => Found(t) \subseteq c.open
        BY <1>1, WhereIs
    <2>3. c.at = "remove" => Found(t) \subseteq c.pending
        BY <1>1, WhereIs
    <2>4. c.at = "lock" => Found(t) \subseteq {Lowest(c.todo)}
        BY <1>1, WhereIs
    <2>5. c.at = "slots" => Found(t) \subseteq In(c.open \cup c.pending)
        BY <1>1, WhereIs
    <2>6. c.at = "videos" => Found(t) \subseteq In(c.pending)
        BY <1>1, WhereIs
    <2>7. c.at = "delete" => Found(t) \subseteq Of(c.on)
        BY <1>1, WhereIs
    <2>8. c.at = "own" => Found(t) \subseteq Of(c.on)
        BY <1>1, WhereIs
    <2>9. c.at = "freed" => Found(t) \subseteq {Lowest(c.todo)} \cup In({Lowest(c.todo)})
        BY <1>1, WhereIs DEF SyncRows, Slots
    <2>10. c.at = "order" => Found(t) \subseteq {orderOf(c)}
        BY <1>1, WhereIs
    <2> QED
        BY <2>1, <2>2, <2>3, <2>4, <2>5, <2>6, <2>7, <2>8, <2>9, <2>10
<1>12. Found(t) \subseteq Row
    <2>1. CASE c.op \in OrderOps \cup SubOps
        BY <1>1, <1>2, <1>7, <1>8, <1>10, <1>11, <2>1 DEF CallOK, Row, In, SubOps, OrderOps
    <2>2. CASE c.op = "ban"
        BY <1>1, <1>3, <1>7, <1>10, <1>11, <2>2 DEF CallOK, CallShape, BanAt, Row, In
    <2>3. CASE c.op \notin OrderOps \cup SubOps \cup {"ban"}
        BY <1>1, <1>9, <1>10, <2>3 DEF CallOK, CallShape, Row, Ops, OrderOps, SubOps
    <2> QED
        BY <2>1, <2>2, <2>3
<1> QED
    BY <1>2, <1>3, <1>8, <1>9, <1>10, <1>11, <1>12

LEMMA WritesTyped ==
    ASSUME TypeInv, NEW t \in Tx, Writes(t), CallOK(call'[t]),
           \A r \in Found(t) : Fits(r, mine'[t][r])
    PROVE  TypeInv'
<1>1. Found(t) \subseteq Row
    BY FoundKind
<1>2. Typed(mine'[t])
    BY <1>1 DEF TypeInv, Writes, Inside, Typed, Locked
<1>3. \A u \in Tx : Typed(mine'[u]) /\ CallOK(call'[u])
    BY <1>2 DEF TypeInv, Writes, Inside, Alone
<1> QED
    BY <1>3 DEF TypeInv, Writes, Inside, Alone

LEMMA ThinksTyped ==
    ASSUME TypeInv, NEW t \in Tx, Thinks(t), CallOK(call'[t])
    PROVE  TypeInv'
<1>1. \A u \in Tx : Typed(mine'[u]) /\ CallOK(call'[u])
    BY DEF TypeInv, Thinks, Inside, Alone
<1> QED
    BY <1>1 DEF TypeInv, Thinks, Inside, Alone

LEMMA IdleOK == CallOK(Idle) /\ Typed(Nothing)
BY DEF CallOK, CallShape, Idle, BanAt, Ops, Typed, Nothing, OrderOps, SubOps

LEMMA GivesUpTyped ==
    ASSUME TypeInv, NEW t \in Tx, GivesUp(t)
    PROVE  TypeInv'
<1>1. \A u \in Tx : Typed(mine'[u]) /\ CallOK(call'[u])
    BY IdleOK DEF TypeInv, GivesUp, Inside, Alone
<1> QED
    BY <1>1 DEF TypeInv, GivesUp, Inside, Alone

LEMMA LandsTyped ==
    ASSUME TypeInv, NEW t \in Tx, Lands(t), slipped' \subseteq Row
    PROVE  TypeInv'
<1>1. \A u \in Tx : Typed(mine'[u]) /\ CallOK(call'[u])
    BY IdleOK DEF TypeInv, Lands, Alone
<1>2. Typed(db') /\ DOMAIN db' = Row
    BY ViewIs DEF Lands
<1> QED
    BY <1>1, <1>2 DEF TypeInv, Lands, Alone

LEMMA SeenFits ==
    ASSUME TypeInv, NEW t \in Tx, NEW r \in Row
    PROVE  Fits(r, View(t)[r])
BY ViewIs DEF Typed

\* A row is in one table.
LEMMA UserFits ==
    ASSUME NEW r \in User, NEW x \in UserRow
    PROVE  Fits(r, x)
BY BansAssumption DEF BansAssumption, Fits

LEMMA OrderFits ==
    ASSUME NEW r \in Order, NEW x \in OrderRow
    PROVE  Fits(r, x)
BY BansAssumption DEF BansAssumption, Fits

LEMMA SubFits ==
    ASSUME NEW r \in Sub, NEW x \in SubRow
    PROVE  Fits(r, x)
BY BansAssumption DEF BansAssumption, Fits

LEMMA BanCallOK ==
    ASSUME NEW d \in CallShape, d.op = "ban", d.on \in User, d.at \in BanAt,
           d.at \in {"lock", "freed"} => d.todo # {}
    PROVE  CallOK(d)
BY DEF CallOK, OrderOps, SubOps

\* What is written into a row leaves it a row of its table.
LEMMA SyncedFits ==
    ASSUME NEW r \in Order \cup Sub, NEW x, Fits(r, x), NEW b \in BOOLEAN
    PROVE  Fits(r, synced(x, b))
BY RowFields, BansAssumption DEF BansAssumption, Fits, synced, OrderRow, OrderStatus, SubRow, SubStatus

LEMMA WrittenFits ==
    ASSUME TypeInv, NEW t \in Tx, call[t].op \in OrderOps \cup SubOps,
           NEW r, r \in {orderOf(call[t])} \cup In({orderOf(call[t])}), NEW x, Fits(r, x),
           call[t].op \in SubOps => r = call[t].on,
           call[t].op = "moderatorClose" => r = call[t].on
    PROVE  Fits(r, written(call[t].op, x))
<1> DEFINE c == call[t]
<1>1. CallOK(c)
    BY DEF TypeInv
<1>2. \/ r \in Order /\ x \in OrderRow /\ "busy" \in DOMAIN x
      \/ r \in Sub /\ x \in SubRow /\ "busy" \notin DOMAIN x
    <2>1. r \in Order \/ r \in Sub
        BY FoundKind DEF In
    <2> QED
        BY <2>1, RowFields DEF Fits
<1>3. c.op \in OrderOps => c.on \in Order /\ c.on \notin Sub
    BY <1>1, BansAssumption DEF BansAssumption, CallOK
<1>4. c.op \in SubOps => c.on \in Sub
    BY <1>1 DEF CallOK
<1> DEFINE y == written(c.op, x)
<1>5. CASE c.op = "update"
    <2>1. ASSUME r \in Order PROVE Fits(r, y)
        <3>1. x \in OrderRow /\ "busy" \in DOMAIN x
            BY <2>1, RowFields DEF Fits
        <3>2. y = [x EXCEPT !.status = "PENDING_MODERATION", !.busy = FALSE]
            BY <1>5, <3>1 DEF written
        <3>3. y \in OrderRow
            BY <3>1, <3>2 DEF OrderRow, OrderStatus
        <3> QED
            BY <2>1, <3>3, OrderFits
    <2>2. ASSUME r \in Sub PROVE Fits(r, y)
        <3>1. "busy" \notin DOMAIN x
            BY <2>2, RowFields DEF Fits
        <3>2. y = x
            BY <1>5, <3>1 DEF written
        <3> QED
            BY <3>2
    <2> QED
        BY <1>2, <2>1, <2>2
<1>6. CASE c.op = "moderatorApprove"
    <2>1. ASSUME r \in Order PROVE Fits(r, y)
        <3>1. x \in OrderRow /\ "busy" \in DOMAIN x
            BY <2>1, RowFields DEF Fits
        <3>2. y = [x EXCEPT !.status = "OPEN", !.published = TRUE]
            BY <1>6, <3>1 DEF written
        <3>3. y \in OrderRow
            BY <3>1, <3>2 DEF OrderRow, OrderStatus
        <3> QED
            BY <2>1, <3>3, OrderFits
    <2>2. ASSUME r \in Sub PROVE Fits(r, y)
        <3>1. "busy" \notin DOMAIN x
            BY <2>2, RowFields DEF Fits
        <3>2. y = x
            BY <1>6, <3>1 DEF written
        <3> QED
            BY <3>2
    <2> QED
        BY <1>2, <2>1, <2>2
<1>7. CASE c.op = "moderatorClose"
    <2>1. r \in Order /\ x \in OrderRow
        BY <1>3, <1>7 DEF Fits, OrderOps
    <2>2. y = [x EXCEPT !.status = "CLOSED"]
        BY <1>7 DEF written
    <2>3. y \in OrderRow
        BY <2>1, <2>2 DEF OrderRow, OrderStatus
    <2> QED
        BY <2>1, <2>3, OrderFits
<1>8. CASE c.op = "attachVideo"
    BY <1>2, <1>4, <1>8, BansAssumption DEF BansAssumption, Fits, written, SubRow, SubStatus, SubOps
<1>9. CASE c.op = "moderatorReject"
    BY <1>2, <1>4, <1>9, BansAssumption DEF BansAssumption, Fits, written, rejected, SubRow, SubStatus, SubOps
<1> QED
    BY <1>5, <1>6, <1>7, <1>8, <1>9 DEF OrderOps, SubOps

\* A transition of a submission or a takedown writes the row it is about only.
LEMMA AboutOne ==
    ASSUME TypeInv, NEW t \in Tx, call[t].op \in SubOps \cup {"moderatorClose"},
           call[t].at = "write"
    PROVE  Found(t) \subseteq {call[t].on}
<1>1. MovedSlots(View(t), call[t].op, call[t].on) = {}
    BY DEF MovedSlots, SubOps
<1> QED
    BY <1>1, WhereIs

LEMMA BanTypes ==
    ASSUME TypeInv, NEW t \in Tx, BanStep(t)
    PROVE  TypeInv'
<1> DEFINE c == call[t]
           d == call'[t]
<1>1. /\ CallOK(c) /\ c \in CallShape
      /\ \A r \in Found(t) : r \in Row /\ Fits(r, View(t)[r])
      /\ c.open \subseteq Order /\ c.pending \subseteq Order /\ c.todo \subseteq Order
    BY SeenFits, FoundKind DEF TypeInv, CallOK, CallShape
<1>2. c.op = "ban" => c.on \in User /\ c.at \in BanAt
    BY <1>1 DEF CallOK
<1>3. ASSUME BanUser(t) PROVE TypeInv'
    <2>1. /\ c.op = "ban" /\ c.at = "user" /\ Writes(t)
          /\ \A r \in Found(t) : mine'[t][r] = [View(t)[r] EXCEPT !.banned = TRUE]
          /\ d = [c EXCEPT !.at = "open", !.waiting = {}]
        BY <1>3, BanUserDoes
    <2>2. d \in CallShape
        BY <1>1, <2>1 DEF CallShape, BanAt
    <2>3. d.op = "ban" /\ d.on = c.on /\ d.at = "open"
        BY <1>1, <2>1 DEF CallShape
    <2>4. CallOK(d)
        BY <1>2, <2>1, <2>2, <2>3, BanCallOK DEF BanAt
    <2>5. ASSUME NEW r \in Found(t)
          PROVE  Fits(r, mine'[t][r])
        <3>1. r \in User
            BY <1>1, <1>2, <2>1, FoundKind
        <3>2. View(t)[r] \in UserRow
            BY <1>1, <3>1 DEF Fits
        <3>3. mine'[t][r] = [View(t)[r] EXCEPT !.banned = TRUE]
            BY <2>1
        <3>4. mine'[t][r] \in UserRow
            BY <3>2, <3>3 DEF UserRow
        <3> QED
            BY <3>1, <3>4, UserFits
    <2> QED
        BY <2>1, <2>4, <2>5, WritesTyped
<1>4. ASSUME BanRefused(t) PROVE TypeInv'
    BY <1>4, BanRefusedDoes, GivesUpTyped
<1>5. ASSUME BanReadsOpen(t) PROVE TypeInv'
    <2>1. /\ c.op = "ban" /\ Thinks(t)
          /\ d = [c EXCEPT !.at = "pending", !.open = {o \in Order : OwnerOf[o] = c.on /\ View(t)[o].status = "OPEN"}]
        BY <1>5, BanReadsOpenDoes
    <2>2. d \in CallShape
        BY <1>1, <2>1 DEF CallShape, BanAt
    <2>3. d.op = "ban" /\ d.on = c.on /\ d.at = "pending"
        BY <1>1, <2>1 DEF CallShape
    <2>4. CallOK(d)
        BY <1>2, <2>1, <2>2, <2>3, BanCallOK DEF BanAt
    <2> QED
        BY <2>1, <2>4, ThinksTyped
<1>6. ASSUME BanReadsPending(t) PROVE TypeInv'
    <2>1. /\ c.op = "ban" /\ Thinks(t)
          /\ d = [c EXCEPT !.at = "close", !.pending = {o \in Order : OwnerOf[o] = c.on /\ View(t)[o].status \in FROZEN}]
        BY <1>6, BanReadsPendingDoes
    <2>2. d \in CallShape
        BY <1>1, <2>1 DEF CallShape, BanAt
    <2>3. d.op = "ban" /\ d.on = c.on /\ d.at = "close"
        BY <1>1, <2>1 DEF CallShape
    <2>4. CallOK(d)
        BY <1>2, <2>1, <2>2, <2>3, BanCallOK DEF BanAt
    <2> QED
        BY <2>1, <2>4, ThinksTyped
<1>7. ASSUME CloseOpenOrders(t) PROVE TypeInv'
    <2>1. /\ c.op = "ban" /\ c.at = "close" /\ Writes(t)
          /\ \A r \in Found(t) : mine'[t][r] = [View(t)[r] EXCEPT !.status = "CLOSED", !.byBan = TRUE]
          /\ d = [c EXCEPT !.at = "remove", !.waiting = {}]
        BY <1>7, CloseOpenOrdersDoes
    <2>2. d \in CallShape
        BY <1>1, <2>1 DEF CallShape, BanAt
    <2>3. d.op = "ban" /\ d.on = c.on /\ d.at = "remove"
        BY <1>1, <2>1 DEF CallShape
    <2>4. CallOK(d)
        BY <1>2, <2>1, <2>2, <2>3, BanCallOK DEF BanAt
    <2>5. ASSUME NEW r \in Found(t)
          PROVE  Fits(r, mine'[t][r])
        <3>1. r \in Order
            BY <1>1, <1>2, <2>1, FoundKind
        <3>2. View(t)[r] \in OrderRow
            BY <1>1, <3>1 DEF Fits
        <3>3. mine'[t][r] = [View(t)[r] EXCEPT !.status = "CLOSED", !.byBan = TRUE]
            BY <2>1
        <3>4. mine'[t][r] \in OrderRow
            BY <3>2, <3>3 DEF OrderRow, OrderStatus
        <3> QED
            BY <3>1, <3>4, OrderFits
    <2> QED
        BY <2>1, <2>4, <2>5, WritesTyped
<1>8. ASSUME RejectPendingOrders(t) PROVE TypeInv'
    <2>1. /\ c.op = "ban" /\ c.at = "remove" /\ Writes(t)
          /\ \A r \in Found(t) : mine'[t][r] = [View(t)[r] EXCEPT !.status = "REJECTED", !.byBan = TRUE]
          /\ d = [c EXCEPT !.at = "slots", !.waiting = {}]
        BY <1>8, RejectPendingOrdersDoes
    <2>2. d \in CallShape
        BY <1>1, <2>1 DEF CallShape, BanAt
    <2>3. d.op = "ban" /\ d.on = c.on /\ d.at = "slots"
        BY <1>1, <2>1 DEF CallShape
    <2>4. CallOK(d)
        BY <1>2, <2>1, <2>2, <2>3, BanCallOK DEF BanAt
    <2>5. ASSUME NEW r \in Found(t)
          PROVE  Fits(r, mine'[t][r])
        <3>1. r \in Order
            BY <1>1, <1>2, <2>1, FoundKind
        <3>2. View(t)[r] \in OrderRow
            BY <1>1, <3>1 DEF Fits
        <3>3. mine'[t][r] = [View(t)[r] EXCEPT !.status = "REJECTED", !.byBan = TRUE]
            BY <2>1
        <3>4. mine'[t][r] \in OrderRow
            BY <3>2, <3>3 DEF OrderRow, OrderStatus
        <3> QED
            BY <3>1, <3>4, OrderFits
    <2> QED
        BY <2>1, <2>4, <2>5, WritesTyped
<1>9. ASSUME ExpireSlots(t) PROVE TypeInv'
    <2>1. /\ c.at = "slots" /\ Writes(t)
          /\ \A r \in Found(t) : mine'[t][r] = [View(t)[r] EXCEPT !.status = "SLOT_EXPIRED"]
          /\ d = [c EXCEPT !.waiting = {}, !.at = IF c.op = "ban" THEN "videos" ELSE "commit"]
        BY <1>9, ExpireSlotsDoes
    <2>2. CallOK(d)
        <3>1. d \in CallShape
            BY <1>1, <2>1 DEF CallShape, BanAt
        <3>2. /\ d.op = c.op /\ d.on = c.on /\ d.pending = c.pending
              /\ d.at = IF c.op = "ban" THEN "videos" ELSE "commit"
            BY <1>1, <2>1 DEF CallShape
        <3>3. CASE c.op = "ban"
            BY <1>2, <3>1, <3>2, <3>3, BanCallOK DEF BanAt
        <3>4. CASE c.op # "ban"
            <4>1. c.op = "moderatorClose" /\ c.on \in Order /\ c.pending = {}
                BY <1>1, <2>1, <3>4 DEF CallOK, OrderOps
            <4> QED
                BY <3>1, <3>2, <4>1 DEF CallOK, OrderOps, SubOps
        <3> QED
            BY <3>3, <3>4
    <2>3. ASSUME NEW r \in Found(t)
          PROVE  Fits(r, mine'[t][r])
        <3>1. r \in Sub
            BY <1>1, <2>1, FoundKind DEF In
        <3>2. View(t)[r] \in SubRow
            BY <1>1, <3>1 DEF Fits
        <3>3. mine'[t][r] \in SubRow
            BY <2>1, <3>2 DEF SubRow, SubStatus
        <3> QED
            BY <3>1, <3>3, SubFits
    <2> QED
        BY <2>1, <2>2, <2>3, WritesTyped
<1>10. ASSUME RejectSubmitted(t) PROVE TypeInv'
    <2>1. /\ c.op = "ban" /\ c.at = "videos" /\ Writes(t)
          /\ \A r \in Found(t) : mine'[t][r] = [View(t)[r] EXCEPT !.status = "MODERATOR_REJECTED"]
          /\ d = [c EXCEPT !.at = "delete", !.waiting = {}]
        BY <1>10, RejectSubmittedDoes
    <2>2. d \in CallShape
        BY <1>1, <2>1 DEF CallShape, BanAt
    <2>3. d.op = "ban" /\ d.on = c.on /\ d.at = "delete"
        BY <1>1, <2>1 DEF CallShape
    <2>4. CallOK(d)
        BY <1>2, <2>1, <2>2, <2>3, BanCallOK DEF BanAt
    <2>5. ASSUME NEW r \in Found(t)
          PROVE  Fits(r, mine'[t][r])
        <3>1. r \in Sub
            BY <1>1, <1>2, <2>1, FoundKind DEF In
        <3>2. View(t)[r] \in SubRow
            BY <1>1, <3>1 DEF Fits
        <3>3. mine'[t][r] = [View(t)[r] EXCEPT !.status = "MODERATOR_REJECTED"]
            BY <2>1
        <3>4. mine'[t][r] \in SubRow
            BY <3>2, <3>3 DEF SubRow, SubStatus
        <3> QED
            BY <3>1, <3>4, SubFits
    <2> QED
        BY <2>1, <2>4, <2>5, WritesTyped
<1>11. ASSUME DeleteInProgress(t) PROVE TypeInv'
    <2>1. /\ c.op = "ban" /\ c.at = "delete" /\ Writes(t)
          /\ \A r \in Found(t) : mine'[t][r] = [View(t)[r] EXCEPT !.status = "DELETED"]
          /\ d = [c EXCEPT !.at = "reserved", !.waiting = {}]
        BY <1>11, DeleteInProgressDoes
    <2>2. d \in CallShape
        BY <1>1, <2>1 DEF CallShape, BanAt
    <2>3. d.op = "ban" /\ d.on = c.on /\ d.at = "reserved"
        BY <1>1, <2>1 DEF CallShape
    <2>4. CallOK(d)
        BY <1>2, <2>1, <2>2, <2>3, BanCallOK DEF BanAt
    <2>5. ASSUME NEW r \in Found(t)
          PROVE  Fits(r, mine'[t][r])
        <3>1. r \in Sub
            BY <1>1, <1>2, <2>1, FoundKind DEF Of
        <3>2. View(t)[r] \in SubRow
            BY <1>1, <3>1 DEF Fits
        <3>3. mine'[t][r] = [View(t)[r] EXCEPT !.status = "DELETED"]
            BY <2>1
        <3>4. mine'[t][r] \in SubRow
            BY <3>2, <3>3 DEF SubRow, SubStatus
        <3> QED
            BY <3>1, <3>4, SubFits
    <2> QED
        BY <2>1, <2>4, <2>5, WritesTyped
<1>12. ASSUME BanReadsReserved(t) PROVE TypeInv'
    <2> DEFINE reserved == {OrderOf[s] : s \in {x \in Of(c.on) : View(t)[x].status = "SUBMITTED"}}
    <2>1. reserved \subseteq Order
        BY BansAssumption DEF BansAssumption, Of
    <2>2. /\ c.op = "ban" /\ Thinks(t)
          /\ d = [c EXCEPT !.at = IF reserved = {} THEN "own" ELSE "lock",
                           !.reserved = reserved, !.todo = reserved]
        BY <1>12, BanReadsReservedDoes
    <2> HIDE DEF reserved
    <2>3. d \in CallShape
        BY <1>1, <2>1, <2>2 DEF CallShape, BanAt
    <2>4. /\ d.op = "ban" /\ d.on = c.on /\ d.todo = reserved
          /\ d.at = IF reserved = {} THEN "own" ELSE "lock"
        BY <1>1, <2>2 DEF CallShape
    <2>5. CallOK(d)
        BY <1>2, <2>2, <2>3, <2>4, BanCallOK DEF BanAt
    <2> QED
        BY <2>2, <2>5, ThinksTyped
<1>13. ASSUME BanLocksOrder(t) PROVE TypeInv'
    <2> DEFINE rest == c.todo \ {Lowest(c.todo)}
    <2>1. /\ c.op = "ban" /\ Writes(t) /\ \A r \in Found(t) : mine'[t][r] = View(t)[r]
          /\ d = [c EXCEPT !.at = IF rest = {} THEN "own" ELSE "lock",
                           !.todo = rest, !.waiting = {}, !.forUpdate = c.reserved \ rest]
        BY <1>13, BanLocksOrderDoes
    <2>2. rest \subseteq Order /\ c.reserved \ rest \subseteq Row
        BY <1>1 DEF CallShape, Row
    <2> HIDE DEF rest
    <2>3. d \in CallShape
        BY <1>1, <2>1, <2>2 DEF CallShape, BanAt
    <2>4. /\ d.op = "ban" /\ d.on = c.on /\ d.todo = rest
          /\ d.at = IF rest = {} THEN "own" ELSE "lock"
        BY <1>1, <2>1 DEF CallShape
    <2>5. CallOK(d)
        BY <1>2, <2>1, <2>3, <2>4, BanCallOK DEF BanAt
    <2> QED
        BY <1>1, <2>1, <2>5, WritesTyped
<1>14. ASSUME RejectOwn(t) PROVE TypeInv'
    <2>1. /\ c.op = "ban" /\ c.at = "own" /\ Writes(t)
          /\ \A r \in Found(t) : mine'[t][r] = [View(t)[r] EXCEPT !.status = "MODERATOR_REJECTED"]
          /\ d = [c EXCEPT !.todo = c.reserved, !.waiting = {},
                           !.at = IF c.reserved = {} THEN "commit" ELSE "freed"]
        BY <1>14, RejectOwnDoes
    <2>2. d \in CallShape
        BY <1>1, <2>1 DEF CallShape, BanAt
    <2>3. /\ d.op = "ban" /\ d.on = c.on /\ d.todo = c.reserved
          /\ d.at = IF c.reserved = {} THEN "commit" ELSE "freed"
        BY <1>1, <2>1 DEF CallShape
    <2>4. CallOK(d)
        BY <1>2, <2>1, <2>2, <2>3, BanCallOK DEF BanAt
    <2>5. ASSUME NEW r \in Found(t)
          PROVE  Fits(r, mine'[t][r])
        <3>1. r \in Sub
            BY <1>1, <2>1, FoundKind DEF Of
        <3>2. View(t)[r] \in SubRow
            BY <1>1, <3>1 DEF Fits
        <3>3. mine'[t][r] \in SubRow
            BY <2>1, <3>2 DEF SubRow, SubStatus
        <3> QED
            BY <3>1, <3>3, SubFits
    <2> QED
        BY <2>1, <2>4, <2>5, WritesTyped
<1>15. ASSUME FreedOrder(t) PROVE TypeInv'
    <2> DEFINE rest == c.todo \ {Lowest(c.todo)}
               busy == FundBusy(View(t), Lowest(c.todo))
    <2>1. /\ c.op = "ban" /\ c.at = "freed" /\ Writes(t)
          /\ \A r \in Found(t) : mine'[t][r] = synced(View(t)[r], busy)
          /\ d = [c EXCEPT !.at = IF rest = {} THEN "commit" ELSE "freed",
                           !.todo = rest, !.waiting = {}]
        BY <1>15, FreedOrderDoes
    <2>2. rest \subseteq Order
        BY <1>1
    <2>3. busy \in BOOLEAN
        BY DEF FundBusy
    <2>4. /\ Lowest(c.todo) \in c.todo
          /\ Found(t) \subseteq {Lowest(c.todo)} \cup In({Lowest(c.todo)})
        BY <2>1, FoundKind
    <2>5. \A r \in Found(t) : r \in Order \cup Sub
        BY <1>1, <2>4 DEF In
    <2> HIDE DEF rest, busy
    <2>6. d \in CallShape
        BY <1>1, <2>1, <2>2 DEF CallShape, BanAt
    <2>7. /\ d.op = "ban" /\ d.on = c.on /\ d.todo = rest
          /\ d.at = IF rest = {} THEN "commit" ELSE "freed"
        BY <1>1, <2>1 DEF CallShape
    <2>8. CallOK(d)
        BY <1>2, <2>1, <2>6, <2>7, BanCallOK DEF BanAt
    <2>9. ASSUME NEW r \in Found(t)
          PROVE  Fits(r, mine'[t][r])
        <3>1. Fits(r, synced(View(t)[r], busy))
            BY <1>1, <2>3, <2>5, SyncedFits
        <3> QED
            BY <2>1, <3>1
    <2> QED
        BY <2>1, <2>8, <2>9, WritesTyped
<1>16. ASSUME BanCommits(t) PROVE TypeInv'
    BY <1>16, BanCommitsDoes, LandsTyped DEF TypeInv
<1>17. ASSUME Tighten(t) PROVE TypeInv'
    <2>1. /\ c.op = "tighten" /\ Alone(t) /\ mine' = mine /\ d = Idle
          /\ slipped' = slipped
        BY <1>17, TightenDoes
    <2> DEFINE final == db[c.on].final \/ db[c.on].banned
    <2>0. db' = [db EXCEPT ![c.on].final = final] /\ final \in BOOLEAN
        BY <1>17, Zenon DEF Tighten
    <2> HIDE DEF final
    <2>2. c.on \in User /\ c.on \in Row
        BY <1>1, <2>1 DEF CallOK, Row
    <2>3. Typed(db) /\ DOMAIN db = Row
        BY DEF TypeInv
    <2>4. DOMAIN db' = Row /\ db' = [r \in DOMAIN db' |-> db'[r]]
        BY <2>0, <2>3 DEF Typed
    <2>5. ASSUME NEW r \in Row
          PROVE  Fits(r, db'[r])
        <3>1. Fits(r, db[r])
            BY <2>3 DEF Typed
        <3>2. CASE r = c.on
            <4>1. db[r] \in UserRow
                BY <2>2, <3>1, <3>2 DEF Fits
            <4>2. db'[r] = [db[r] EXCEPT !.final = final]
                BY <2>0, <2>2, <2>3, <3>2
            <4>3. db'[r] \in UserRow
                BY <2>0, <4>1, <4>2 DEF UserRow
            <4> QED
                BY <2>2, <3>2, <4>3, UserFits
        <3>3. CASE r # c.on
            BY <2>0, <2>3, <3>1, <3>3
        <3> QED
            BY <3>2, <3>3
    <2>6. Typed(db')
        BY <2>3, <2>4, <2>5 DEF Typed
    <2>7. \A x \in Tx : Typed(mine'[x]) /\ CallOK(call'[x])
        BY <2>1, IdleOK DEF TypeInv, Alone
    <2> QED
        BY <2>1, <2>4, <2>6, <2>7 DEF TypeInv, Alone
<1> QED
    BY <1>3, <1>4, <1>5, <1>6, <1>7, <1>8, <1>9, <1>10, <1>11, <1>12, <1>13, <1>14, <1>15, <1>16, <1>17 DEF BanStep

LEMMA RequestTypes ==
    ASSUME TypeInv, NEW t \in Tx, RequestStep(t)
    PROVE  TypeInv'
<1> DEFINE c == call[t]
           d == call'[t]
<1>1. /\ CallOK(c) /\ c \in CallShape
      /\ \A r \in Found(t) : r \in Row /\ Fits(r, View(t)[r])
      /\ Typed(db) /\ DOMAIN db = Row /\ slipped \subseteq Row
    BY SeenFits, FoundKind DEF TypeInv, CallOK
<1>2. ASSUME Create(t) PROVE TypeInv'
    <2>1. /\ c.op = "create" /\ Alone(t) /\ mine' = mine /\ d = Idle
          /\ db' = [db EXCEPT ![c.on].status = "PENDING_MODERATION"]
          /\ slipped' \subseteq slipped \cup {c.on}
        BY <1>2, CreateDoes
    <2>2. c.on \in Order /\ c.on \in Row
        BY <1>1, <2>1 DEF CallOK, Row
    <2>3. Typed(db')
        <3>1. DOMAIN db' = Row /\ db' = [r \in DOMAIN db' |-> db'[r]]
            BY <1>1, <2>1 DEF Typed
        <3>2. ASSUME NEW r \in Row PROVE Fits(r, db'[r])
            <4>1. Fits(r, db[r])
                BY <1>1 DEF Typed
            <4>2. CASE r = c.on
                <5>1. db[r] \in OrderRow
                    BY <2>2, <4>1, <4>2 DEF Fits
                <5>2. db'[r] = [db[r] EXCEPT !.status = "PENDING_MODERATION"]
                    BY <1>1, <2>1, <4>2
                <5>3. db'[r] \in OrderRow
                    BY <5>1, <5>2 DEF OrderRow, OrderStatus
                <5> QED
                    BY <2>2, <4>2, <5>3, OrderFits
            <4>3. CASE r # c.on
                BY <1>1, <2>1, <4>1, <4>3
            <4> QED
                BY <4>2, <4>3
        <3> QED
            BY <3>1, <3>2 DEF Typed
    <2>4. DOMAIN db' = Row
        BY <1>1, <2>1
    <2>5. \A x \in Tx : Typed(mine'[x]) /\ CallOK(call'[x])
        BY <2>1, IdleOK DEF TypeInv, Alone
    <2> QED
        BY <1>1, <2>1, <2>2, <2>3, <2>4, <2>5 DEF TypeInv, Alone
<1>3. ASSUME Claim(t) PROVE TypeInv'
    <2>1. /\ c.op = "claim" /\ Alone(t) /\ mine' = mine /\ d = Idle
          /\ db' = [db EXCEPT ![c.on].status = "IN_PROGRESS"]
          /\ slipped' \subseteq slipped \cup {c.on}
        BY <1>3, ClaimDoes
    <2>2. c.on \in Sub /\ c.on \in Row
        BY <1>1, <2>1 DEF CallOK, Row
    <2>3. Typed(db')
        <3>1. DOMAIN db' = Row /\ db' = [r \in DOMAIN db' |-> db'[r]]
            BY <1>1, <2>1 DEF Typed
        <3>2. ASSUME NEW r \in Row PROVE Fits(r, db'[r])
            <4>1. Fits(r, db[r])
                BY <1>1 DEF Typed
            <4>2. CASE r = c.on
                <5>1. db[r] \in SubRow
                    BY <2>2, <4>1, <4>2 DEF Fits
                <5>2. db'[r] = [db[r] EXCEPT !.status = "IN_PROGRESS"]
                    BY <1>1, <2>1, <4>2
                <5>3. db'[r] \in SubRow
                    BY <5>1, <5>2 DEF SubRow, SubStatus
                <5> QED
                    BY <2>2, <4>2, <5>3, SubFits
            <4>3. CASE r # c.on
                BY <1>1, <2>1, <4>1, <4>3
            <4> QED
                BY <4>2, <4>3
        <3> QED
            BY <3>1, <3>2 DEF Typed
    <2>4. DOMAIN db' = Row
        BY <1>1, <2>1
    <2>5. \A x \in Tx : Typed(mine'[x]) /\ CallOK(call'[x])
        BY <2>1, IdleOK DEF TypeInv, Alone
    <2> QED
        BY <1>1, <2>1, <2>2, <2>3, <2>4, <2>5 DEF TypeInv, Alone
<1>4. ASSUME ClaimRefused(t) PROVE TypeInv'
    BY <1>4, ClaimRefusedDoes, GivesUpTyped
<1>5. ASSUME LockOrder(t) PROVE TypeInv'
    <2>1. /\ c.at = "order" /\ Writes(t)
          /\ \A r \in Found(t) : mine'[t][r] = View(t)[r]
          /\ d = [c EXCEPT !.at = "write", !.waiting = {}, !.forUpdate = Found(t)]
        BY <1>5, LockOrderDoes
    <2>2. Found(t) \subseteq Row
        BY <1>1
    <2>3. d \in CallShape
        BY <1>1, <2>1, <2>2 DEF CallShape
    <2>4. d.op = c.op /\ d.on = c.on /\ d.pending = c.pending /\ d.at = "write"
        BY <1>1, <2>1 DEF CallShape
    <2>5. /\ c.op \in OrderOps \/ c.op \in SubOps
          /\ c.op \in OrderOps => c.on \in Order
          /\ c.op \in SubOps => c.on \in Sub
          /\ c.pending = {}
        BY <1>1, <2>1 DEF CallOK, CallShape, Ops, BanAt, OrderOps, SubOps
    <2>6. CallOK(d)
        BY <2>3, <2>4, <2>5 DEF CallOK, OrderOps, SubOps
    <2> QED
        BY <1>1, <2>1, <2>6, WritesTyped
<1>6. ASSUME Transition(t) PROVE TypeInv'
    <2>1. /\ c.at = "write" /\ c.op # "tighten" /\ Writes(t)
          /\ \A r \in Found(t) : mine'[t][r] = written(c.op, View(t)[r])
        BY <1>6, TransitionDoes
    <2> DEFINE at == CASE c.op = "update" -> "commit"
                       [] c.op = "moderatorClose" -> "slots"
                       [] OTHER -> "sync"
               open == IF c.op = "moderatorClose" THEN {c.on} ELSE {}
    <2>2. d = [c EXCEPT !.waiting = {}, !.at = at, !.open = open]
        BY <1>6, TransitionDoes
    <2>3. /\ c.op \in OrderOps \/ c.op \in SubOps
          /\ c.op \in OrderOps => c.on \in Order
          /\ c.op \in SubOps => c.on \in Sub
          /\ c.pending = {}
        BY <1>1, <2>1 DEF CallOK, CallShape, Ops, BanAt, OrderOps, SubOps
    <2>4. /\ at \in {"commit", "slots", "sync"}
          /\ at = "slots" => c.op = "moderatorClose"
          /\ open \subseteq Order
          /\ c.op = "moderatorClose" => open = {c.on}
        BY <2>3 DEF OrderOps
    <2> HIDE DEF at, open
    <2>5. d \in CallShape
        BY <1>1, <2>2, <2>4 DEF CallShape, BanAt
    <2>6. d.op = c.op /\ d.on = c.on /\ d.at = at /\ d.open = open /\ d.pending = c.pending
        BY <1>1, <2>2 DEF CallShape
    <2>7. c.pending = {}
        BY <1>1, <2>3 DEF CallOK, OrderOps, SubOps
    <2>8. CallOK(d)
        BY <2>3, <2>4, <2>5, <2>6, <2>7 DEF CallOK, OrderOps, SubOps
    <2>9. ASSUME NEW r \in Found(t) PROVE Fits(r, mine'[t][r])
        <3>1. r \in {orderOf(c)} \cup In({orderOf(c)})
            BY <2>1, <2>3, FoundKind
        <3>2. c.op \in SubOps \cup {"moderatorClose"} => r = c.on
            BY <2>1, AboutOne
        <3>3. Fits(r, written(c.op, View(t)[r]))
            BY <1>1, <2>3, <3>1, <3>2, WrittenFits
        <3> QED
            BY <2>1, <3>3
    <2> QED
        BY <2>1, <2>8, <2>9, WritesTyped
<1>7. ASSUME Refused(t) PROVE TypeInv'
    BY <1>7, RefusedDoes, GivesUpTyped
<1>8. ASSUME SyncFundBusy(t) PROVE TypeInv'
    <2> DEFINE busy == FundBusy(View(t), orderOf(c))
    <2>1. /\ c.at = "sync" /\ Writes(t)
          /\ \A r \in Found(t) : mine'[t][r] = synced(View(t)[r], busy)
          /\ d = [c EXCEPT !.at = "commit", !.waiting = {}]
        BY <1>8, SyncFundBusyDoes
    <2>2. busy \in BOOLEAN
        BY DEF FundBusy
    <2> HIDE DEF busy
    <2>3. d \in CallShape
        BY <1>1, <2>1 DEF CallShape, BanAt
    <2>4. d.op = c.op /\ d.on = c.on /\ d.pending = c.pending /\ d.at = "commit"
        BY <1>1, <2>1 DEF CallShape
    <2>5. /\ c.op \in OrderOps \/ c.op \in SubOps
          /\ c.op \in OrderOps => c.on \in Order
          /\ c.op \in SubOps => c.on \in Sub
          /\ c.pending = {}
        BY <1>1, <2>1 DEF CallOK, CallShape, Ops, BanAt, OrderOps, SubOps
    <2>6. CallOK(d)
        BY <2>3, <2>4, <2>5 DEF CallOK, OrderOps, SubOps
    <2>7. ASSUME NEW r \in Found(t) PROVE Fits(r, mine'[t][r])
        <3>1. r \in {orderOf(c)} \cup In({orderOf(c)}) /\ orderOf(c) \in Order
            BY <2>1, <2>5, FoundKind
        <3>2. r \in Order \cup Sub
            BY <3>1 DEF In
        <3>3. Fits(r, synced(View(t)[r], busy))
            BY <1>1, <2>2, <3>2, SyncedFits
        <3> QED
            BY <2>1, <3>3
    <2> QED
        BY <2>1, <2>6, <2>7, WritesTyped
<1>9. ASSUME Commits(t) PROVE TypeInv'
    <2>1. Lands(t) /\ slipped' \subseteq slipped \cup (Order \cap {c.on})
        BY <1>9, CommitsDoes
    <2>2. slipped' \subseteq Row
        BY <1>1, <2>1 DEF Row
    <2> QED
        BY <2>1, <2>2, LandsTyped
<1> QED
    BY <1>2, <1>3, <1>4, <1>5, <1>6, <1>7, <1>8, <1>9 DEF RequestStep

\* What a new request may be about.
Begun(t, op, on, at) ==
    /\ BeganAs(t, op, on, at)
    /\ \/ op = "ban" /\ at = "user" /\ on \in User /\ ~db[on].banned
       \/ op = "ban" /\ at = "user" /\ on \in User /\ db[on].banned
       \/ op = "tighten" /\ at = "write" /\ on \in User
       \/ /\ op = "create" /\ at = "insert" /\ on \in Order /\ db[on].status = "NEW"
          /\ \A x \in Tx : call[x].op = "create" => call[x].on # on
       \/ op \in OrderOps /\ at = "order" /\ on \in Order /\ db[on].status # "NEW"
       \/ /\ op = "claim" /\ at = "insert" /\ on \in Sub /\ db[on].status = "NONE"
          /\ db[OrderOf[on]].status = "OPEN"
          /\ \A x \in Tx : call[x].op = "claim" => call[x].on # on
       \/ op \in SubOps /\ at = "order" /\ on \in Sub /\ db[on].status \in {"IN_PROGRESS", "SUBMITTED"}

LEMMA BeginDoes ==
    ASSUME TypeInv, NEW t \in Tx, Begin(t)
    PROVE  \/ \E u \in User : Unban(t, u)
           \/ \E op, on, at : Begun(t, op, on, at)
<1>1. ASSUME NEW u \in User, NEW final \in BOOLEAN, Ban(t, u, final)
      PROVE  \E op, on, at : Begun(t, op, on, at)
    <2>1. CASE db[u].banned /\ final
        <3>1. Begins(t, "tighten", u, "write")
            BY <1>1, <2>1 DEF Ban
        <3>2. BeganAs(t, "tighten", u, "write")
            BY <3>1, BeginsDoes
        <3>3. Begun(t, "tighten", u, "write")
            BY <2>1, <3>1, <3>2 DEF Begun
        <3> QED
            BY <3>3
    <2>2. CASE ~(db[u].banned /\ final)
        <3>1. Begins(t, "ban", u, "user")
            BY <1>1, <2>2 DEF Ban
        <3>2. BeganAs(t, "ban", u, "user")
            BY <3>1, BeginsDoes
        <3>3. Begun(t, "ban", u, "user")
            BY <2>2, <3>1, <3>2 DEF Begun
        <3> QED
            BY <3>3
    <2> QED
        BY <2>1, <2>2
<1>2. ASSUME NEW o \in Order, BeginCreate(t, o)
      PROVE  \E op, on, at : Begun(t, op, on, at)
    <2>1. Begins(t, "create", o, "insert")
        BY <1>2 DEF BeginCreate
    <2>2. BeganAs(t, "create", o, "insert")
        BY <2>1, BeginsDoes
    <2>3. Begun(t, "create", o, "insert")
        BY <1>2, <2>2 DEF Begun, BeginCreate
    <2> QED
        BY <2>3
<1>3. ASSUME NEW o \in Order, BeginUpdate(t, o) \/ BeginApprove(t, o) \/ BeginClose(t, o)
      PROVE  \E op, on, at : Begun(t, op, on, at)
    <2>1. CASE BeginUpdate(t, o)
        <3>1. Begins(t, "update", o, "order") /\ db[o].status # "NEW"
            BY <2>1 DEF BeginUpdate
        <3>2. BeganAs(t, "update", o, "order")
            BY <3>1, BeginsDoes
        <3>3. Begun(t, "update", o, "order")
            BY <2>1, <3>1, <3>2 DEF Begun, OrderOps
        <3> QED
            BY <3>3
    <2>2. CASE BeginApprove(t, o)
        <3>1. Begins(t, "moderatorApprove", o, "order") /\ db[o].status # "NEW"
            BY <2>2 DEF BeginApprove
        <3>2. BeganAs(t, "moderatorApprove", o, "order")
            BY <3>1, BeginsDoes
        <3>3. Begun(t, "moderatorApprove", o, "order")
            BY <2>2, <3>1, <3>2 DEF Begun, OrderOps
        <3> QED
            BY <3>3
    <2>3. CASE BeginClose(t, o)
        <3>1. Begins(t, "moderatorClose", o, "order") /\ db[o].status # "NEW"
            BY <2>3 DEF BeginClose
        <3>2. BeganAs(t, "moderatorClose", o, "order")
            BY <3>1, BeginsDoes
        <3>3. Begun(t, "moderatorClose", o, "order")
            BY <2>3, <3>1, <3>2 DEF Begun, OrderOps
        <3> QED
            BY <3>3
    <2> QED
        BY <1>3, <2>1, <2>2, <2>3
<1>4. ASSUME NEW s \in Sub, BeginClaim(t, s)
      PROVE  \E op, on, at : Begun(t, op, on, at)
    <2>1. Begins(t, "claim", s, "insert")
        BY <1>4 DEF BeginClaim
    <2>2. BeganAs(t, "claim", s, "insert")
        BY <2>1, BeginsDoes
    <2>3. Begun(t, "claim", s, "insert")
        BY <1>4, <2>2 DEF Begun, BeginClaim
    <2> QED
        BY <2>3
<1>5. ASSUME NEW s \in Sub, BeginAttach(t, s) \/ BeginReject(t, s)
      PROVE  \E op, on, at : Begun(t, op, on, at)
    <2>1. CASE BeginAttach(t, s)
        <3>1. Begins(t, "attachVideo", s, "order") /\ db[s].status = "IN_PROGRESS"
            BY <2>1 DEF BeginAttach, firstLock
        <3>2. BeganAs(t, "attachVideo", s, "order")
            BY <3>1, BeginsDoes
        <3>3. Begun(t, "attachVideo", s, "order")
            BY <2>1, <3>1, <3>2 DEF Begun, SubOps
        <3> QED
            BY <3>3
    <2>2. CASE BeginReject(t, s)
        <3>1. Begins(t, "moderatorReject", s, "order") /\ db[s].status = "SUBMITTED"
            BY <2>2 DEF BeginReject, firstLock
        <3>2. BeganAs(t, "moderatorReject", s, "order")
            BY <3>1, BeginsDoes
        <3>3. Begun(t, "moderatorReject", s, "order")
            BY <2>2, <3>1, <3>2 DEF Begun, SubOps
        <3> QED
            BY <3>3
    <2> QED
        BY <1>5, <2>1, <2>2
<1> QED
    BY <1>1, <1>2, <1>3, <1>4, <1>5 DEF Begin

LEMMA FreshFields ==
    ASSUME NEW op, NEW on, NEW at
    PROVE  LET d == Fresh(op, on, at) IN
           /\ d.op = op /\ d.on = on /\ d.at = at
           /\ d.open = {} /\ d.pending = {} /\ d.reserved = {} /\ d.todo = {}
           /\ d.waiting = {} /\ d.forUpdate = {}
           /\ op \in Ops /\ on \in Row /\ at \in BanAt \cup {"idle", "insert", "order", "write", "sync"}
              => d \in CallShape
BY DEF Fresh, Idle, CallShape

LEMMA BeginTypes ==
    ASSUME TypeInv, NEW t \in Tx, Begin(t)
    PROVE  TypeInv'
<1>1. ASSUME NEW u \in User, Unban(t, u) PROVE TypeInv'
    <2>1. /\ Alone(t) /\ mine' = mine /\ call' = call /\ slipped' = slipped
          /\ db' = [db EXCEPT ![u] = [banned |-> FALSE, final |-> FALSE]]
        BY <1>1, UnbanDoes
    <2>2. Typed(db) /\ DOMAIN db = Row /\ u \in Row
        BY DEF TypeInv, Row
    <2>3. DOMAIN db' = Row /\ db' = [r \in DOMAIN db' |-> db'[r]]
        BY <2>1, <2>2 DEF Typed
    <2> DEFINE free == [banned |-> FALSE, final |-> FALSE]
    <2>4. free \in UserRow /\ Fits(u, free)
        <3>1. free \in UserRow
            BY DEF UserRow
        <3> QED
            BY <3>1, UserFits
    <2>5. \A r \in Row : Fits(r, db'[r])
        BY <2>1, <2>2, <2>4 DEF Typed
    <2>6. Typed(db')
        BY <2>3, <2>5 DEF Typed
    <2> QED
        BY <2>1, <2>3, <2>6 DEF TypeInv, Alone
<1>2. ASSUME NEW op, NEW on, NEW at, Begun(t, op, on, at) PROVE TypeInv'
    <2> DEFINE d == Fresh(op, on, at)
    <2>1. /\ op \in Ops /\ op # "unban" /\ on \in Row
          /\ at \in BanAt \cup {"idle", "insert", "order", "write", "sync"}
        BY <1>2 DEF Begun, Ops, Row, BanAt, OrderOps, SubOps
    <2>2. d \in CallShape /\ d.op = op /\ d.on = on /\ d.at = at /\ d.pending = {}
        BY <2>1, FreshFields
    <2> HIDE DEF d
    <2>3. \/ op = "ban" /\ at = "user" /\ on \in User
          \/ op = "tighten" /\ at = "write" /\ on \in User
          \/ op = "create" /\ at = "insert" /\ on \in Order
          \/ op \in OrderOps /\ at = "order" /\ on \in Order
          \/ op = "claim" /\ at = "insert" /\ on \in Sub
          \/ op \in SubOps /\ at = "order" /\ on \in Sub
        BY <1>2 DEF Begun
    <2>4. CallOK(d)
        BY <2>2, <2>3 DEF CallOK, BanAt, OrderOps, SubOps
    <2> QED
        BY <1>2, <2>4, ThinksTyped DEF Begun, BeganAs, d
<1> QED
    BY <1>1, <1>2, BeginDoes

LEMMA StepTypes ==
    ASSUME TypeInv, NEW t \in Tx, Step(t)
    PROVE  TypeInv'
<1>1. ASSUME Wait(t) PROVE TypeInv'
    <2> DEFINE c == call[t]
               d == call'[t]
               rows == Where(t)
    <2>1. Thinks(t) /\ d = [c EXCEPT !.waiting = rows] /\ c.waiting = {}
        BY <1>1, WaitDoes
    <2>2. rows \subseteq Row
        BY <2>1, FoundKind DEF Found
    <2>3. CallOK(c) /\ c \in CallShape
        BY DEF TypeInv, CallOK
    <2> HIDE DEF rows
    <2>4. d \in CallShape
        BY <2>1, <2>2, <2>3 DEF CallShape
    <2>5. /\ d.op = c.op /\ d.on = c.on /\ d.at = c.at /\ d.open = c.open
          /\ d.pending = c.pending /\ d.todo = c.todo
        BY <2>1, <2>3 DEF CallShape
    <2>6. CallOK(d)
        BY <2>3, <2>4, <2>5 DEF CallOK
    <2> QED
        BY <2>1, <2>6, ThinksTyped
<1>2. ASSUME AbortDeadlocked(t) PROVE TypeInv'
    BY <1>2, AbortDeadlockedDoes, GivesUpTyped
<1> QED
    BY <1>1, <1>2, BanTypes, RequestTypes DEF Step

LEMMA TypeInit == Init => TypeInv
<1> SUFFICES ASSUME Init PROVE TypeInv
    OBVIOUS
<1> DEFINE OS == [Order -> [status : StartOrder, published : BOOLEAN, busy : BOOLEAN,
                            byBan : {FALSE}]]
           SS == [Sub -> [status : StartSub]]
<1>1. PICK os \in OS, ss \in SS :
        db = Upon(Upon(os, ss), [u \in User |-> [banned |-> FALSE, final |-> FALSE]])
    BY DEF Init
<1>2. DOMAIN db = Row /\ db = [r \in DOMAIN db |-> db[r]]
    BY <1>1 DEF Upon, Row
<1>3. ASSUME NEW r \in Row PROVE Fits(r, db[r])
    <2>1. CASE r \in User
        <3>1. db[r] = [banned |-> FALSE, final |-> FALSE]
            BY <1>1, <2>1, BansAssumption DEF BansAssumption, Upon
        <3>2. db[r] \in UserRow
            BY <3>1 DEF UserRow
        <3> QED
            BY <2>1, <3>2, UserFits
    <2>2. CASE r \in Order
        <3>1. db[r] = os[r]
            BY <1>1, <2>2, BansAssumption DEF BansAssumption, Upon
        <3>2. os[r] \in OrderRow
            BY <2>2, BansAssumption DEF BansAssumption, OrderRow, OrderStatus
        <3> QED
            BY <2>2, <3>1, <3>2, OrderFits
    <2>3. CASE r \in Sub
        <3>1. db[r] = ss[r]
            BY <1>1, <2>3, BansAssumption DEF BansAssumption, Upon
        <3>2. ss[r] \in SubRow
            BY <2>3, BansAssumption DEF BansAssumption, SubRow, SubStatus
        <3> QED
            BY <2>3, <3>1, <3>2, SubFits
    <2> QED
        BY <2>1, <2>2, <2>3 DEF Row
<1>4. Typed(db)
    BY <1>2, <1>3 DEF Typed
<1>5. \A t \in Tx : Typed(mine[t]) /\ CallOK(call[t])
    BY IdleOK DEF Init
<1> QED
    BY <1>2, <1>4, <1>5 DEF Init, TypeInv

LEMMA TypeNext == TypeInv /\ [Next]_vars => TypeInv'
<1> SUFFICES ASSUME TypeInv, [Next]_vars PROVE TypeInv'
    OBVIOUS
<1>1. CASE Next
    BY <1>1, BeginTypes, StepTypes DEF Next
<1>2. CASE UNCHANGED vars
    BY <1>2 DEF vars, TypeInv, Typed, CallOK, CallShape
<1> QED
    BY <1>1, <1>2

-----------------------------------------------------------------------------
(* Locks *)

\* What a request holds, by where it is.
Holds(c, rows) ==
    /\ c.op \in {"none", "tighten", "create", "claim"} => rows = {}
    /\ c.op \in OrderOps \cup SubOps =>
        /\ c.at = "order" => rows = {} /\ c.waiting \subseteq {orderOf(c)}
        /\ c.at # "order" =>
            orderOf(c) \in rows /\ rows \subseteq {orderOf(c)} \cup In({orderOf(c)})
    /\ c.op = "ban" =>
        /\ c.at = "user" => rows = {}
        /\ c.at # "user" => c.on \in rows /\ rows \cap User = {c.on}

Apart == \A t, u \in Tx : t # u => Locked(t) \cap Locked(u) = {}

LockInv == Apart /\ \A t \in Tx : Holds(call[t], Locked(t))

LEMMA OthersLocks ==
    ASSUME NEW t \in Tx, Alone(t), Apart, Locked(t)' \subseteq Locked(t) \cup Found(t),
           BlockedBy(t) = {} \/ Locked(t)' \subseteq Locked(t),
           \A u \in Tx \ {t} : Holds(call[u], Locked(u)), Holds(call'[t], Locked(t)')
    PROVE  LockInv'
<1>1. \A u \in Tx \ {t} : Locked(u)' = Locked(u) /\ call'[u] = call[u]
    BY DEF Alone, Locked
<1>2. \A u \in Tx \ {t} : Locked(t)' \cap Locked(u) = {}
    BY DEF Apart, BlockedBy
<1>3. Apart'
    BY <1>1, <1>2 DEF Apart
<1>4. ASSUME NEW u \in Tx PROVE Holds(call[u], Locked(u))'
    <2>1. CASE u = t
        BY <2>1 DEF Holds, orderOf, In
    <2>2. CASE u # t
        BY <1>1, <2>2 DEF Holds, orderOf, In
    <2> QED
        BY <2>1, <2>2
<1> QED
    BY <1>3, <1>4 DEF LockInv

LEMMA ThinksLocks ==
    ASSUME TypeInv, LockInv, NEW t \in Tx, Thinks(t), Holds(call'[t], Locked(t))
    PROVE  LockInv'
<1>1. Locked(t)' = Locked(t) /\ Alone(t)
    BY DEF Thinks, Inside, Locked
<1> QED
    BY <1>1, OthersLocks DEF LockInv

LEMMA NothingHeld ==
    ASSUME TypeInv, LockInv, NEW t \in Tx, Alone(t), call'[t] = Idle, DOMAIN mine'[t] = {}
    PROVE  LockInv'
<1>1. Locked(t)' = {}
    BY DEF Locked
<1>2. Holds(Idle, {})
    BY DEF Holds, Idle, OrderOps, SubOps
<1> QED
    BY <1>1, <1>2, OthersLocks DEF LockInv

LEMMA GivesUpLocks ==
    ASSUME TypeInv, LockInv, NEW t \in Tx, GivesUp(t) \/ Lands(t)
    PROVE  LockInv'
BY NothingHeld DEF GivesUp, Lands, Inside, Nothing

LEMMA WritesLocks ==
    ASSUME TypeInv, LockInv, NEW t \in Tx, Writes(t), Holds(call'[t], Locked(t) \cup Found(t))
    PROVE  LockInv'
<1>1. Locked(t)' = Locked(t) \cup Found(t)
    BY DEF Writes, Locked
<1> QED
    BY <1>1, OthersLocks DEF LockInv, Writes, Inside

\* A ban past its first statement holds its user and no other user.
LEMMA BanHolds ==
    ASSUME TypeInv, LockInv, NEW t \in Tx, Writes(t), call[t].op = "ban", call[t].at # "user",
           call'[t].op = "ban", call'[t].on = call[t].on, call'[t].at # "user",
           Found(t) \cap User = {}
    PROVE  LockInv'
<1>1. Holds(call'[t], Locked(t) \cup Found(t))
    BY DEF LockInv, Holds, OrderOps, SubOps
<1> QED
    BY <1>1, WritesLocks

LEMMA BanLocks ==
    ASSUME TypeInv, LockInv, NEW t \in Tx, BanStep(t)
    PROVE  LockInv'
<1> DEFINE c == call[t]
           d == call'[t]
<1>1. CallOK(c) /\ c \in CallShape /\ Holds(c, Locked(t))
    BY DEF TypeInv, CallOK, LockInv
<1>2. /\ User \cap Order = {} /\ User \cap Sub = {}
      /\ \A os : In(os) \cap User = {}
      /\ \A x : Of(x) \cap User = {}
    BY BansAssumption DEF BansAssumption, In, Of
<1>3. ASSUME BanUser(t) PROVE LockInv'
    <2>1. /\ c.op = "ban" /\ c.at = "user" /\ Writes(t) /\ Found(t) # {}
          /\ d = [c EXCEPT !.at = "open", !.waiting = {}]
        BY <1>3, BanUserDoes
    <2>2. d.op = "ban" /\ d.on = c.on /\ d.at = "open" /\ c.on \in User
        BY <1>1, <2>1 DEF CallShape, CallOK
    <2>3. Found(t) = {c.on} /\ Locked(t) = {}
        <3>1. Found(t) \subseteq {c.on}
            BY <2>1, FoundKind
        <3> QED
            BY <1>1, <2>1, <3>1 DEF Holds
    <2>4. Holds(d, Locked(t) \cup Found(t))
        BY <2>2, <2>3 DEF Holds, OrderOps, SubOps
    <2> QED
        BY <2>1, <2>4, WritesLocks
<1>4. ASSUME BanRefused(t) PROVE LockInv'
    BY <1>4, BanRefusedDoes, GivesUpLocks
<1>5. ASSUME BanReadsOpen(t) \/ BanReadsPending(t) \/ BanReadsReserved(t) PROVE LockInv'
    <2>1. c.op = "ban" /\ c.at # "user" /\ Thinks(t)
        BY <1>5, BanReadsOpenDoes, BanReadsPendingDoes, BanReadsReservedDoes
    <2>2. d.op = "ban" /\ d.on = c.on /\ d.at # "user"
        <3>1. CASE BanReadsOpen(t)
            BY <1>1, <3>1 DEF BanReadsOpen, At, CallShape, TypeInv
        <3>2. CASE BanReadsPending(t)
            BY <1>1, <3>2 DEF BanReadsPending, At, CallShape, TypeInv
        <3>3. CASE BanReadsReserved(t)
            BY <1>1, <3>3 DEF BanReadsReserved, At, CallShape, TypeInv
        <3> QED
            BY <1>5, <3>1, <3>2, <3>3
    <2>3. Holds(d, Locked(t))
        BY <1>1, <2>1, <2>2 DEF Holds, OrderOps, SubOps
    <2> QED
        BY <2>1, <2>3, ThinksLocks
<1>6. ASSUME CloseOpenOrders(t) PROVE LockInv'
    <2>1. c.op = "ban" /\ c.at # "user" /\ Writes(t)
        BY <1>6, CloseOpenOrdersDoes
    <2>2. d.op = "ban" /\ d.on = c.on /\ d.at # "user"
        BY <1>1, <1>6 DEF CloseOpenOrders, At, Goes, CallShape, TypeInv
    <2>3. Found(t) \cap User = {}
        <3>1. c.at = "close"
            BY <1>6, CloseOpenOrdersDoes
        <3> QED
            BY <1>1, <1>2, <2>1, <3>1, FoundKind DEF CallShape
    <2> QED
        BY <2>1, <2>2, <2>3, BanHolds
<1>7. ASSUME RejectPendingOrders(t) PROVE LockInv'
    <2>1. c.op = "ban" /\ c.at # "user" /\ Writes(t)
        BY <1>7, RejectPendingOrdersDoes
    <2>2. d.op = "ban" /\ d.on = c.on /\ d.at # "user"
        BY <1>1, <1>7 DEF RejectPendingOrders, At, Goes, CallShape, TypeInv
    <2>3. Found(t) \cap User = {}
        <3>1. c.at = "remove"
            BY <1>7, RejectPendingOrdersDoes
        <3> QED
            BY <1>1, <1>2, <2>1, <3>1, FoundKind DEF CallShape
    <2> QED
        BY <2>1, <2>2, <2>3, BanHolds
<1>8. ASSUME RejectSubmitted(t) PROVE LockInv'
    <2>1. c.op = "ban" /\ c.at # "user" /\ Writes(t)
        BY <1>8, RejectSubmittedDoes
    <2>2. d.op = "ban" /\ d.on = c.on /\ d.at # "user"
        BY <1>1, <1>8 DEF RejectSubmitted, At, Goes, CallShape, TypeInv
    <2>3. Found(t) \cap User = {}
        <3>1. c.at = "videos"
            BY <1>8, RejectSubmittedDoes
        <3> QED
            BY <1>1, <1>2, <2>1, <3>1, FoundKind DEF CallShape
    <2> QED
        BY <2>1, <2>2, <2>3, BanHolds
<1>9. ASSUME DeleteInProgress(t) PROVE LockInv'
    <2>1. c.op = "ban" /\ c.at # "user" /\ Writes(t)
        BY <1>9, DeleteInProgressDoes
    <2>2. d.op = "ban" /\ d.on = c.on /\ d.at # "user"
        BY <1>1, <1>9 DEF DeleteInProgress, At, Goes, CallShape, TypeInv
    <2>3. Found(t) \cap User = {}
        <3>1. c.at = "delete"
            BY <1>9, DeleteInProgressDoes
        <3> QED
            BY <1>1, <1>2, <2>1, <3>1, FoundKind DEF CallShape
    <2> QED
        BY <2>1, <2>2, <2>3, BanHolds
<1>10. ASSUME BanLocksOrder(t) PROVE LockInv'
    <2>1. c.op = "ban" /\ c.at # "user" /\ Writes(t)
        BY <1>10, BanLocksOrderDoes
    <2>2. d.op = "ban" /\ d.on = c.on /\ d.at # "user"
        BY <1>1, <1>10 DEF BanLocksOrder, At, Goes, CallShape, TypeInv
    <2>3. Found(t) \cap User = {}
        <3>1. c.at = "lock"
            BY <1>10, BanLocksOrderDoes
        <3>2. Found(t) \subseteq {Lowest(c.todo)} /\ Lowest(c.todo) \in c.todo
            BY <2>1, <3>1, FoundKind
        <3> QED
            BY <1>1, <1>2, <3>2 DEF CallShape
    <2> QED
        BY <2>1, <2>2, <2>3, BanHolds
<1>11. ASSUME RejectOwn(t) PROVE LockInv'
    <2>1. c.op = "ban" /\ c.at # "user" /\ Writes(t)
        BY <1>11, RejectOwnDoes
    <2>2. d.op = "ban" /\ d.on = c.on /\ d.at # "user"
        BY <1>1, <1>11 DEF RejectOwn, At, Goes, CallShape, TypeInv
    <2>3. Found(t) \cap User = {}
        <3>1. c.at = "own"
            BY <1>11, RejectOwnDoes
        <3> QED
            BY <1>1, <1>2, <2>1, <3>1, FoundKind DEF CallShape
    <2> QED
        BY <2>1, <2>2, <2>3, BanHolds
<1>12. ASSUME FreedOrder(t) PROVE LockInv'
    <2>1. c.op = "ban" /\ c.at # "user" /\ Writes(t)
        BY <1>12, FreedOrderDoes
    <2>2. d.op = "ban" /\ d.on = c.on /\ d.at # "user"
        BY <1>1, <1>12 DEF FreedOrder, At, Goes, CallShape, TypeInv
    <2>3. Found(t) \cap User = {}
        <3>1. c.at = "freed"
            BY <1>12, FreedOrderDoes
        <3>2. /\ Found(t) \subseteq {Lowest(c.todo)} \cup In({Lowest(c.todo)})
              /\ Lowest(c.todo) \in c.todo
            BY <2>1, <3>1, FoundKind
        <3> QED
            BY <1>1, <1>2, <3>2 DEF CallShape
    <2> QED
        BY <2>1, <2>2, <2>3, BanHolds
<1>13. ASSUME ExpireSlots(t) PROVE LockInv'
    <2>1. /\ c.at = "slots" /\ Writes(t)
          /\ d = [c EXCEPT !.waiting = {}, !.at = IF c.op = "ban" THEN "videos" ELSE "commit"]
        BY <1>13, ExpireSlotsDoes
    <2>2. /\ d.op = c.op /\ d.on = c.on /\ d.at = IF c.op = "ban" THEN "videos" ELSE "commit"
        BY <1>1, <2>1 DEF CallShape
    <2>3. Found(t) \subseteq In(c.open \cup c.pending)
        BY <2>1, FoundKind
    <2>4. CASE c.op = "ban"
        BY <1>2, <2>1, <2>2, <2>3, <2>4, BanHolds
    <2>5. CASE c.op # "ban"
        <3>1. c.op = "moderatorClose" /\ c.open = {c.on} /\ c.pending = {} /\ c.on \in Order
            BY <1>1, <2>1, <2>5 DEF CallOK, OrderOps
        <3>2. orderOf(c) = c.on /\ orderOf(d) = c.on
            BY <2>2, <3>1, BansAssumption DEF BansAssumption, orderOf
        <3>3. Found(t) \subseteq In({c.on})
            BY <2>3, <3>1 DEF In
        <3>4. Holds(d, Locked(t) \cup Found(t))
            BY <1>1, <2>1, <2>2, <3>1, <3>2, <3>3 DEF Holds, OrderOps, SubOps
        <3> QED
            BY <2>1, <3>4, WritesLocks
    <2> QED
        BY <2>4, <2>5
<1>14. ASSUME BanCommits(t) PROVE LockInv'
    BY <1>14, BanCommitsDoes, GivesUpLocks
<1>15. ASSUME Tighten(t) PROVE LockInv'
    <2>1. c.op = "tighten" /\ Alone(t) /\ mine' = mine /\ d = Idle
        BY <1>15, TightenDoes
    <2>2. DOMAIN mine'[t] = {}
        BY <1>1, <2>1 DEF Holds, Locked
    <2> QED
        BY <2>1, <2>2, NothingHeld
<1> QED
    BY <1>3, <1>4, <1>5, <1>6, <1>7, <1>8, <1>9, <1>10, <1>11, <1>12, <1>13, <1>14, <1>15 DEF BanStep

LEMMA RequestLocks ==
    ASSUME TypeInv, LockInv, NEW t \in Tx, RequestStep(t)
    PROVE  LockInv'
<1> DEFINE c == call[t]
           d == call'[t]
<1>1. CallOK(c) /\ c \in CallShape /\ Holds(c, Locked(t))
    BY DEF TypeInv, CallOK, LockInv
<1>2. ASSUME Create(t) PROVE LockInv'
    <2>1. c.op = "create" /\ Alone(t) /\ mine' = mine /\ d = Idle
        BY <1>2, CreateDoes
    <2>2. DOMAIN mine'[t] = {}
        BY <1>1, <2>1 DEF Holds, Locked
    <2> QED
        BY <2>1, <2>2, NothingHeld
<1>3. ASSUME Claim(t) PROVE LockInv'
    <2>1. c.op = "claim" /\ Alone(t) /\ mine' = mine /\ d = Idle
        BY <1>3, ClaimDoes
    <2>2. DOMAIN mine'[t] = {}
        BY <1>1, <2>1 DEF Holds, Locked
    <2> QED
        BY <2>1, <2>2, NothingHeld
<1>4. ASSUME ClaimRefused(t) PROVE LockInv'
    BY <1>4, ClaimRefusedDoes, GivesUpLocks
<1>5. ASSUME LockOrder(t) PROVE LockInv'
    <2>1. /\ c.at = "order" /\ Writes(t)
          /\ d = [c EXCEPT !.at = "write", !.waiting = {}, !.forUpdate = Found(t)]
        BY <1>5, LockOrderDoes
    <2>2. d.op = c.op /\ d.on = c.on /\ d.at = "write" /\ orderOf(d) = orderOf(c)
        BY <1>1, <2>1 DEF CallShape, orderOf
    <2>3. c.op \in OrderOps \cup SubOps
        BY <1>1, <2>1 DEF CallOK, CallShape, Ops, BanAt, OrderOps, SubOps
    <2>4. Where(t) = {orderOf(c)}
        BY <2>1, WhereIs
    <2>5. Found(t) = {orderOf(c)}
        BY <1>1, <2>1, <2>3, <2>4 DEF Found, Holds
    <2>6. Holds(d, Locked(t) \cup Found(t))
        BY <1>1, <2>1, <2>2, <2>3, <2>5 DEF Holds, OrderOps, SubOps
    <2> QED
        BY <2>1, <2>6, WritesLocks
<1>6. ASSUME Transition(t) PROVE LockInv'
    <2>1. c.at = "write" /\ c.op # "tighten" /\ Writes(t)
        BY <1>6, TransitionDoes
    <2>2. d.op = c.op /\ d.on = c.on /\ d.at \in {"commit", "slots", "sync"}
        BY <1>1, <1>6 DEF Transition, CallShape, TypeInv
    <2>3. c.op \in OrderOps \cup SubOps /\ orderOf(d) = orderOf(c)
        BY <1>1, <2>1, <2>2 DEF CallOK, CallShape, Ops, BanAt, OrderOps, SubOps, orderOf
    <2>4. Found(t) \subseteq {orderOf(c)} \cup In({orderOf(c)})
        BY <2>1, <2>3, FoundKind
    <2>5. Holds(d, Locked(t) \cup Found(t))
        BY <1>1, <2>1, <2>2, <2>3, <2>4 DEF Holds, OrderOps, SubOps
    <2> QED
        BY <2>1, <2>5, WritesLocks
<1>7. ASSUME Refused(t) PROVE LockInv'
    BY <1>7, RefusedDoes, GivesUpLocks
<1>8. ASSUME SyncFundBusy(t) PROVE LockInv'
    <2>1. c.at = "sync" /\ Writes(t) /\ d = [c EXCEPT !.at = "commit", !.waiting = {}]
        BY <1>8, SyncFundBusyDoes
    <2>2. d.op = c.op /\ d.on = c.on /\ d.at = "commit"
        BY <1>1, <2>1 DEF CallShape
    <2>3. c.op \in OrderOps \cup SubOps /\ orderOf(d) = orderOf(c)
        BY <1>1, <2>1, <2>2 DEF CallOK, CallShape, Ops, BanAt, OrderOps, SubOps, orderOf
    <2>4. Found(t) \subseteq {orderOf(c)} \cup In({orderOf(c)})
        BY <2>1, <2>3, FoundKind
    <2>5. Holds(d, Locked(t) \cup Found(t))
        BY <1>1, <2>1, <2>2, <2>3, <2>4 DEF Holds, OrderOps, SubOps
    <2> QED
        BY <2>1, <2>5, WritesLocks
<1>9. ASSUME Commits(t) PROVE LockInv'
    BY <1>9, CommitsDoes, GivesUpLocks
<1> QED
    BY <1>2, <1>3, <1>4, <1>5, <1>6, <1>7, <1>8, <1>9 DEF RequestStep

LEMMA LockNext == TypeInv /\ LockInv /\ [Next]_vars => LockInv'
<1> SUFFICES ASSUME TypeInv, LockInv, [Next]_vars PROVE LockInv'
    OBVIOUS
<1>1. ASSUME NEW t \in Tx, Begin(t) PROVE LockInv'
    <2>1. ASSUME NEW u \in User, Unban(t, u) PROVE LockInv'
        <3>1. mine' = mine /\ call' = call
            BY <2>1, UnbanDoes
        <3> QED
            BY <3>1 DEF LockInv, Apart, Holds, Locked, orderOf, In
    <2>2. ASSUME NEW op, NEW on, NEW at, Begun(t, op, on, at) PROVE LockInv'
        <3> DEFINE d == Fresh(op, on, at)
        <3>1. /\ Thinks(t) /\ call[t].op = "none" /\ call'[t] = d
              /\ op \in {"ban", "tighten", "create", "claim"} \cup OrderOps \cup SubOps
              /\ op = "ban" => at = "user"
              /\ op \in OrderOps \cup SubOps => at = "order"
            BY <2>2 DEF Begun, BeganAs, OrderOps, SubOps
        <3>2. d.op = op /\ d.on = on /\ d.at = at /\ d.waiting = {}
            BY FreshFields
        <3> HIDE DEF d
        <3>3. Locked(t) = {}
            BY <3>1 DEF LockInv, Holds
        <3>4. Holds(d, Locked(t))
            BY <3>1, <3>2, <3>3 DEF Holds, OrderOps, SubOps
        <3> QED
            BY <3>1, <3>4, ThinksLocks
    <2> QED
        BY <1>1, <2>1, <2>2, BeginDoes
<1>2. ASSUME NEW t \in Tx, Wait(t) PROVE LockInv'
    <2> DEFINE c == call[t]
               d == call'[t]
               rows == Where(t)
    <2>1. Thinks(t) /\ d = [c EXCEPT !.waiting = rows] /\ BlockedBy(t) # {}
        BY <1>2, WaitDoes
    <2>2. c \in CallShape /\ Holds(c, Locked(t)) /\ (c.at = "order" => rows \subseteq {orderOf(c)})
        BY WhereIs DEF TypeInv, CallOK, LockInv
    <2> HIDE DEF rows
    <2>3. d.op = c.op /\ d.on = c.on /\ d.at = c.at /\ d.waiting = rows /\ orderOf(d) = orderOf(c)
        BY <2>1, <2>2 DEF CallShape, orderOf
    <2>4. Holds(d, Locked(t))
        BY <2>2, <2>3 DEF Holds
    <2> QED
        BY <2>1, <2>4, ThinksLocks
<1>3. ASSUME NEW t \in Tx, AbortDeadlocked(t) PROVE LockInv'
    BY <1>3, AbortDeadlockedDoes, GivesUpLocks
<1>4. CASE UNCHANGED vars
    BY <1>4 DEF vars, LockInv, Apart, Holds, Locked, orderOf, In
<1> QED
    BY <1>1, <1>2, <1>3, <1>4, BanLocks, RequestLocks DEF Next, Step

LEMMA LockInit == Init => LockInv
BY DEF Init, LockInv, Apart, Holds, Locked, Nothing, Idle, OrderOps, SubOps

LEMMA Locking == Spec => [](TypeInv /\ LockInv)
<1>1. Init => TypeInv /\ LockInv
    BY TypeInit, LockInit
<1>2. TypeInv /\ LockInv /\ [Next]_vars => (TypeInv /\ LockInv)'
    BY TypeNext, LockNext
<1> QED
    BY <1>1, <1>2, PTL DEF Spec

-----------------------------------------------------------------------------
(* Theorems *)

\* Every row stays a row of its table, and nobody idle holds a row, whatever runs
\* beside whatever (bans.service.ts and the transactions beside it).
THEOREM TypeCorrect == Spec => []TypeOK
<1>1. TypeInv /\ LockInv => TypeOK
    <2> SUFFICES ASSUME TypeInv, LockInv PROVE TypeOK
        OBVIOUS
    <2>1. /\ \A u \in User : db[u] \in UserRow
          /\ \A o \in Order : db[o] \in OrderRow
          /\ \A s \in Sub : db[s] \in SubRow
        BY DEF TypeInv, Typed, Fits, Row
    <2>2. /\ \A t \in Tx : Locked(t) \subseteq Row
          /\ \A t \in Tx : call[t].op = "none" => Locked(t) = {}
        BY DEF TypeInv, Typed, LockInv, Holds, Locked
    <2> QED
        BY <2>1, <2>2 DEF TypeOK, TypeInv
<1> QED
    BY <1>1, Locking, PTL

\* One request that is no ban never waits for another: the order both need is
\* locked first.
LEMMA OrderComesFirst ==
    ASSUME TypeInv, LockInv, NEW t \in Tx, NEW u \in BlockedBy(t),
           call[t].op # "ban", call[u].op # "ban"
    PROVE  Locked(t) = {}
<1> DEFINE c == call[t]
           e == call[u]
<1>1. /\ u \in Tx /\ t # u
      /\ CallOK(c) /\ Holds(c, Locked(t)) /\ CallOK(e) /\ Holds(e, Locked(u))
      /\ Locked(t) \cap Locked(u) = {}
    BY DEF BlockedBy, TypeInv, LockInv, Apart
<1>2. PICK r \in Found(t) : r \in Locked(u)
    BY DEF BlockedBy
<1>3. e.op \in OrderOps \cup SubOps
    BY <1>1, <1>2 DEF CallOK, CallShape, Holds, Ops, OrderOps, SubOps
<1>4. /\ orderOf(e) \in Locked(u) /\ r \in {orderOf(e)} \cup In({orderOf(e)})
      /\ orderOf(e) \in Order
    <2>1. orderOf(e) \in Order
        BY <1>1, <1>3, FoundKind
    <2> QED
        BY <1>1, <1>2, <1>3, <2>1 DEF Holds
<1>5. CASE c.op \in OrderOps \cup SubOps /\ c.at # "order"
    <2>1. orderOf(c) \in Order /\ orderOf(c) \in Locked(t)
        <3>1. orderOf(c) \in Order
            BY <1>5, FoundKind
        <3> QED
            BY <1>1, <1>5, <3>1 DEF Holds
    <2>2. Found(t) \subseteq {orderOf(c)} \cup In({orderOf(c)})
        <3>1. CASE c.at \in {"write", "sync"}
            BY <1>5, <3>1, FoundKind
        <3>2. CASE c.at = "slots"
            <4>1. c.open = {c.on} /\ c.pending = {} /\ c.on \in Order
                BY <1>1, <1>5, <3>2 DEF CallOK, OrderOps, SubOps
            <4>2. orderOf(c) = c.on
                BY <4>1, BansAssumption DEF BansAssumption, orderOf
            <4>3. Found(t) \subseteq In(c.open \cup c.pending)
                BY <3>2, FoundKind
            <4> QED
                BY <4>1, <4>2, <4>3 DEF In
        <3>3. CASE c.at = "commit"
            BY <3>3, FoundKind
        <3> QED
            BY <1>1, <1>5, <3>1, <3>2, <3>3 DEF CallOK, OrderOps, SubOps
    <2>3. orderOf(c) = orderOf(e)
        BY <1>2, <1>4, <2>1, <2>2, BansAssumption DEF BansAssumption, In
    <2> QED
        BY <1>1, <1>4, <2>1, <2>3
<1> QED
    BY <1>1, <1>5 DEF Holds, CallOK, CallShape, Ops, OrderOps, SubOps

LEMMA InCycleShows ==
    ASSUME TypeInv, LockInv, NEW t \in Tx, InCycle(t)
    PROVE  \E u \in Tx : call[u].op = "ban" /\ InCycle(u)
<1>1. PICK n \in 1..Cardinality(Tx) :
        \E p \in [1..n -> Tx] : p[1] = t /\ Circle(p, n)
    BY DEF InCycle
<1>2. PICK p \in [1..n -> Tx] : p[1] = t /\ Circle(p, n)
    BY <1>1
<1>3. CASE call[t].op = "ban"
    BY <1>3
<1>4. CASE call[t].op # "ban"
    <2> DEFINE next(i) == IF i = n THEN 1 ELSE i + 1
    <2>0. n \in Nat /\ n >= 1 /\ (Cardinality(Tx) \in Nat => n <= Cardinality(Tx))
        BY <1>1
    <2>1. \A i \in 1..n : next(i) \in 1..n /\ p[next(i)] \in BlockedBy(p[i])
        BY <1>2, <2>0 DEF Circle
    <2>2. n > 1
        BY <1>2, <2>0, <2>1 DEF BlockedBy
    <2>3. p[2] \in BlockedBy(t) /\ t \in BlockedBy(p[n]) /\ p[2] \in Tx /\ p[n] \in Tx
        <3>1. 1 \in 1..n /\ n \in 1..n /\ 2 \in 1..n /\ next(1) = 2 /\ next(n) = 1
            BY <2>0, <2>2
        <3> QED
            BY <1>2, <2>1, <3>1
    <2>4. Locked(t) # {}
        BY <2>3 DEF BlockedBy
    <2>5. call[p[2]].op = "ban"
        BY <1>4, <2>3, <2>4, OrderComesFirst
    <2> DEFINE q == [i \in 1..n |-> p[next(i)]]
    <2>6. q \in [1..n -> Tx] /\ q[1] = p[2]
        BY <2>0, <2>1, <2>2
    <2>7. Circle(q, n)
        <3> SUFFICES ASSUME NEW i \in 1..n PROVE q[next(i)] \in BlockedBy(q[i])
            BY DEF Circle
        <3>1. next(i) \in 1..n
            BY <2>1
        <3>2. q[next(i)] = p[next(next(i))] /\ q[i] = p[next(i)]
            BY <3>1
        <3> QED
            BY <2>1, <3>1, <3>2
    <2>8. InCycle(p[2])
        BY <1>1, <2>6, <2>7 DEF InCycle
    <2> QED
        BY <2>3, <2>5, <2>8
<1> QED
    BY <1>3, <1>4

\* Requests that lock an order before its submissions never wait for each other in
\* a circle, however many are at work: every deadlock has a ban in it
\* (bans.service.ts, ban).
THEOREM DeadlocksNeedBans == Spec => []DeadlockNeedsBan
<1>1. TypeInv /\ LockInv => DeadlockNeedsBan
    BY InCycleShows DEF DeadlockNeedsBan
<1> QED
    BY <1>1, Locking, PTL

-----------------------------------------------------------------------------
(* What requests know of the rows they hold *)

OVER == {"MODERATOR_REJECTED", "SLOT_EXPIRED", "DELETED"}

Own(c, o) == c.op = "ban" /\ OwnerOf[o] = c.on

\* An order a request holds: what was written of it is a takedown, what the request
\* is for, or no change of status.
HeldOrder(c, o, new, old) ==
    /\ old.status # "NEW"
    /\ \/ new.status = old.status
       \/ new.status = "CLOSED"
       \/ c.op \in OrderOps /\ c.on = o /\ new.status \in LIVE
       \/ Own(c, o) /\ new.status = "REJECTED"
    /\ new.byBan = old.byBan \/ Own(c, o)
    /\ Own(c, o) =>
        /\ o \in c.open \cup c.pending /\ new.status \in {"CLOSED", "REJECTED"}
        /\ new.status = "REJECTED" => o \in c.pending

HeldSub(c, s, new, old) ==
    /\ old.status # "NONE"
    /\ \/ new.status \in OVER \cup {old.status}
       \/ /\ c.op = "attachVideo" /\ c.on = s
          /\ new.status = "SUBMITTED" /\ old.status = "IN_PROGRESS"

\* What a request is about is there already, or is not there yet.
About(c) ==
    /\ c.op = "create" => db[c.on].status = "NEW"
    /\ c.op = "claim" => db[c.on].status = "NONE" /\ db[OrderOf[c.on]].status # "NEW"
    /\ c.op \in OrderOps => db[c.on].status # "NEW"
    /\ c.op \in SubOps => db[c.on].status # "NONE"
    /\ c.op = "ban" => \A o \in c.reserved \cup c.todo :
                            db[o].status # "NEW" /\ OwnerOf[o] # c.on
    /\ c.op = "ban" => \A o \in c.open \cup c.pending : OwnerOf[o] = c.on

\* A ban that has not come to its orders holds none; a request that has just locked
\* its order holds nothing else.
HoldsYet(c, rows) ==
    /\ c.op = "ban" /\ c.at \in BeforeClose => rows \subseteq User
    /\ c.op \in OrderOps \cup SubOps /\ c.at = "write" => rows = {orderOf(c)}

Unique == \A t, u \in Tx : t # u /\ call[t].op = call[u].op /\ call[t].op \in {"create", "claim"} =>
                call[t].on # call[u].on

StatusInv ==
    /\ \A s \in Sub : db[s].status # "NONE" => db[OrderOf[s]].status # "NEW"
    /\ Unique
    /\ \A t \in Tx : About(call[t]) /\ HoldsYet(call[t], Locked(t))
    /\ \A t \in Tx : \A o \in Locked(t) \cap Order : HeldOrder(call[t], o, mine[t][o], db[o])
    /\ \A t \in Tx : \A s \in Locked(t) \cap Sub : HeldSub(call[t], s, mine[t][s], db[s])

-----------------------------------------------------------------------------
(* What a ban has done, statement by statement *)

BeforeRemove == BeforeClose \cup {"close"}
BeforeVideos == BeforeSlots \cup {"slots"}
BeforeDelete == BeforeVideos \cup {"videos"}
BeforeReserved == BeforeDelete \cup {"delete"}

\* A row that still has to be found is among those a waiting statement found.
Waited(c, r) == c.waiting # {} => r \in c.waiting

\* The orders of the user, other than those that slipped through.
OrdersDone(c, o, row) ==
    /\ c.at \in {"pending", "close"} => (row.status = "OPEN" => o \in c.open)
    /\ c.at = "close" => (row.status = "OPEN" => Waited(c, o))
    /\ c.at \in {"close", "remove"} => (row.status \in FROZEN => o \in c.pending)
    /\ c.at = "remove" => (row.status \in FROZEN => Waited(c, o))
    /\ c.at \notin BeforeRemove => row.status # "OPEN"
    /\ c.at \notin BeforeSlots => row.status \notin FROZEN

\* The submissions to the orders the ban has closed or removed.
SlotsDone(c, s, row) ==
    /\ c.at = "slots" => (row.status = "IN_PROGRESS" => Waited(c, s))
    /\ c.at \notin BeforeVideos => row.status # "IN_PROGRESS"

VideosDone(c, s, row) ==
    /\ c.at = "videos" => (row.status = "SUBMITTED" => Waited(c, s))
    /\ c.at \notin BeforeDelete => row.status # "SUBMITTED"

\* The submissions of the user.
OwnDone(c, s, row) ==
    /\ c.at = "delete" => (row.status = "IN_PROGRESS" => Waited(c, s))
    /\ c.at \notin BeforeReserved => row.status # "IN_PROGRESS"
    /\ c.at = "own" => (row.status = "SUBMITTED" => Waited(c, s))
    /\ c.at \in {"freed", "commit"} => row.status # "SUBMITTED"

Done(c, v, rows, slips) ==
    /\ c.at \in {"open", "pending", "reserved"} => c.waiting = {}
    /\ \A o \in Order \ slips : OwnerOf[o] = c.on => OrdersDone(c, o, v[o])
    /\ \A s \in Sub \ slips : LET o == OrderOf[s] IN
        /\ OwnerOf[o] = c.on /\ o \in rows => SlotsDone(c, s, v[s])
        /\ OwnerOf[o] = c.on /\ o \in rows /\ v[o].status = "REJECTED" => VideosDone(c, s, v[s])
        /\ CreatorOf[s] = c.on => OwnDone(c, s, v[s])

\* What a ban that is committed leaves, also after it is lifted.
LeftClosed(rows, slips) ==
    \A s \in Sub \ slips : LET o == OrderOf[s] IN
        rows[o].byBan =>
            /\ rows[s].status # "IN_PROGRESS"
            /\ rows[o].status = "REJECTED" => rows[s].status # "SUBMITTED"

BanInv ==
    /\ \A t \in Tx : call[t].op = "ban" => Done(call[t], View(t), Locked(t), slipped)
    /\ LeftClosed(db, slipped)
    /\ BannedLeavesNothing

-----------------------------------------------------------------------------
(* What a step does to the committed rows *)

\* No order and no submission changes, and nobody is banned.
Quiet ==
    /\ slipped' = slipped
    /\ \A r \in Order \cup Sub : db'[r] = db[r]
    /\ \A u \in User : db'[u].banned => db[u].banned

LEMMA OrdersOrSubs ==
    /\ \A r \in Order \cup Sub : r \in Row /\ r \notin User
    /\ Order \subseteq Row /\ Sub \subseteq Row /\ User \subseteq Row
    /\ Order \cap Sub = {} /\ User \cap Order = {} /\ User \cap Sub = {}
    /\ OwnerOf \in [Order -> User] /\ OrderOf \in [Sub -> Order] /\ CreatorOf \in [Sub -> User]
    /\ \A s \in Sub : OwnerOf[OrderOf[s]] # CreatorOf[s]
BY BansAssumption DEF BansAssumption, Row

LEMMA StepKinds ==
    ASSUME TypeInv, NEW t \in Tx, Begin(t) \/ Step(t)
    PROVE  /\ Alone(t)
           /\ \/ Quiet \/ Create(t) \/ Claim(t)
              \/ (Lands(t) /\ (BanCommits(t) \/ Commits(t)))
<1>1. \A x : Inside(x) => Quiet /\ Alone(x)
    BY DEF Inside, Quiet
<1>2. ASSUME BanStep(t)
      PROVE  /\ Alone(t)
             /\ Quiet \/ (Lands(t) /\ (BanCommits(t) \/ Commits(t)))
    <2>1. CASE BanUser(t) \/ CloseOpenOrders(t) \/ RejectPendingOrders(t) \/ ExpireSlots(t)
        BY <1>1, <2>1, BanUserDoes, CloseOpenOrdersDoes, RejectPendingOrdersDoes, ExpireSlotsDoes
           DEF Writes
    <2>2. CASE RejectSubmitted(t) \/ DeleteInProgress(t) \/ BanLocksOrder(t) \/ RejectOwn(t)
                 \/ FreedOrder(t)
        BY <1>1, <2>2, RejectSubmittedDoes, DeleteInProgressDoes, BanLocksOrderDoes, RejectOwnDoes,
           FreedOrderDoes DEF Writes
    <2>3. CASE BanReadsOpen(t) \/ BanReadsPending(t) \/ BanReadsReserved(t)
        BY <1>1, <2>3, BanReadsOpenDoes, BanReadsPendingDoes, BanReadsReservedDoes DEF Thinks
    <2>4. CASE BanRefused(t)
        BY <1>1, <2>4, BanRefusedDoes DEF GivesUp
    <2>5. CASE BanCommits(t)
        BY <2>5, BanCommitsDoes DEF Lands
    <2>6. CASE Tighten(t)
        <3>1. /\ call[t].op = "tighten" /\ Alone(t) /\ slipped' = slipped
            BY <2>6, TightenDoes
        <3>2. call[t].on \in User
            BY <3>1 DEF TypeInv, CallOK
        <3> DEFINE final == db[call[t].on].final \/ db[call[t].on].banned
        <3>3. db' = [db EXCEPT ![call[t].on].final = final]
            BY <2>6, Zenon DEF Tighten
        <3> HIDE DEF final
        <3>4. \A r \in Order \cup Sub : db'[r] = db[r]
            BY <3>2, <3>3, OrdersOrSubs DEF TypeInv, Typed
        <3>5. \A u \in User : db'[u].banned => db[u].banned
            BY <3>2, <3>3, OrdersOrSubs DEF TypeInv, Typed, Fits, UserRow
        <3>6. Quiet
            BY <3>1, <3>4, <3>5 DEF Quiet
        <3> QED
            BY <3>1, <3>6
    <2> QED
        BY <1>2, <2>1, <2>2, <2>3, <2>4, <2>5, <2>6 DEF BanStep
<1>3. ASSUME RequestStep(t)
      PROVE  /\ Alone(t)
             /\ \/ Quiet \/ Create(t) \/ Claim(t)
                \/ (Lands(t) /\ (BanCommits(t) \/ Commits(t)))
    <2>1. CASE Create(t)
        BY <2>1, CreateDoes
    <2>2. CASE Claim(t)
        BY <2>2, ClaimDoes
    <2>3. CASE ClaimRefused(t) \/ Refused(t)
        BY <1>1, <2>3, ClaimRefusedDoes, RefusedDoes DEF GivesUp
    <2>4. CASE LockOrder(t) \/ Transition(t) \/ SyncFundBusy(t)
        <3>1. Writes(t)
            BY <2>4, LockOrderDoes, TransitionDoes, SyncFundBusyDoes
        <3> QED
            BY <1>1, <3>1 DEF Writes
    <2>5. CASE Commits(t)
        BY <2>5, CommitsDoes DEF Lands
    <2> QED
        BY <1>3, <2>1, <2>2, <2>3, <2>4, <2>5 DEF RequestStep
<1>4. ASSUME Begin(t) PROVE Alone(t) /\ Quiet
    <2>1. ASSUME NEW u \in User, Unban(t, u) PROVE Alone(t) /\ Quiet
        <3>1. /\ Alone(t) /\ slipped' = slipped
              /\ db' = [db EXCEPT ![u] = [banned |-> FALSE, final |-> FALSE]]
            BY <2>1, UnbanDoes
        <3> QED
            BY <3>1, OrdersOrSubs DEF Quiet, TypeInv, Typed
    <2>2. ASSUME NEW op, NEW on, NEW at, Begun(t, op, on, at) PROVE Alone(t) /\ Quiet
        BY <1>1, <2>2 DEF Begun, BeganAs, Thinks
    <2> QED
        BY <1>4, <2>1, <2>2, BeginDoes
<1>5. ASSUME Wait(t) PROVE Alone(t) /\ Quiet
    BY <1>1, <1>5, WaitDoes DEF Thinks
<1>6. ASSUME AbortDeadlocked(t) PROVE Alone(t) /\ Quiet
    BY <1>1, <1>6, AbortDeadlockedDoes DEF GivesUp
<1> QED
    BY <1>2, <1>3, <1>4, <1>5, <1>6 DEF Step

\* Rows held by others stay as they are, and nothing goes back to before it was made.
LEMMA RowsKept ==
    ASSUME TypeInv, LockInv, StatusInv, NEW t \in Tx, Begin(t) \/ Step(t)
    PROVE  /\ \A u \in Tx \ {t} : \A r \in Locked(u) \ User : db'[r] = db[r]
           /\ \A o \in Order : db[o].status # "NEW" => db'[o].status # "NEW"
           /\ \A s \in Sub : db[s].status # "NONE" => db'[s].status # "NONE"
           /\ \A s \in Sub : db'[s].status # "NONE" => db'[OrderOf[s]].status # "NEW"
<1> DEFINE c == call[t]
<1>1. /\ CallOK(c) /\ Typed(db) /\ DOMAIN db = Row /\ About(c)
      /\ \A r \in Order : db[r] \in OrderRow
      /\ \A r \in Sub : db[r] \in SubRow
      /\ \A u \in Tx : Locked(u) \subseteq Row
    BY OrdersOrSubs DEF TypeInv, Typed, Fits, StatusInv, Locked
<1>2. ASSUME Quiet
      PROVE  /\ \A u \in Tx \ {t} : \A r \in Locked(u) \ User : db'[r] = db[r]
             /\ \A o \in Order : db'[o] = db[o]
             /\ \A s \in Sub : db'[s] = db[s]
    BY <1>1, <1>2 DEF Quiet, Row
<1>3. CASE Quiet
    BY <1>2, <1>3, OrdersOrSubs DEF StatusInv
<1>4. CASE Create(t)
    <2>1. c.op = "create" /\ db' = [db EXCEPT ![c.on].status = "PENDING_MODERATION"]
        BY <1>4, CreateDoes
    <2>2. c.on \in Order /\ c.on \in Row /\ db[c.on].status = "NEW"
        BY <1>1, <2>1, OrdersOrSubs DEF CallOK, About
    <2>3. \A r \in Row : r # c.on => db'[r] = db[r]
        BY <1>1, <2>1
    <2>4. db'[c.on].status = "PENDING_MODERATION"
        BY <1>1, <2>1, <2>2 DEF OrderRow
    <2>5. \A u \in Tx : c.on \notin Locked(u)
        BY <2>2 DEF StatusInv, HeldOrder
    <2>6. \A s \in Sub : db[s].status # "NONE" => db'[OrderOf[s]].status # "NEW"
        BY <2>2, <2>3, <2>4, OrdersOrSubs DEF StatusInv
    <2> QED
        BY <1>1, <2>2, <2>3, <2>4, <2>5, <2>6, OrdersOrSubs
<1>5. CASE Claim(t)
    <2>1. c.op = "claim" /\ db' = [db EXCEPT ![c.on].status = "IN_PROGRESS"]
        BY <1>5, ClaimDoes
    <2>2. /\ c.on \in Sub /\ c.on \in Row /\ db[c.on].status = "NONE"
          /\ db[OrderOf[c.on]].status # "NEW"
        BY <1>1, <2>1, OrdersOrSubs DEF CallOK, About
    <2>3. \A r \in Row : r # c.on => db'[r] = db[r]
        BY <1>1, <2>1
    <2>4. db'[c.on].status = "IN_PROGRESS"
        BY <1>1, <2>1, <2>2 DEF SubRow
    <2>5. \A u \in Tx : c.on \notin Locked(u)
        BY <2>2 DEF StatusInv, HeldSub
    <2>6. \A s \in Sub : db'[OrderOf[s]] = db[OrderOf[s]]
        BY <2>2, <2>3, OrdersOrSubs
    <2>7. \A s \in Sub : db[s].status # "NONE" => db[OrderOf[s]].status # "NEW"
        BY DEF StatusInv
    <2> QED
        BY <1>1, <2>2, <2>3, <2>4, <2>5, <2>6, <2>7, OrdersOrSubs
<1>6. CASE Lands(t)
    <2>1. /\ \A r \in Row : db'[r] = IF r \in Locked(t) THEN mine[t][r] ELSE db[r]
          /\ Locked(t) \subseteq Row
        BY <1>6, ViewIs DEF Lands
    <2>2. \A u \in Tx \ {t} : \A r \in Locked(u) \ User : db'[r] = db[r]
        BY <1>1, <2>1 DEF LockInv, Apart
    <2>3. \A o \in Order : db[o].status # "NEW" => db'[o].status # "NEW"
        BY <2>1, OrdersOrSubs DEF StatusInv, HeldOrder, LIVE, FROZEN
    <2>4. \A s \in Sub : db[s].status # "NONE" <=> db'[s].status # "NONE"
        BY <2>1, OrdersOrSubs DEF StatusInv, HeldSub, OVER
    <2>5. \A s \in Sub : db'[s].status # "NONE" => db'[OrderOf[s]].status # "NEW"
        BY <2>3, <2>4, OrdersOrSubs DEF StatusInv
    <2> QED
        BY <2>2, <2>3, <2>4, <2>5
<1> QED
    BY <1>3, <1>4, <1>5, <1>6, StepKinds

\* What is known of the request of t is known after its step; of the others it
\* stays known.
LEMMA OthersStatus ==
    ASSUME TypeInv, LockInv, StatusInv, NEW t \in Tx, Begin(t) \/ Step(t), Unique',
           About(call[t])', HoldsYet(call[t], Locked(t))',
           \A o \in Locked(t)' \cap Order : HeldOrder(call'[t], o, mine'[t][o], db'[o]),
           \A s \in Locked(t)' \cap Sub : HeldSub(call'[t], s, mine'[t][s], db'[s])
    PROVE  StatusInv'
<1>1. \A s \in Sub : db'[s].status # "NONE" => db'[OrderOf[s]].status # "NEW"
    BY RowsKept
<1>2. ASSUME NEW u \in Tx, u # t
      PROVE  call'[u] = call[u] /\ mine'[u] = mine[u] /\ Locked(u)' = Locked(u)
    BY <1>2, StepKinds DEF Alone, Locked
<1>3. ASSUME NEW u \in Tx, u # t
      PROVE  About(call[u])'
    <2> DEFINE c == call[u]
    <2>1. CallOK(c) /\ c \in CallShape /\ About(c) /\ call'[u] = c
        BY <1>2, <1>3 DEF TypeInv, CallOK, StatusInv
    <2>2. c.op = "create" => db'[c.on].status = "NEW"
        <3>1. ASSUME c.op = "create" PROVE db'[c.on] = db[c.on]
            <4>1. c.on \in Order /\ db[c.on].status = "NEW"
                BY <2>1, <3>1 DEF CallOK, About
            <4>2. CASE Quiet
                BY <4>1, <4>2 DEF Quiet
            <4>3. CASE Create(t)
                <5>1. call[t].op = "create" /\ call[t].on # c.on
                    BY <1>3, <3>1, <4>3, CreateDoes DEF StatusInv, Unique
                <5>2. db' = [db EXCEPT ![call[t].on].status = "PENDING_MODERATION"]
                    BY <4>3, CreateDoes
                <5> QED
                    BY <4>1, <5>1, <5>2, OrdersOrSubs DEF TypeInv, Typed
            <4>4. CASE Claim(t)
                <5>1. call[t].op = "claim" /\ call[t].on \in Sub
                    BY <4>4, ClaimDoes DEF TypeInv, CallOK
                <5>2. db' = [db EXCEPT ![call[t].on].status = "IN_PROGRESS"]
                    BY <4>4, ClaimDoes
                <5> QED
                    BY <4>1, <5>1, <5>2, OrdersOrSubs DEF TypeInv, Typed
            <4>5. CASE Lands(t)
                <5>1. c.on \notin Locked(t)
                    BY <4>1 DEF StatusInv, HeldOrder
                <5> QED
                    BY <4>1, <4>5, <5>1, ViewIs, OrdersOrSubs DEF Lands
            <4> QED
                BY <4>2, <4>3, <4>4, <4>5, StepKinds
        <3> QED
            BY <2>1, <3>1 DEF About
    <2>3. c.op = "claim" => db'[c.on].status = "NONE"
        <3>1. ASSUME c.op = "claim" PROVE db'[c.on] = db[c.on]
            <4>1. c.on \in Sub /\ db[c.on].status = "NONE"
                BY <2>1, <3>1 DEF CallOK, About
            <4>2. CASE Quiet
                BY <4>1, <4>2 DEF Quiet
            <4>3. CASE Create(t)
                <5>1. call[t].op = "create" /\ call[t].on \in Order
                    BY <4>3, CreateDoes DEF TypeInv, CallOK
                <5>2. db' = [db EXCEPT ![call[t].on].status = "PENDING_MODERATION"]
                    BY <4>3, CreateDoes
                <5> QED
                    BY <4>1, <5>1, <5>2, OrdersOrSubs DEF TypeInv, Typed
            <4>4. CASE Claim(t)
                <5>1. call[t].op = "claim" /\ call[t].on # c.on
                    BY <1>3, <3>1, <4>4, ClaimDoes DEF StatusInv, Unique
                <5>2. db' = [db EXCEPT ![call[t].on].status = "IN_PROGRESS"]
                    BY <4>4, ClaimDoes
                <5> QED
                    BY <4>1, <5>1, <5>2, OrdersOrSubs DEF TypeInv, Typed
            <4>5. CASE Lands(t)
                <5>1. c.on \notin Locked(t)
                    BY <4>1 DEF StatusInv, HeldSub
                <5> QED
                    BY <4>1, <4>5, <5>1, ViewIs, OrdersOrSubs DEF Lands
            <4> QED
                BY <4>2, <4>3, <4>4, <4>5, StepKinds
        <3> QED
            BY <2>1, <3>1 DEF About
    <2>4. c.op = "claim" => db'[OrderOf[c.on]].status # "NEW"
        <3>1. c.op = "claim" => OrderOf[c.on] \in Order /\ db[OrderOf[c.on]].status # "NEW"
            BY <2>1, OrdersOrSubs DEF CallOK, About
        <3> QED
            BY <3>1, RowsKept
    <2>5. /\ c.op \in OrderOps => db'[c.on].status # "NEW"
          /\ c.op \in SubOps => db'[c.on].status # "NONE"
        BY <2>1, RowsKept DEF CallOK, About
    <2>6. c.op = "ban" => \A o \in c.reserved \cup c.todo :
                            db'[o].status # "NEW" /\ OwnerOf[o] # c.on
        BY <2>1, RowsKept DEF CallShape, About
    <2>7. c.op = "ban" => \A o \in c.open \cup c.pending : OwnerOf[o] = c.on
        BY <2>1 DEF About
    <2> QED
        BY <2>1, <2>2, <2>3, <2>4, <2>5, <2>6, <2>7 DEF About
<1>4. ASSUME NEW u \in Tx, u # t
      PROVE  /\ HoldsYet(call[u], Locked(u))'
             /\ \A o \in Locked(u)' \cap Order : HeldOrder(call'[u], o, mine'[u][o], db'[o])
             /\ \A s \in Locked(u)' \cap Sub : HeldSub(call'[u], s, mine'[u][s], db'[s])
    <2>1. HoldsYet(call[u], Locked(u))'
        BY <1>2, <1>4 DEF StatusInv, HoldsYet, orderOf
    <2>2. \A r \in Locked(u) \ User : db'[r] = db[r]
        BY <1>4, RowsKept
    <2>3. \A o \in Locked(u)' \cap Order : HeldOrder(call'[u], o, mine'[u][o], db'[o])
        BY <1>2, <1>4, <2>2, OrdersOrSubs DEF StatusInv
    <2>4. \A s \in Locked(u)' \cap Sub : HeldSub(call'[u], s, mine'[u][s], db'[s])
        BY <1>2, <1>4, <2>2, OrdersOrSubs DEF StatusInv
    <2> QED
        BY <2>1, <2>3, <2>4
<1>5. \A u \in Tx : About(call[u])' /\ HoldsYet(call[u], Locked(u))'
    BY <1>3, <1>4
<1>6. \A u \in Tx : \A o \in Locked(u)' \cap Order : HeldOrder(call'[u], o, mine'[u][o], db'[o])
    BY <1>4
<1>7. \A u \in Tx : \A s \in Locked(u)' \cap Sub : HeldSub(call'[u], s, mine'[u][s], db'[s])
    BY <1>4
<1> QED
    BY <1>1, <1>5, <1>6, <1>7 DEF StatusInv, HeldOrder, HeldSub, Own

LEMMA EndsStatus ==
    ASSUME TypeInv, LockInv, StatusInv, NEW t \in Tx, Begin(t) \/ Step(t),
           call'[t] = Idle, DOMAIN mine'[t] = {}
    PROVE  StatusInv'
<1>1. Idle.op = "none"
    BY DEF Idle
<1>2. Unique'
    BY <1>1, StepKinds DEF StatusInv, Unique, Alone
<1>3. About(call[t])' /\ HoldsYet(call[t], Locked(t))'
    BY <1>1 DEF About, HoldsYet, OrderOps, SubOps
<1> QED
    BY <1>2, <1>3, OthersStatus DEF Locked

LEMMA GoesOnStatus ==
    ASSUME TypeInv, LockInv, StatusInv, NEW t \in Tx, Begin(t) \/ Step(t), Inside(t),
           call'[t].op = call[t].op, call'[t].on = call[t].on,
           \/ call'[t].open = call[t].open /\ call'[t].pending = call[t].pending
           \/ call[t].op # "ban"
           \/ Locked(t) \subseteq User,
           call[t].op = "ban" => \A o \in call'[t].reserved \cup call'[t].todo :
                            db[o].status # "NEW" /\ OwnerOf[o] # call[t].on,
           call[t].op = "ban" =>
                \A o \in call'[t].open \cup call'[t].pending : OwnerOf[o] = call[t].on,
           HoldsYet(call'[t], Locked(t)'),
           Locked(t) \subseteq Locked(t)',
           \A r \in Locked(t) : mine'[t][r] = mine[t][r] \/ r \in Found(t),
           \A o \in Locked(t)' \ Locked(t) : o \in Found(t),
           \A o \in Found(t) \cap Order : HeldOrder(call'[t], o, mine'[t][o], db[o]),
           \A s \in Found(t) \cap Sub : HeldSub(call[t], s, mine'[t][s], db[s])
    PROVE  StatusInv'
<1> DEFINE c == call[t]
           d == call'[t]
<1>1. db' = db /\ Alone(t)
    BY DEF Inside
<1>2. Unique'
    BY <1>1 DEF StatusInv, Unique, Alone
<1>3. About(call[t])'
    BY <1>1 DEF StatusInv, About
<1>4. ASSUME NEW o \in Locked(t)' \cap Order
      PROVE  HeldOrder(d, o, mine'[t][o], db'[o])
    <2>1. CASE o \in Found(t)
        BY <1>1, <2>1
    <2>2. CASE o \notin Found(t)
        <3>1. o \in Locked(t) /\ mine'[t][o] = mine[t][o] /\ o \notin User
            BY <2>2, OrdersOrSubs
        <3>2. HeldOrder(c, o, mine[t][o], db[o])
            BY <3>1 DEF StatusInv
        <3> QED
            BY <1>1, <3>1, <3>2 DEF HeldOrder, Own
    <2> QED
        BY <2>1, <2>2
<1>5. ASSUME NEW s \in Locked(t)' \cap Sub
      PROVE  HeldSub(d, s, mine'[t][s], db'[s])
    <2>1. CASE s \in Found(t)
        BY <1>1, <2>1 DEF HeldSub
    <2>2. CASE s \notin Found(t)
        <3>1. s \in Locked(t) /\ mine'[t][s] = mine[t][s]
            BY <2>2
        <3>2. HeldSub(c, s, mine[t][s], db[s])
            BY <3>1 DEF StatusInv
        <3> QED
            BY <1>1, <3>1, <3>2 DEF HeldSub
    <2> QED
        BY <2>1, <2>2
<1>6. HoldsYet(call[t], Locked(t))'
    BY DEF HoldsYet, orderOf
<1> QED
    BY <1>2, <1>3, <1>4, <1>5, <1>6, OthersStatus

LEMMA ThinksStatus ==
    ASSUME TypeInv, LockInv, StatusInv, NEW t \in Tx, Begin(t) \/ Step(t), Thinks(t),
           call'[t].op = call[t].op, call'[t].on = call[t].on,
           \/ call'[t].open = call[t].open /\ call'[t].pending = call[t].pending
           \/ call[t].op # "ban"
           \/ Locked(t) \subseteq User,
           call[t].op = "ban" => \A o \in call'[t].reserved \cup call'[t].todo :
                            db[o].status # "NEW" /\ OwnerOf[o] # call[t].on,
           call[t].op = "ban" =>
                \A o \in call'[t].open \cup call'[t].pending : OwnerOf[o] = call[t].on,
           HoldsYet(call'[t], Locked(t))
    PROVE  StatusInv'
<1> DEFINE c == call[t]
           d == call'[t]
<1>1. db' = db /\ Alone(t) /\ Locked(t)' = Locked(t) /\ mine'[t] = mine[t]
    BY DEF Thinks, Inside, Locked
<1>2. Unique'
    BY <1>1 DEF StatusInv, Unique, Alone
<1>3. About(call[t])'
    BY <1>1 DEF StatusInv, About
<1>4. ASSUME NEW o \in Locked(t)' \cap Order
      PROVE  HeldOrder(d, o, mine'[t][o], db'[o])
    <2>1. HeldOrder(c, o, mine[t][o], db[o]) /\ o \notin User
        BY <1>1, OrdersOrSubs DEF StatusInv
    <2> QED
        BY <1>1, <2>1 DEF HeldOrder, Own
<1>5. ASSUME NEW s \in Locked(t)' \cap Sub
      PROVE  HeldSub(d, s, mine'[t][s], db'[s])
    <2>1. HeldSub(c, s, mine[t][s], db[s])
        BY <1>1 DEF StatusInv
    <2> QED
        BY <1>1, <2>1 DEF HeldSub
<1>6. HoldsYet(call[t], Locked(t))'
    BY <1>1 DEF HoldsYet, orderOf
<1> QED
    BY <1>2, <1>3, <1>4, <1>5, <1>6, OthersStatus

\* A request that writes: of the rows it finds only what is new has to be shown.
LEMMA WritesStatus ==
    ASSUME TypeInv, LockInv, StatusInv, NEW t \in Tx, Begin(t) \/ Step(t), Writes(t),
           call'[t].op = call[t].op, call'[t].on = call[t].on,
           \/ call'[t].open = call[t].open /\ call'[t].pending = call[t].pending
           \/ call[t].op # "ban",
           call[t].op = "ban" => \A o \in call'[t].reserved \cup call'[t].todo :
                                      o \in call[t].reserved \cup call[t].todo,
           HoldsYet(call'[t], Locked(t) \cup Found(t)),
           \A o \in Found(t) \cap Order : HeldOrder(call[t], o, mine'[t][o], db[o]),
           \A s \in Found(t) \cap Sub : HeldSub(call[t], s, mine'[t][s], db[s])
    PROVE  StatusInv'
<1> DEFINE c == call[t]
           d == call'[t]
<1>1. /\ Locked(t)' = Locked(t) \cup Found(t)
      /\ \A r \in Locked(t) \ Found(t) : mine'[t][r] = mine[t][r]
      /\ Inside(t)
    BY DEF Writes, Locked
<1>2. c.op = "ban" => \A o \in d.reserved \cup d.todo : db[o].status # "NEW" /\ OwnerOf[o] # c.on
    BY DEF StatusInv, About
<1>3. \A o \in Found(t) \cap Order : HeldOrder(d, o, mine'[t][o], db[o])
    BY DEF HeldOrder, Own
<1>4. c.op = "ban" => \A o \in d.open \cup d.pending : OwnerOf[o] = c.on
    BY DEF StatusInv, About
<1> QED
    BY <1>1, <1>2, <1>3, <1>4, GoesOnStatus

\* An order found and left in its status.
LEMMA KeepsOrder ==
    ASSUME TypeInv, LockInv, StatusInv, NEW t \in Tx, NEW o \in Order, NEW x,
           x.status = View(t)[o].status, x.byBan = View(t)[o].byBan,
           o \notin Locked(t) => db[o].status # "NEW" /\ ~Own(call[t], o)
    PROVE  HeldOrder(call[t], o, x, db[o])
<1>1. CASE o \in Locked(t)
    <2>1. View(t)[o] = mine[t][o]
        BY <1>1, ViewIs, OrdersOrSubs
    <2>2. HeldOrder(call[t], o, mine[t][o], db[o])
        BY <1>1 DEF StatusInv
    <2> QED
        BY <2>1, <2>2 DEF HeldOrder
<1>2. CASE o \notin Locked(t)
    <2>1. View(t)[o] = db[o]
        BY <1>2, ViewIs, OrdersOrSubs
    <2> QED
        BY <1>2, <2>1 DEF HeldOrder
<1> QED
    BY <1>1, <1>2

\* A submission found and left in its status, or ended.
LEMMA KeepsSub ==
    ASSUME TypeInv, LockInv, StatusInv, NEW t \in Tx, NEW s \in Sub, NEW x,
           x.status \in OVER \cup {View(t)[s].status}, View(t)[s].status # "NONE"
    PROVE  HeldSub(call[t], s, x, db[s])
<1>1. CASE s \in Locked(t)
    <2>1. View(t)[s] = mine[t][s]
        BY <1>1, ViewIs, OrdersOrSubs
    <2>2. HeldSub(call[t], s, mine[t][s], db[s])
        BY <1>1 DEF StatusInv
    <2> QED
        BY <2>1, <2>2 DEF HeldSub
<1>2. CASE s \notin Locked(t)
    <2>1. View(t)[s] = db[s]
        BY <1>2, ViewIs, OrdersOrSubs
    <2> QED
        BY <1>2, <2>1 DEF HeldSub
<1> QED
    BY <1>1, <1>2

\* Writing the pause of an order moves no status.
LEMMA SyncedStatus ==
    ASSUME NEW r, NEW x, Fits(r, x), r \in Order \cup Sub, NEW b
    PROVE  /\ synced(x, b).status = x.status
           /\ r \in Order => synced(x, b).byBan = x.byBan
BY RowFields DEF Fits, synced, OrderRow, SubRow

\* The slots and videos a statement finds are there.
LEMMA FoundSubs ==
    ASSUME TypeInv, NEW t \in Tx
    PROVE  LET c == call[t] IN
        /\ c.at \in {"slots", "delete"} => \A s \in Found(t) : s \in Sub /\ View(t)[s].status = "IN_PROGRESS"
        /\ c.at \in {"videos", "own"} => \A s \in Found(t) : s \in Sub /\ View(t)[s].status = "SUBMITTED"
        /\ c.at = "freed" => \A r \in Found(t) :
                r = Lowest(c.todo) \/ (r \in Sub /\ View(t)[r].status = "IN_PROGRESS")
        /\ c.at = "sync" => \A r \in Found(t) :
                r = orderOf(c) \/ (r \in Sub /\ View(t)[r].status = "IN_PROGRESS")
        /\ c.at = "write" => \A r \in Found(t) :
                r = c.on \/ (r \in Sub /\ View(t)[r].status = "IN_PROGRESS")
<1> DEFINE c == call[t]
<1>1. c.at \in {"slots", "delete"} => \A s \in Found(t) : s \in Sub /\ View(t)[s].status = "IN_PROGRESS"
    <2>1. c.at = "slots" => \A s \in Found(t) : s \in Sub /\ View(t)[s].status = "IN_PROGRESS"
        BY WhereIs DEF In
    <2>2. c.at = "delete" => \A s \in Found(t) : s \in Sub /\ View(t)[s].status = "IN_PROGRESS"
        BY WhereIs DEF Of
    <2> QED
        BY <2>1, <2>2
<1>2. c.at \in {"videos", "own"} => \A s \in Found(t) : s \in Sub /\ View(t)[s].status = "SUBMITTED"
    <2>1. c.at = "videos" => \A s \in Found(t) : s \in Sub /\ View(t)[s].status = "SUBMITTED"
        BY WhereIs DEF In
    <2>2. c.at = "own" => \A s \in Found(t) : s \in Sub /\ View(t)[s].status = "SUBMITTED"
        BY WhereIs DEF Of
    <2> QED
        BY <2>1, <2>2
<1>3. c.at = "freed" => \A r \in Found(t) :
                r = Lowest(c.todo) \/ (r \in Sub /\ View(t)[r].status = "IN_PROGRESS")
    BY WhereIs DEF SyncRows, Slots, In
<1>4. c.at = "sync" => \A r \in Found(t) :
                r = orderOf(c) \/ (r \in Sub /\ View(t)[r].status = "IN_PROGRESS")
    BY WhereIs DEF SyncRows, Slots, In
<1>5. c.at = "write" => \A r \in Found(t) :
                r = c.on \/ (r \in Sub /\ View(t)[r].status = "IN_PROGRESS")
    <2>1. \A r \in MovedSlots(View(t), c.op, c.on) : r \in Sub /\ View(t)[r].status = "IN_PROGRESS"
        BY DEF MovedSlots, Slots, In
    <2>2. c.at = "write" => Found(t) \subseteq {c.on} \cup MovedSlots(View(t), c.op, c.on)
        BY WhereIs
    <2> QED
        BY <2>1, <2>2
<1> QED
    BY <1>1, <1>2, <1>3, <1>4, <1>5

LEMMA BanStatus ==
    ASSUME TypeInv, LockInv, StatusInv, NEW t \in Tx, Begin(t) \/ Step(t), BanStep(t)
    PROVE  StatusInv'
<1> DEFINE c == call[t]
           d == call'[t]
<1>1. /\ CallOK(c) /\ c \in CallShape /\ About(c) /\ HoldsYet(c, Locked(t))
      /\ \A r \in Found(t) : r \in Row /\ Fits(r, View(t)[r])
      /\ c.open \subseteq Order /\ c.pending \subseteq Order /\ c.todo \subseteq Order
    BY SeenFits, FoundKind DEF TypeInv, CallOK, CallShape, StatusInv
<1>2. \A o \in Order : Own(c, o) <=> c.op = "ban" /\ OwnerOf[o] = c.on
    BY DEF Own
<1>3. ASSUME BanUser(t) PROVE StatusInv'
    <2>1. /\ c.op = "ban" /\ c.at = "user" /\ Writes(t)
          /\ d = [c EXCEPT !.at = "open", !.waiting = {}]
        BY <1>3, BanUserDoes
    <2>2. /\ d.op = "ban" /\ d.on = c.on /\ d.at = "open" /\ d.open = c.open
          /\ d.pending = c.pending /\ d.todo = c.todo /\ d.reserved = c.reserved
        BY <1>1, <2>1 DEF CallShape
    <2>3. Found(t) \subseteq {c.on} /\ c.on \in User /\ Locked(t) = {}
        <3>1. Found(t) \subseteq {c.on}
            BY <2>1, FoundKind
        <3> QED
            BY <1>1, <2>1, <3>1 DEF CallOK, LockInv, Holds
    <2>4. Found(t) \cap Order = {} /\ Found(t) \cap Sub = {}
        BY <2>3, OrdersOrSubs
    <2>5. HoldsYet(d, Locked(t) \cup Found(t))
        BY <2>2, <2>3 DEF HoldsYet, OrderOps, SubOps
    <2> QED
        BY <2>1, <2>2, <2>4, <2>5, WritesStatus
<1>4. ASSUME BanRefused(t) PROVE StatusInv'
    <2>1. GivesUp(t)
        BY <1>4, BanRefusedDoes
    <2> QED
        BY <2>1, EndsStatus DEF GivesUp, Nothing
<1>5. ASSUME BanReadsOpen(t) PROVE StatusInv'
    <2> DEFINE read == {o \in Order : OwnerOf[o] = c.on /\ View(t)[o].status = "OPEN"}
    <2>1. /\ c.op = "ban" /\ c.at = "open" /\ Thinks(t)
          /\ d = [c EXCEPT !.at = "pending", !.open = read]
        BY <1>5, BanReadsOpenDoes
    <2>2. \A o \in read : OwnerOf[o] = c.on
        OBVIOUS
    <2> HIDE DEF read
    <2>3. /\ d.op = "ban" /\ d.on = c.on /\ d.at = "pending" /\ d.open = read
          /\ d.pending = c.pending /\ d.todo = c.todo /\ d.reserved = c.reserved
        BY <1>1, <2>1 DEF CallShape
    <2>4. Locked(t) \subseteq User
        BY <1>1, <2>1 DEF HoldsYet, BeforeClose
    <2>5. HoldsYet(d, Locked(t))
        BY <2>3, <2>4 DEF HoldsYet, OrderOps, SubOps
    <2>6. \A o \in d.open \cup d.pending : OwnerOf[o] = c.on
        BY <1>1, <2>1, <2>2, <2>3 DEF About
    <2>7. \A o \in d.reserved \cup d.todo : db[o].status # "NEW" /\ OwnerOf[o] # c.on
        BY <1>1, <2>1, <2>3 DEF About
    <2> QED
        BY <2>1, <2>3, <2>4, <2>5, <2>6, <2>7, ThinksStatus
<1>6. ASSUME BanReadsPending(t) PROVE StatusInv'
    <2> DEFINE read == {o \in Order : OwnerOf[o] = c.on /\ View(t)[o].status \in FROZEN}
    <2>1. /\ c.op = "ban" /\ c.at = "pending" /\ Thinks(t)
          /\ d = [c EXCEPT !.at = "close", !.pending = read]
        BY <1>6, BanReadsPendingDoes
    <2>2. \A o \in read : OwnerOf[o] = c.on
        OBVIOUS
    <2> HIDE DEF read
    <2>3. /\ d.op = "ban" /\ d.on = c.on /\ d.at = "close" /\ d.pending = read
          /\ d.open = c.open /\ d.todo = c.todo /\ d.reserved = c.reserved
        BY <1>1, <2>1 DEF CallShape
    <2>4. Locked(t) \subseteq User
        BY <1>1, <2>1 DEF HoldsYet, BeforeClose
    <2>5. HoldsYet(d, Locked(t))
        BY <2>3, <2>4 DEF HoldsYet, OrderOps, SubOps
    <2>6. \A o \in d.open \cup d.pending : OwnerOf[o] = c.on
        BY <1>1, <2>1, <2>2, <2>3 DEF About
    <2>7. \A o \in d.reserved \cup d.todo : db[o].status # "NEW" /\ OwnerOf[o] # c.on
        BY <1>1, <2>1, <2>3 DEF About
    <2> QED
        BY <2>1, <2>3, <2>4, <2>5, <2>6, <2>7, ThinksStatus
<1>7. ASSUME CloseOpenOrders(t) PROVE StatusInv'
    <2>1. /\ c.op = "ban" /\ c.at = "close" /\ Writes(t)
          /\ \A r \in Found(t) :
                mine'[t][r] = [View(t)[r] EXCEPT !.status = "CLOSED", !.byBan = TRUE]
          /\ d = [c EXCEPT !.at = "remove", !.waiting = {}]
        BY <1>7, CloseOpenOrdersDoes
    <2>2. /\ d.op = "ban" /\ d.on = c.on /\ d.at = "remove" /\ d.open = c.open
          /\ d.pending = c.pending /\ d.todo = c.todo /\ d.reserved = c.reserved
        BY <1>1, <2>1 DEF CallShape
    <2>3. Found(t) \subseteq {o \in c.open : View(t)[o].status = "OPEN"}
        BY <2>1, WhereIs
    <2>4. Found(t) \cap Sub = {}
        BY <1>1, <2>3, OrdersOrSubs
    <2>5. ASSUME NEW o \in Found(t)
          PROVE  HeldOrder(c, o, mine'[t][o], db[o])
        <3>1. o \in c.open /\ o \in Order /\ Own(c, o) /\ View(t)[o].status = "OPEN"
            BY <1>1, <2>1, <2>3 DEF Own, About
        <3>2. db[o].status # "NEW"
            <4>1. CASE o \in Locked(t)
                BY <3>1, <4>1 DEF StatusInv, HeldOrder
            <4>2. CASE o \notin Locked(t)
                BY <3>1, <4>2, ViewIs, OrdersOrSubs DEF FROZEN
            <4> QED
                BY <4>1, <4>2
        <3>3. View(t)[o] \in OrderRow
            BY <1>1, <3>1 DEF Fits
        <3>4. mine'[t][o].status = "CLOSED"
            BY <2>1, <3>3 DEF OrderRow
        <3> QED
            BY <3>1, <3>2, <3>4 DEF HeldOrder
    <2>6. HoldsYet(d, Locked(t) \cup Found(t))
        BY <2>2 DEF HoldsYet, BeforeClose, OrderOps, SubOps
    <2> QED
        BY <2>1, <2>2, <2>4, <2>5, <2>6, WritesStatus
<1>8. ASSUME RejectPendingOrders(t) PROVE StatusInv'
    <2>1. /\ c.op = "ban" /\ c.at = "remove" /\ Writes(t)
          /\ \A r \in Found(t) :
                mine'[t][r] = [View(t)[r] EXCEPT !.status = "REJECTED", !.byBan = TRUE]
          /\ d = [c EXCEPT !.at = "slots", !.waiting = {}]
        BY <1>8, RejectPendingOrdersDoes
    <2>2. /\ d.op = "ban" /\ d.on = c.on /\ d.at = "slots" /\ d.open = c.open
          /\ d.pending = c.pending /\ d.todo = c.todo /\ d.reserved = c.reserved
        BY <1>1, <2>1 DEF CallShape
    <2>3. Found(t) \subseteq {o \in c.pending : View(t)[o].status \in FROZEN}
        BY <2>1, WhereIs
    <2>4. Found(t) \cap Sub = {}
        BY <1>1, <2>3, OrdersOrSubs
    <2>5. ASSUME NEW o \in Found(t)
          PROVE  HeldOrder(c, o, mine'[t][o], db[o])
        <3>1. o \in c.pending /\ o \in Order /\ Own(c, o) /\ View(t)[o].status \in FROZEN
            BY <1>1, <2>1, <2>3 DEF Own, About
        <3>2. db[o].status # "NEW"
            <4>1. CASE o \in Locked(t)
                BY <3>1, <4>1 DEF StatusInv, HeldOrder
            <4>2. CASE o \notin Locked(t)
                BY <3>1, <4>2, ViewIs, OrdersOrSubs DEF FROZEN
            <4> QED
                BY <4>1, <4>2
        <3>3. View(t)[o] \in OrderRow
            BY <1>1, <3>1 DEF Fits
        <3>4. mine'[t][o].status = "REJECTED"
            BY <2>1, <3>3 DEF OrderRow
        <3> QED
            BY <3>1, <3>2, <3>4 DEF HeldOrder
    <2>6. HoldsYet(d, Locked(t) \cup Found(t))
        BY <2>2 DEF HoldsYet, BeforeClose, OrderOps, SubOps
    <2> QED
        BY <2>1, <2>2, <2>4, <2>5, <2>6, WritesStatus
<1>9. ASSUME ExpireSlots(t) PROVE StatusInv'
    <2>1. /\ c.at = "slots" /\ Writes(t)
          /\ \A r \in Found(t) : mine'[t][r] = [View(t)[r] EXCEPT !.status = "SLOT_EXPIRED"]
          /\ d = [c EXCEPT !.waiting = {}, !.at = IF c.op = "ban" THEN "videos" ELSE "commit"]
        BY <1>9, ExpireSlotsDoes
    <2>2. /\ d.op = c.op /\ d.on = c.on /\ d.at \notin BeforeClose \cup {"write"}
          /\ d.open = c.open /\ d.pending = c.pending
          /\ d.todo \in {c.todo, c.reserved} /\ d.reserved = c.reserved
        BY <1>1, <2>1 DEF CallShape, BeforeClose
    <2>3. \A s \in Found(t) : s \in Sub /\ View(t)[s].status # "NONE"
        BY <2>1, FoundSubs
    <2>4. Found(t) \cap Order = {}
        BY <2>3, OrdersOrSubs
    <2>5. ASSUME NEW s \in Found(t)
          PROVE  HeldSub(c, s, mine'[t][s], db[s])
        <3>1. View(t)[s] \in SubRow
            BY <1>1, <2>3 DEF Fits
        <3>2. mine'[t][s].status = "SLOT_EXPIRED"
            BY <2>1, <3>1 DEF SubRow
        <3> QED
            BY <2>3, <3>2, KeepsSub DEF OVER
    <2>6. HoldsYet(d, Locked(t) \cup Found(t))
        BY <2>2 DEF HoldsYet
    <2>7. \A o \in d.reserved \cup d.todo : o \in c.reserved \cup c.todo
        BY <2>2
    <2> QED
        BY <2>1, <2>2, <2>4, <2>5, <2>6, <2>7, WritesStatus
<1>10. ASSUME RejectSubmitted(t) PROVE StatusInv'
    <2>1. /\ c.op = "ban" /\ c.at = "videos" /\ Writes(t)
          /\ \A r \in Found(t) : mine'[t][r] = [View(t)[r] EXCEPT !.status = "MODERATOR_REJECTED"]
          /\ d = [c EXCEPT !.at = "delete", !.waiting = {}]
        BY <1>10, RejectSubmittedDoes
    <2>2. /\ d.op = c.op /\ d.on = c.on /\ d.at \notin BeforeClose \cup {"write"}
          /\ d.open = c.open /\ d.pending = c.pending
          /\ d.todo \in {c.todo, c.reserved} /\ d.reserved = c.reserved
        BY <1>1, <2>1 DEF CallShape, BeforeClose
    <2>3. \A s \in Found(t) : s \in Sub /\ View(t)[s].status # "NONE"
        BY <2>1, FoundSubs
    <2>4. Found(t) \cap Order = {}
        BY <2>3, OrdersOrSubs
    <2>5. ASSUME NEW s \in Found(t)
          PROVE  HeldSub(c, s, mine'[t][s], db[s])
        <3>1. View(t)[s] \in SubRow
            BY <1>1, <2>3 DEF Fits
        <3>2. mine'[t][s].status = "MODERATOR_REJECTED"
            BY <2>1, <3>1 DEF SubRow
        <3> QED
            BY <2>3, <3>2, KeepsSub DEF OVER
    <2>6. HoldsYet(d, Locked(t) \cup Found(t))
        BY <2>2 DEF HoldsYet
    <2>7. \A o \in d.reserved \cup d.todo : o \in c.reserved \cup c.todo
        BY <2>2
    <2> QED
        BY <2>1, <2>2, <2>4, <2>5, <2>6, <2>7, WritesStatus
<1>11. ASSUME DeleteInProgress(t) PROVE StatusInv'
    <2>1. /\ c.op = "ban" /\ c.at = "delete" /\ Writes(t)
          /\ \A r \in Found(t) : mine'[t][r] = [View(t)[r] EXCEPT !.status = "DELETED"]
          /\ d = [c EXCEPT !.at = "reserved", !.waiting = {}]
        BY <1>11, DeleteInProgressDoes
    <2>2. /\ d.op = c.op /\ d.on = c.on /\ d.at \notin BeforeClose \cup {"write"}
          /\ d.open = c.open /\ d.pending = c.pending
          /\ d.todo \in {c.todo, c.reserved} /\ d.reserved = c.reserved
        BY <1>1, <2>1 DEF CallShape, BeforeClose
    <2>3. \A s \in Found(t) : s \in Sub /\ View(t)[s].status # "NONE"
        BY <2>1, FoundSubs
    <2>4. Found(t) \cap Order = {}
        BY <2>3, OrdersOrSubs
    <2>5. ASSUME NEW s \in Found(t)
          PROVE  HeldSub(c, s, mine'[t][s], db[s])
        <3>1. View(t)[s] \in SubRow
            BY <1>1, <2>3 DEF Fits
        <3>2. mine'[t][s].status = "DELETED"
            BY <2>1, <3>1 DEF SubRow
        <3> QED
            BY <2>3, <3>2, KeepsSub DEF OVER
    <2>6. HoldsYet(d, Locked(t) \cup Found(t))
        BY <2>2 DEF HoldsYet
    <2>7. \A o \in d.reserved \cup d.todo : o \in c.reserved \cup c.todo
        BY <2>2
    <2> QED
        BY <2>1, <2>2, <2>4, <2>5, <2>6, <2>7, WritesStatus
<1>12. ASSUME RejectOwn(t) PROVE StatusInv'
    <2>1. /\ c.op = "ban" /\ c.at = "own" /\ Writes(t)
          /\ \A r \in Found(t) : mine'[t][r] = [View(t)[r] EXCEPT !.status = "MODERATOR_REJECTED"]
          /\ d = [c EXCEPT !.todo = c.reserved, !.waiting = {},
                           !.at = IF c.reserved = {} THEN "commit" ELSE "freed"]
        BY <1>12, RejectOwnDoes
    <2>2. /\ d.op = c.op /\ d.on = c.on /\ d.at \notin BeforeClose \cup {"write"}
          /\ d.open = c.open /\ d.pending = c.pending
          /\ d.todo \in {c.todo, c.reserved} /\ d.reserved = c.reserved
        BY <1>1, <2>1 DEF CallShape, BeforeClose
    <2>3. \A s \in Found(t) : s \in Sub /\ View(t)[s].status # "NONE"
        BY <2>1, FoundSubs
    <2>4. Found(t) \cap Order = {}
        BY <2>3, OrdersOrSubs
    <2>5. ASSUME NEW s \in Found(t)
          PROVE  HeldSub(c, s, mine'[t][s], db[s])
        <3>1. View(t)[s] \in SubRow
            BY <1>1, <2>3 DEF Fits
        <3>2. mine'[t][s].status = "MODERATOR_REJECTED"
            BY <2>1, <3>1 DEF SubRow
        <3> QED
            BY <2>3, <3>2, KeepsSub DEF OVER
    <2>6. HoldsYet(d, Locked(t) \cup Found(t))
        BY <2>2 DEF HoldsYet
    <2>7. \A o \in d.reserved \cup d.todo : o \in c.reserved \cup c.todo
        BY <2>2
    <2> QED
        BY <2>1, <2>2, <2>4, <2>5, <2>6, <2>7, WritesStatus
<1>13. ASSUME BanReadsReserved(t) PROVE StatusInv'
    <2> DEFINE read == {OrderOf[s] : s \in {x \in Of(c.on) : View(t)[x].status = "SUBMITTED"}}
    <2>1. /\ c.op = "ban" /\ c.at = "reserved" /\ Thinks(t)
          /\ d = [c EXCEPT !.at = IF read = {} THEN "own" ELSE "lock",
                           !.reserved = read, !.todo = read]
        BY <1>13, BanReadsReservedDoes
    <2>2. \A o \in read : db[o].status # "NEW" /\ OwnerOf[o] # c.on
        <3> SUFFICES ASSUME NEW s \in Sub, CreatorOf[s] = c.on, View(t)[s].status = "SUBMITTED"
                     PROVE  db[OrderOf[s]].status # "NEW" /\ OwnerOf[OrderOf[s]] # c.on
            BY DEF Of
        <3>1. db[s].status # "NONE"
            <4>1. CASE s \in Locked(t)
                BY <4>1 DEF StatusInv, HeldSub
            <4>2. CASE s \notin Locked(t)
                BY <4>2, ViewIs, OrdersOrSubs
            <4> QED
                BY <4>1, <4>2
        <3> QED
            BY <3>1, OrdersOrSubs DEF StatusInv
    <2> HIDE DEF read
    <2>3. /\ d.op = "ban" /\ d.on = c.on /\ d.at \in {"own", "lock"} /\ d.open = c.open
          /\ d.pending = c.pending /\ d.todo = read /\ d.reserved = read
        BY <1>1, <2>1 DEF CallShape
    <2>4. HoldsYet(d, Locked(t))
        BY <2>3 DEF HoldsYet, BeforeClose, OrderOps, SubOps
    <2>5. \A o \in d.open \cup d.pending : OwnerOf[o] = c.on
        BY <1>1, <2>1, <2>3 DEF About
    <2> QED
        BY <2>1, <2>2, <2>3, <2>4, <2>5, ThinksStatus
<1>14. ASSUME BanLocksOrder(t) PROVE StatusInv'
    <2> DEFINE rest == c.todo \ {Lowest(c.todo)}
    <2>1. /\ c.op = "ban" /\ c.at = "lock" /\ Writes(t)
          /\ \A r \in Found(t) : mine'[t][r] = View(t)[r]
          /\ d = [c EXCEPT !.at = IF rest = {} THEN "own" ELSE "lock",
                           !.todo = rest, !.waiting = {}, !.forUpdate = c.reserved \ rest]
        BY <1>14, BanLocksOrderDoes
    <2>2. Found(t) \subseteq {Lowest(c.todo)} /\ Lowest(c.todo) \in c.todo
        BY <2>1, FoundKind
    <2>3. rest \subseteq c.todo
        OBVIOUS
    <2> HIDE DEF rest
    <2>4. /\ d.op = "ban" /\ d.on = c.on /\ d.at \in {"own", "lock"} /\ d.open = c.open
          /\ d.pending = c.pending /\ d.todo = rest /\ d.reserved = c.reserved
        BY <1>1, <2>1 DEF CallShape
    <2>5. ASSUME NEW o \in Found(t)
          PROVE  o \in Order /\ HeldOrder(c, o, mine'[t][o], db[o])
        <3>1. o \in c.todo /\ o \in Order /\ db[o].status # "NEW" /\ ~Own(c, o)
            BY <1>1, <2>1, <2>2 DEF About, Own
        <3> QED
            BY <2>1, <3>1, KeepsOrder
    <2>6. HoldsYet(d, Locked(t) \cup Found(t))
        BY <2>4 DEF HoldsYet, BeforeClose, OrderOps, SubOps
    <2>7. Found(t) \cap Sub = {}
        BY <2>5, OrdersOrSubs
    <2>8. \A o \in d.reserved \cup d.todo : o \in c.reserved \cup c.todo
        BY <2>3, <2>4
    <2> QED
        BY <2>1, <2>4, <2>5, <2>6, <2>7, <2>8, WritesStatus
<1>15. ASSUME FreedOrder(t) PROVE StatusInv'
    <2> DEFINE rest == c.todo \ {Lowest(c.todo)}
               busy == FundBusy(View(t), Lowest(c.todo))
    <2>1. /\ c.op = "ban" /\ c.at = "freed" /\ Writes(t)
          /\ \A r \in Found(t) : mine'[t][r] = synced(View(t)[r], busy)
          /\ d = [c EXCEPT !.at = IF rest = {} THEN "commit" ELSE "freed",
                           !.todo = rest, !.waiting = {}]
        BY <1>15, FreedOrderDoes
    <2>2. Lowest(c.todo) \in c.todo
        BY <2>1, FoundKind
    <2>3. rest \subseteq c.todo
        OBVIOUS
    <2> HIDE DEF rest, busy
    <2>4. /\ d.op = "ban" /\ d.on = c.on /\ d.at \in {"commit", "freed"} /\ d.open = c.open
          /\ d.pending = c.pending /\ d.todo = rest /\ d.reserved = c.reserved
        BY <1>1, <2>1 DEF CallShape
    <2>5. \A r \in Found(t) :
            r = Lowest(c.todo) \/ (r \in Sub /\ View(t)[r].status = "IN_PROGRESS")
        BY <2>1, FoundSubs
    <2>6. ASSUME NEW o \in Found(t) \cap Order
          PROVE  HeldOrder(c, o, mine'[t][o], db[o])
        <3>1. o \in c.todo /\ db[o].status # "NEW" /\ ~Own(c, o)
            BY <1>1, <2>1, <2>2, <2>5, OrdersOrSubs DEF About, Own
        <3>2. mine'[t][o].status = View(t)[o].status /\ mine'[t][o].byBan = View(t)[o].byBan
            BY <1>1, <2>1, SyncedStatus
        <3> QED
            BY <3>1, <3>2, KeepsOrder
    <2>7. ASSUME NEW s \in Found(t) \cap Sub
          PROVE  HeldSub(c, s, mine'[t][s], db[s])
        <3>1. View(t)[s].status = "IN_PROGRESS"
            BY <1>1, <2>2, <2>5, OrdersOrSubs
        <3>2. mine'[t][s].status = View(t)[s].status
            BY <1>1, <2>1, SyncedStatus
        <3> QED
            BY <3>1, <3>2, KeepsSub
    <2>8. HoldsYet(d, Locked(t) \cup Found(t))
        BY <2>4 DEF HoldsYet, BeforeClose, OrderOps, SubOps
    <2>9. \A o \in d.reserved \cup d.todo : o \in c.reserved \cup c.todo
        BY <2>3, <2>4
    <2> QED
        BY <2>1, <2>4, <2>6, <2>7, <2>8, <2>9, WritesStatus
<1>16. ASSUME BanCommits(t) PROVE StatusInv'
    <2>1. Lands(t)
        BY <1>16, BanCommitsDoes
    <2> QED
        BY <2>1, EndsStatus DEF Lands, Nothing
<1>17. ASSUME Tighten(t) PROVE StatusInv'
    <2>1. c.op = "tighten" /\ mine' = mine /\ d = Idle
        BY <1>17, TightenDoes
    <2>2. DOMAIN mine'[t] = {}
        BY <2>1 DEF LockInv, Holds, Locked
    <2> QED
        BY <2>1, <2>2, EndsStatus
<1> QED
    BY <1>3, <1>4, <1>5, <1>6, <1>7, <1>8, <1>9, <1>10, <1>11, <1>12, <1>13, <1>14, <1>15, <1>16, <1>17 DEF BanStep

LEMMA RequestStatus ==
    ASSUME TypeInv, LockInv, StatusInv, NEW t \in Tx, Begin(t) \/ Step(t), RequestStep(t)
    PROVE  StatusInv'
<1> DEFINE c == call[t]
           d == call'[t]
<1>1. /\ CallOK(c) /\ c \in CallShape /\ About(c) /\ HoldsYet(c, Locked(t)) /\ Holds(c, Locked(t))
      /\ \A r \in Found(t) : r \in Row /\ Fits(r, View(t)[r])
    BY SeenFits, FoundKind DEF TypeInv, CallOK, CallShape, StatusInv, LockInv
<1>2. ASSUME Create(t) \/ Claim(t) PROVE StatusInv'
    <2>1. c.op \in {"create", "claim"} /\ mine' = mine /\ d = Idle
        BY <1>2, CreateDoes, ClaimDoes
    <2>2. DOMAIN mine'[t] = {}
        BY <1>1, <2>1 DEF Holds, Locked
    <2> QED
        BY <2>1, <2>2, EndsStatus
<1>3. ASSUME ClaimRefused(t) \/ Refused(t) PROVE StatusInv'
    <2>1. GivesUp(t)
        BY <1>3, ClaimRefusedDoes, RefusedDoes
    <2> QED
        BY <2>1, EndsStatus DEF GivesUp, Nothing
<1>4. ASSUME Commits(t) PROVE StatusInv'
    <2>1. Lands(t)
        BY <1>4, CommitsDoes
    <2> QED
        BY <2>1, EndsStatus DEF Lands, Nothing
<1>5. c.at \in {"order", "write", "sync"} /\ c.op # "tighten" =>
        /\ c.op \in OrderOps \cup SubOps /\ c.op # "ban"
        /\ orderOf(c) \in Order /\ ~Own(c, orderOf(c)) /\ db[orderOf(c)].status # "NEW"
        /\ c.op \in OrderOps => c.on \in Order /\ orderOf(c) = c.on
        /\ c.op \in SubOps => c.on \in Sub /\ orderOf(c) = OrderOf[c.on]
    <2> SUFFICES ASSUME c.at \in {"order", "write", "sync"}, c.op # "tighten"
                 PROVE  /\ c.op \in OrderOps \cup SubOps /\ c.op # "ban"
                        /\ orderOf(c) \in Order /\ ~Own(c, orderOf(c))
                        /\ db[orderOf(c)].status # "NEW"
                        /\ c.op \in OrderOps => c.on \in Order /\ orderOf(c) = c.on
                        /\ c.op \in SubOps => c.on \in Sub /\ orderOf(c) = OrderOf[c.on]
        OBVIOUS
    <2>1. c.op \in OrderOps \cup SubOps /\ c.op # "ban"
        BY <1>1 DEF CallOK, CallShape, Ops, BanAt, OrderOps, SubOps
    <2>2. /\ c.op \in OrderOps => c.on \in Order /\ orderOf(c) = c.on
          /\ c.op \in SubOps => c.on \in Sub /\ orderOf(c) = OrderOf[c.on]
        BY <1>1, OrdersOrSubs DEF CallOK, orderOf
    <2>3. orderOf(c) \in Order /\ db[orderOf(c)].status # "NEW"
        BY <1>1, <2>1, <2>2, OrdersOrSubs DEF About, StatusInv
    <2> QED
        BY <2>1, <2>2, <2>3 DEF Own
<1>6. ASSUME LockOrder(t) PROVE StatusInv'
    <2>1. /\ c.at = "order" /\ Writes(t)
          /\ \A r \in Found(t) : mine'[t][r] = View(t)[r]
          /\ d = [c EXCEPT !.at = "write", !.waiting = {}, !.forUpdate = Found(t)]
        BY <1>6, LockOrderDoes
    <2>2. /\ d.op = c.op /\ d.on = c.on /\ d.at = "write"
          /\ orderOf(d) = orderOf(c)
        BY <1>1, <2>1 DEF CallShape, orderOf
    <2>3. c.op \in OrderOps \cup SubOps /\ c.op # "ban" /\ orderOf(c) \in Order
        BY <1>1, <1>5, <2>1 DEF CallOK
    <2>4. Where(t) = {orderOf(c)}
        BY <2>1, WhereIs
    <2>5. Found(t) = {orderOf(c)} /\ Locked(t) = {}
        BY <1>1, <2>1, <2>3, <2>4 DEF Found, Holds
    <2>6. HoldsYet(d, Locked(t) \cup Found(t))
        BY <2>2, <2>3, <2>5 DEF HoldsYet
    <2>7. \A o \in Found(t) \cap Order : HeldOrder(c, o, mine'[t][o], db[o])
        BY <1>1, <1>5, <2>1, <2>5, KeepsOrder DEF CallOK
    <2>8. Found(t) \cap Sub = {}
        BY <2>3, <2>5, OrdersOrSubs
    <2> QED
        BY <2>1, <2>2, <2>3, <2>6, <2>7, <2>8, WritesStatus
<1>7. ASSUME Transition(t) PROVE StatusInv'
    <2>1. /\ c.at = "write" /\ c.op # "tighten" /\ Allowed(t) /\ Writes(t)
          /\ \A r \in Found(t) : mine'[t][r] = written(c.op, View(t)[r])
        BY <1>7, TransitionDoes
    <2>2. d.op = c.op /\ d.on = c.on /\ d.at \in {"commit", "slots", "sync"}
        BY <1>1, <1>7 DEF Transition, CallShape, TypeInv
    <2>3. /\ c.op \in OrderOps \cup SubOps /\ c.op # "ban" /\ orderOf(c) \in Order
          /\ ~Own(c, orderOf(c)) /\ db[orderOf(c)].status # "NEW"
          /\ c.op \in OrderOps => c.on \in Order /\ orderOf(c) = c.on
          /\ c.op \in SubOps => c.on \in Sub /\ orderOf(c) = OrderOf[c.on]
        BY <1>5, <2>1
    <2>4. Locked(t) = {orderOf(c)}
        BY <1>1, <2>1, <2>3 DEF HoldsYet
    <2>5. \A r \in Found(t) : r = c.on \/ (r \in Sub /\ View(t)[r].status = "IN_PROGRESS")
        BY <2>1, FoundSubs
    <2>6. HoldsYet(d, Locked(t) \cup Found(t))
        BY <2>2, <2>3 DEF HoldsYet
    <2>7. ASSUME NEW o \in Found(t) \cap Order
          PROVE  HeldOrder(c, o, mine'[t][o], db[o])
        <3>1. c.op \in OrderOps /\ o = c.on /\ o = orderOf(c)
            BY <2>3, <2>5, OrdersOrSubs
        <3>2. View(t)[o] = mine[t][o] /\ HeldOrder(c, o, mine[t][o], db[o])
            BY <2>4, <3>1, ViewIs, OrdersOrSubs DEF StatusInv
        <3>3. View(t)[o] \in OrderRow /\ "busy" \in DOMAIN View(t)[o]
            BY <1>1, RowFields DEF Fits
        <3> DEFINE x == View(t)[o]
        <3>4. mine'[t][o] = written(c.op, x)
            BY <2>1
        <3>5. /\ mine'[t][o].byBan = x.byBan
              /\ mine'[t][o].status \in {"PENDING_MODERATION", "OPEN", "CLOSED"}
            <4>1. CASE c.op = "update"
                <5>1. mine'[t][o] = [x EXCEPT !.status = "PENDING_MODERATION", !.busy = FALSE]
                    BY <3>3, <3>4, <4>1 DEF written
                <5> QED
                    BY <3>3, <5>1 DEF OrderRow
            <4>2. CASE c.op = "moderatorApprove"
                <5>1. mine'[t][o] = [x EXCEPT !.status = "OPEN", !.published = TRUE]
                    BY <3>3, <3>4, <4>2 DEF written
                <5> QED
                    BY <3>3, <5>1 DEF OrderRow
            <4>3. CASE c.op = "moderatorClose"
                <5>1. mine'[t][o] = [x EXCEPT !.status = "CLOSED"]
                    BY <3>3, <3>4, <4>3 DEF written
                <5> QED
                    BY <3>3, <5>1 DEF OrderRow
            <4> QED
                BY <3>1, <4>1, <4>2, <4>3 DEF OrderOps
        <3>6. ~Own(c, o)
            BY <2>3 DEF Own
        <3> QED
            BY <3>1, <3>2, <3>5, <3>6 DEF HeldOrder, LIVE, FROZEN
    <2>8. ASSUME NEW s \in Found(t) \cap Sub
          PROVE  HeldSub(c, s, mine'[t][s], db[s])
        <3> DEFINE x == View(t)[s]
        <3>1. x = db[s]
            BY <2>3, <2>4, ViewIs, OrdersOrSubs
        <3>2. mine'[t][s] = written(c.op, x) /\ x \in SubRow /\ "busy" \notin DOMAIN x
            BY <1>1, <2>1, RowFields DEF Fits
        <3>3. CASE c.op \in {"update", "moderatorApprove"}
            <4>1. mine'[t][s] = x
                BY <3>2, <3>3 DEF written
            <4>2. x.status = "IN_PROGRESS"
                BY <2>3, <2>5, <3>3, OrdersOrSubs DEF OrderOps
            <4> QED
                BY <4>1, <4>2, KeepsSub
        <3>4. CASE c.op = "attachVideo"
            <4>1. s = c.on
                BY <2>1, <3>4, AboutOne DEF SubOps
            <4>2. x.status = "IN_PROGRESS"
                BY <2>1, <3>4, <4>1 DEF Allowed
            <4>3. mine'[t][s].status = "SUBMITTED"
                BY <3>2, <3>4 DEF written, SubRow
            <4> QED
                BY <3>1, <3>4, <4>1, <4>2, <4>3 DEF HeldSub
        <3>5. CASE c.op = "moderatorReject"
            <4>1. s = c.on
                BY <2>1, <3>5, AboutOne DEF SubOps
            <4>2. x.status = "SUBMITTED"
                BY <2>1, <3>5, <4>1 DEF Allowed
            <4>3. mine'[t][s].status = "MODERATOR_REJECTED"
                BY <3>2, <3>5 DEF written, rejected, SubRow
            <4> QED
                BY <4>2, <4>3, KeepsSub DEF OVER
        <3>6. CASE c.op = "moderatorClose"
            <4>1. s = c.on /\ c.on \in Order
                BY <2>1, <2>3, <3>6, AboutOne DEF OrderOps
            <4> QED
                BY <4>1, OrdersOrSubs
        <3> QED
            BY <2>3, <3>3, <3>4, <3>5, <3>6 DEF OrderOps, SubOps
    <2> QED
        BY <2>1, <2>2, <2>3, <2>6, <2>7, <2>8, WritesStatus
<1>8. ASSUME SyncFundBusy(t) PROVE StatusInv'
    <2> DEFINE busy == FundBusy(View(t), orderOf(c))
    <2>1. /\ c.at = "sync" /\ Writes(t)
          /\ \A r \in Found(t) : mine'[t][r] = synced(View(t)[r], busy)
          /\ d = [c EXCEPT !.at = "commit", !.waiting = {}]
        BY <1>8, SyncFundBusyDoes
    <2> HIDE DEF busy
    <2>2. d.op = c.op /\ d.on = c.on /\ d.at = "commit"
        BY <1>1, <2>1 DEF CallShape
    <2>3. /\ c.op # "ban" /\ orderOf(c) \in Order
          /\ ~Own(c, orderOf(c)) /\ db[orderOf(c)].status # "NEW"
        BY <1>1, <1>5, <2>1 DEF CallOK
    <2>4. \A r \in Found(t) :
            r = orderOf(c) \/ (r \in Sub /\ View(t)[r].status = "IN_PROGRESS")
        BY <2>1, FoundSubs
    <2>5. ASSUME NEW o \in Found(t) \cap Order
          PROVE  HeldOrder(c, o, mine'[t][o], db[o])
        <3>1. o = orderOf(c)
            BY <2>4, OrdersOrSubs
        <3>2. mine'[t][o].status = View(t)[o].status /\ mine'[t][o].byBan = View(t)[o].byBan
            BY <1>1, <2>1, SyncedStatus
        <3> QED
            BY <2>3, <3>1, <3>2, KeepsOrder
    <2>6. ASSUME NEW s \in Found(t) \cap Sub
          PROVE  HeldSub(c, s, mine'[t][s], db[s])
        <3>1. View(t)[s].status = "IN_PROGRESS"
            BY <2>3, <2>4, OrdersOrSubs
        <3>2. mine'[t][s].status = View(t)[s].status
            BY <1>1, <2>1, SyncedStatus
        <3> QED
            BY <3>1, <3>2, KeepsSub
    <2>7. HoldsYet(d, Locked(t) \cup Found(t))
        BY <2>2, <2>3 DEF HoldsYet
    <2> QED
        BY <2>1, <2>2, <2>3, <2>5, <2>6, <2>7, WritesStatus
<1> QED
    BY <1>2, <1>3, <1>4, <1>6, <1>7, <1>8 DEF RequestStep

LEMMA BeginStatus ==
    ASSUME TypeInv, LockInv, StatusInv, NEW t \in Tx, Begin(t)
    PROVE  StatusInv'
<1>1. ASSUME NEW u \in User, Unban(t, u) PROVE StatusInv'
    <2>1. mine' = mine /\ call' = call /\ Quiet
        <3>1. /\ mine' = mine /\ call' = call /\ slipped' = slipped
              /\ db' = [db EXCEPT ![u] = [banned |-> FALSE, final |-> FALSE]]
            BY <1>1, UnbanDoes
        <3> QED
            BY <3>1, OrdersOrSubs DEF Quiet, TypeInv, Typed
    <2>2. Unique'
        BY <2>1 DEF StatusInv, Unique
    <2>3. About(call[t])'
        <3> DEFINE c == call[t]
        <3>1. CallOK(c) /\ c \in CallShape /\ About(c)
            BY DEF TypeInv, CallOK, StatusInv
        <3>2. /\ \A o \in Order : db'[o] = db[o]
              /\ \A s \in Sub : db'[s] = db[s] /\ db'[OrderOf[s]] = db[OrderOf[s]]
            BY <2>1, OrdersOrSubs DEF Quiet
        <3>3. \A o \in c.reserved \cup c.todo : o \in Order
            BY <3>1 DEF CallShape
        <3> QED
            BY <2>1, <3>1, <3>2, <3>3 DEF About, CallOK, OrderOps, SubOps
    <2>4. /\ HoldsYet(call[t], Locked(t))'
          /\ \A o \in Locked(t)' \cap Order : HeldOrder(call'[t], o, mine'[t][o], db'[o])
          /\ \A s \in Locked(t)' \cap Sub : HeldSub(call'[t], s, mine'[t][s], db'[s])
        <3>1. Locked(t)' = Locked(t)
            BY <2>1 DEF Locked
        <3>2. HoldsYet(call[t], Locked(t))'
            BY <2>1, <3>1 DEF StatusInv, HoldsYet, orderOf
        <3>3. \A r \in Order \cup Sub : db'[r] = db[r]
            BY <2>1 DEF Quiet
        <3> QED
            BY <2>1, <3>1, <3>2, <3>3 DEF StatusInv
    <2> QED
        BY <2>2, <2>3, <2>4, OthersStatus
<1>2. ASSUME NEW op, NEW on, NEW at, Begun(t, op, on, at) PROVE StatusInv'
    <2> DEFINE d == Fresh(op, on, at)
    <2>1. /\ Thinks(t) /\ call[t].op = "none" /\ call'[t] = d
          /\ \/ op = "ban" /\ at = "user" /\ on \in User
             \/ op = "tighten" /\ at = "write" /\ on \in User
             \/ /\ op = "create" /\ at = "insert" /\ on \in Order /\ db[on].status = "NEW"
                /\ \A x \in Tx : call[x].op = "create" => call[x].on # on
             \/ op \in OrderOps /\ at = "order" /\ on \in Order /\ db[on].status # "NEW"
             \/ /\ op = "claim" /\ at = "insert" /\ on \in Sub /\ db[on].status = "NONE"
                /\ db[OrderOf[on]].status = "OPEN"
                /\ \A x \in Tx : call[x].op = "claim" => call[x].on # on
             \/ /\ op \in SubOps /\ at = "order" /\ on \in Sub
                /\ db[on].status \in {"IN_PROGRESS", "SUBMITTED"}
        BY <1>2 DEF Begun, BeganAs
    <2>2. /\ d.op = op /\ d.on = on /\ d.at = at /\ d.open = {} /\ d.pending = {}
          /\ d.reserved = {} /\ d.todo = {}
        BY FreshFields
    <2> HIDE DEF d
    <2>3. Locked(t) = {} /\ Locked(t)' = {}
        BY <2>1 DEF LockInv, Holds, Thinks, Locked
    <2>4. db' = db /\ Alone(t)
        BY <2>1 DEF Thinks, Inside
    <2>5. Unique'
        <3> SUFFICES ASSUME NEW x \in Tx, NEW y \in Tx, x # y, call'[x].op = call'[y].op,
                            call'[x].op \in {"create", "claim"}
                     PROVE  call'[x].on # call'[y].on
            BY DEF Unique
        <3>1. \A z \in Tx \ {t} : call'[z] = call[z]
            BY <2>4 DEF Alone
        <3>2. \A z \in Tx : call[z].op = op /\ op \in {"create", "claim"} => call[z].on # on
            BY <2>1 DEF OrderOps, SubOps
        <3>3. CASE x = t \/ y = t
            BY <2>1, <2>2, <3>1, <3>2, <3>3
        <3>4. CASE x # t /\ y # t
            BY <3>1, <3>4 DEF StatusInv, Unique
        <3> QED
            BY <3>3, <3>4
    <2>6. About(d)'
        BY <2>1, <2>2, <2>4 DEF About, OrderOps, SubOps
    <2>7. HoldsYet(d, {})
        BY <2>1, <2>2 DEF HoldsYet, OrderOps, SubOps
    <2>8. About(call[t])' /\ HoldsYet(call[t], Locked(t))'
        BY <2>1, <2>3, <2>6, <2>7 DEF About, HoldsYet, orderOf
    <2> QED
        BY <2>3, <2>5, <2>8, OthersStatus
<1> QED
    BY <1>1, <1>2, BeginDoes

LEMMA StatusNext == TypeInv /\ LockInv /\ StatusInv /\ [Next]_vars => StatusInv'
<1> SUFFICES ASSUME TypeInv, LockInv, StatusInv, [Next]_vars PROVE StatusInv'
    OBVIOUS
<1>1. ASSUME NEW t \in Tx, Wait(t) PROVE StatusInv'
    <2> DEFINE c == call[t]
               d == call'[t]
               rows == Where(t)
    <2>1. Thinks(t) /\ d = [c EXCEPT !.waiting = rows]
        BY <1>1, WaitDoes
    <2>2. c \in CallShape /\ About(c) /\ HoldsYet(c, Locked(t)) /\ (Begin(t) \/ Step(t))
        BY <1>1 DEF TypeInv, CallOK, StatusInv, Step
    <2> HIDE DEF rows
    <2>3. /\ d.op = c.op /\ d.on = c.on /\ d.at = c.at /\ orderOf(d) = orderOf(c)
          /\ d.open = c.open /\ d.pending = c.pending /\ d.todo = c.todo /\ d.reserved = c.reserved
        BY <2>1, <2>2 DEF CallShape, orderOf
    <2>4. HoldsYet(d, Locked(t))
        BY <2>2, <2>3 DEF HoldsYet
    <2>5. /\ c.op = "ban" => \A o \in d.reserved \cup d.todo : db[o].status # "NEW" /\ OwnerOf[o] # c.on
          /\ c.op = "ban" => \A o \in d.open \cup d.pending : OwnerOf[o] = c.on
        BY <2>2, <2>3 DEF About
    <2> QED
        BY <2>1, <2>2, <2>3, <2>4, <2>5, ThinksStatus
<1>2. ASSUME NEW t \in Tx, AbortDeadlocked(t) PROVE StatusInv'
    <2>1. GivesUp(t) /\ (Begin(t) \/ Step(t))
        BY <1>2, AbortDeadlockedDoes DEF Step
    <2> QED
        BY <2>1, EndsStatus DEF GivesUp, Nothing
<1>3. ASSUME NEW t \in Tx, BanStep(t) PROVE StatusInv'
    BY <1>3, BanStatus DEF Step
<1>4. ASSUME NEW t \in Tx, RequestStep(t) PROVE StatusInv'
    BY <1>4, RequestStatus DEF Step
<1>5. CASE UNCHANGED vars
    BY <1>5 DEF vars, StatusInv, Unique, About, HoldsYet, HeldOrder, HeldSub, Own, Locked, orderOf
<1> QED
    BY <1>1, <1>2, <1>3, <1>4, <1>5, BeginStatus DEF Next, Step

LEMMA StatusInit == Init => StatusInv
<1> SUFFICES ASSUME Init PROVE StatusInv
    OBVIOUS
<1> DEFINE OS == [Order -> [status : StartOrder, published : BOOLEAN, busy : BOOLEAN,
                            byBan : {FALSE}]]
           SS == [Sub -> [status : StartSub]]
<1>1. PICK os \in OS, ss \in SS :
        /\ Plausible(Upon(os, ss))
        /\ db = Upon(Upon(os, ss), [u \in User |-> [banned |-> FALSE, final |-> FALSE]])
    BY DEF Init
<1>2. \A r \in Order \cup Sub : db[r] = Upon(os, ss)[r]
    BY <1>1, OrdersOrSubs DEF Upon
<1>3. ASSUME NEW s \in Sub, db[s].status # "NONE"
      PROVE  db[OrderOf[s]].status # "NEW"
    <2> DEFINE rows == Upon(os, ss)
               o == OrderOf[s]
    <2>1. o \in Order /\ s \in In({o})
        BY OrdersOrSubs DEF In
    <2>2. rows[s].status # "NONE" /\ db[o] = rows[o]
        BY <1>2, <1>3, <2>1
    <2>3. rows[o].published
        BY <1>1, <2>1, <2>2 DEF Plausible
    <2>4. rows[o].status \in {"OPEN", "CLOSED", "PENDING_MODERATION", "EDIT_REJECTED"}
        BY <1>1, <2>1, <2>3 DEF Plausible
    <2> QED
        BY <2>2, <2>4
<1>4. \A t \in Tx : mine[t] = Nothing /\ call[t] = Idle /\ Locked(t) = {}
    BY DEF Init, Locked, Nothing
<1>5. Idle.op = "none"
    BY DEF Idle
<1> QED
    BY <1>3, <1>4, <1>5 DEF StatusInv, Unique, About, HoldsYet, OrderOps, SubOps

-----------------------------------------------------------------------------
(* What a step puts in force *)

\* Before some statement of the ban of a user, or at it and not waiting yet.
NotYet(c, earlier, statement) ==
    c.at \in earlier \/ (c.at = statement /\ c.waiting = {})

LEMMA PastIs ==
    ASSUME NEW u \in Tx, call[u].op = "ban", NEW earlier, NEW statement,
           ~BanPast(call[u].on, earlier, statement)
    PROVE  NotYet(call[u], earlier, statement)
BY DEF BanPast, NotYet

\* An order is put in force only behind no ban of its author, or slips.
OrderMoves(o) ==
    \/ db'[o].status = db[o].status
    \/ db'[o].status \notin LIVE
    \/ ~BanPast(OwnerOf[o], {"user"}, "open")
    \/ db'[o].status = "PENDING_MODERATION" /\ ~BanPast(OwnerOf[o], {"user", "open"}, "pending")

\* A submission is ended, claimed behind no ban, or takes its video under the lock
\* of its order.
SubMoves(t, s) ==
    LET o == OrderOf[s] IN
    \/ db'[s].status \in OVER \cup {db[s].status}
    \/ /\ ~BanPast(CreatorOf[s], BeforeDelete, "delete")
       /\ ~BanPast(OwnerOf[o], BeforeSlots, "slots")
       /\ ~db[o].byBan /\ db'[o] = db[o]
    \/ db'[s].status = "SUBMITTED" /\ db[s].status = "IN_PROGRESS" /\ o \in Locked(t)

\* Only a ban that commits marks an order, or rejects it.
BanMoves(t, o) ==
    \/ db'[o].byBan = db[o].byBan /\ (db'[o].status = "REJECTED" => db[o].status = "REJECTED")
    \/ BanCommits(t) /\ Own(call[t], o) /\ o \in Locked(t)

LEMMA Moves ==
    ASSUME TypeInv, LockInv, StatusInv, NEW t \in Tx, Begin(t) \/ Step(t)
    PROVE  /\ slipped \subseteq slipped'
           /\ \A o \in Order \ slipped' : OrderMoves(o)
           /\ \A o \in Order : BanMoves(t, o)
           /\ \A s \in Sub \ slipped' : SubMoves(t, s)
<1> DEFINE c == call[t]
<1>1. /\ CallOK(c) /\ Typed(db) /\ DOMAIN db = Row /\ About(c)
      /\ \A r \in Order : db[r] \in OrderRow
      /\ \A r \in Sub : db[r] \in SubRow
    BY OrdersOrSubs DEF TypeInv, Typed, Fits, StatusInv
<1>2. CASE Quiet
    <2>1. \A s \in Sub : db'[s] = db[s]
        BY <1>2 DEF Quiet
    <2>2. \A o \in Order : db'[o] = db[o]
        BY <1>2 DEF Quiet
    <2> QED
        BY <1>2, <2>1, <2>2 DEF Quiet, OrderMoves, BanMoves, SubMoves
<1>3. CASE Create(t)
    <2>1. /\ c.op = "create" /\ db' = [db EXCEPT ![c.on].status = "PENDING_MODERATION"]
          /\ slipped' = IF BanPast(OwnerOf[c.on], {"user", "open"}, "pending")
                        THEN slipped \cup {c.on} ELSE slipped
        BY <1>3, CreateDoes
    <2>2. c.on \in Order /\ c.on \in Row
        BY <1>1, <2>1, OrdersOrSubs DEF CallOK, About
    <2>3. \A r \in Row : r # c.on => db'[r] = db[r]
        BY <1>1, <2>1
    <2>4. db'[c.on].status = "PENDING_MODERATION" /\ db'[c.on].byBan = db[c.on].byBan
        BY <1>1, <2>1, <2>2 DEF OrderRow
    <2>5. \A s \in Sub : db'[s] = db[s]
        BY <2>2, <2>3, OrdersOrSubs
    <2>6. \A o \in Order \ slipped' : OrderMoves(o)
        BY <2>1, <2>2, <2>3, <2>4, OrdersOrSubs DEF OrderMoves
    <2>7. \A o \in Order : BanMoves(t, o)
        BY <2>2, <2>3, <2>4, OrdersOrSubs DEF BanMoves
    <2>8. \A s \in Sub \ slipped' : SubMoves(t, s)
        BY <2>5 DEF SubMoves
    <2> QED
        BY <2>1, <2>6, <2>7, <2>8
<1>4. CASE Claim(t)
    <2> DEFINE slips == \/ BanPast(CreatorOf[c.on], BeforeSlots \cup {"slots", "videos"}, "delete")
                        \/ BanPast(OwnerOf[OrderOf[c.on]], BeforeSlots, "slots")
                        \/ db[OrderOf[c.on]].byBan
    <2>1. /\ c.op = "claim" /\ db' = [db EXCEPT ![c.on].status = "IN_PROGRESS"]
          /\ slipped' = IF slips THEN slipped \cup {c.on} ELSE slipped
        BY <1>4, ClaimDoes
    <2>2. c.on \in Sub /\ c.on \in Row
        BY <1>1, <2>1, OrdersOrSubs DEF CallOK
    <2>3. \A r \in Row : r # c.on => db'[r] = db[r]
        BY <1>1, <2>1
    <2>4. \A o \in Order : db'[o] = db[o]
        BY <2>2, <2>3, OrdersOrSubs
    <2>5. BeforeSlots \cup {"slots", "videos"} = BeforeDelete
        BY DEF BeforeDelete, BeforeVideos
    <2>6. ASSUME NEW s \in Sub \ slipped' PROVE SubMoves(t, s)
        <3>1. CASE s = c.on
            <4>1. ~slips
                BY <2>1, <3>1
            <4>2. OrderOf[s] \in Order
                BY OrdersOrSubs
            <4>3. db'[OrderOf[s]] = db[OrderOf[s]]
                BY <2>4, <4>2
            <4> QED
                BY <2>5, <3>1, <4>1, <4>3 DEF SubMoves
        <3>2. CASE s # c.on
            BY <2>3, <3>2, OrdersOrSubs DEF SubMoves
        <3> QED
            BY <3>1, <3>2
    <2>7. \A o \in Order : OrderMoves(o) /\ BanMoves(t, o)
        BY <2>4 DEF OrderMoves, BanMoves
    <2> QED
        BY <2>1, <2>6, <2>7
<1>5. CASE Lands(t) /\ (BanCommits(t) \/ Commits(t))
    <2>1. \A r \in Row : db'[r] = IF r \in Locked(t) THEN mine[t][r] ELSE db[r]
        BY <1>5, ViewIs DEF Lands
    <2>2. slipped \subseteq slipped' /\ c.at = "commit"
        BY <1>5, BanCommitsDoes, CommitsDoes DEF Lands
    <2>3. BanCommits(t) => c.op = "ban"
        BY BanCommitsDoes
    <2>4. ASSUME c.op # "ban", c.on \in Order, BanPast(OwnerOf[c.on], {"user"}, "open")
          PROVE  c.on \in slipped'
        <3>1. Commits(t)
            BY <1>5, <2>3, <2>4
        <3> QED
            BY <2>4, <3>1, CommitsDoes
    <2>5. ASSUME NEW o \in Order PROVE o \notin slipped' => OrderMoves(o)
        <3>1. CASE o \in Locked(t)
            <4>1. HeldOrder(c, o, db'[o], db[o])
                BY <2>1, <3>1, OrdersOrSubs DEF StatusInv
            <4>2. c.op \in OrderOps => c.op # "ban"
                BY DEF OrderOps
            <4> QED
                BY <2>4, <4>1, <4>2 DEF HeldOrder, OrderMoves, LIVE, FROZEN
        <3>2. CASE o \notin Locked(t)
            BY <2>1, <3>2, OrdersOrSubs DEF OrderMoves
        <3> QED
            BY <3>1, <3>2
    <2>6. ASSUME NEW o \in Order PROVE BanMoves(t, o)
        <3>1. CASE o \in Locked(t)
            <4>1. HeldOrder(c, o, db'[o], db[o])
                BY <2>1, <3>1, OrdersOrSubs DEF StatusInv
            <4>2. Own(c, o) => BanCommits(t)
                BY <1>5, CommitsDoes DEF Own
            <4> QED
                BY <3>1, <4>1, <4>2 DEF HeldOrder, BanMoves, LIVE, FROZEN
        <3>2. CASE o \notin Locked(t)
            BY <2>1, <3>2, OrdersOrSubs DEF BanMoves
        <3> QED
            BY <3>1, <3>2
    <2>7. ASSUME NEW s \in Sub PROVE SubMoves(t, s)
        <3>1. CASE s \in Locked(t)
            <4>1. HeldSub(c, s, db'[s], db[s])
                BY <2>1, <3>1, OrdersOrSubs DEF StatusInv
            <4>2. ASSUME c.op = "attachVideo", c.on = s
                  PROVE  OrderOf[s] \in Locked(t)
                <5>1. c.op \in SubOps /\ orderOf(c) = OrderOf[s]
                    BY <4>2 DEF SubOps, orderOf
                <5> QED
                    BY <2>2, <5>1 DEF LockInv, Holds
            <4> QED
                BY <4>1, <4>2 DEF HeldSub, SubMoves
        <3>2. CASE s \notin Locked(t)
            BY <2>1, <3>2, OrdersOrSubs DEF SubMoves
        <3> QED
            BY <3>1, <3>2
    <2> QED
        BY <2>2, <2>5, <2>6, <2>7
<1> QED
    BY <1>2, <1>3, <1>4, <1>5, StepKinds

\* Who is banned, was already or by the ban that commits.
LEMMA BannedBy ==
    ASSUME TypeInv, LockInv, NEW t \in Tx, Begin(t) \/ Step(t), NEW u \in User, db'[u].banned
    PROVE  db[u].banned \/ (BanCommits(t) /\ call[t].on = u)
<1> DEFINE c == call[t]
<1>1. CallOK(c) /\ Typed(db) /\ DOMAIN db = Row /\ u \in Row
    BY OrdersOrSubs DEF TypeInv
<1>2. CASE Quiet
    BY <1>2 DEF Quiet
<1>3. CASE Create(t)
    <2>1. c.op = "create" /\ db' = [db EXCEPT ![c.on].status = "PENDING_MODERATION"]
        BY <1>3, CreateDoes
    <2>2. c.on \in Order
        BY <1>1, <2>1 DEF CallOK
    <2> QED
        BY <1>1, <2>1, <2>2, OrdersOrSubs
<1>4. CASE Claim(t)
    <2>1. c.op = "claim" /\ db' = [db EXCEPT ![c.on].status = "IN_PROGRESS"]
        BY <1>4, ClaimDoes
    <2>2. c.on \in Sub
        BY <1>1, <2>1 DEF CallOK
    <2> QED
        BY <1>1, <2>1, <2>2, OrdersOrSubs
<1>5. CASE Lands(t) /\ (BanCommits(t) \/ Commits(t))
    <2>1. db'[u] = IF u \in Locked(t) THEN mine[t][u] ELSE db[u]
        BY <1>1, <1>5, ViewIs DEF Lands
    <2>2. CASE u \notin Locked(t)
        BY <2>1, <2>2
    <2>3. CASE u \in Locked(t) /\ BanCommits(t)
        <3>1. c.op = "ban" /\ c.at = "commit"
            BY <2>3, BanCommitsDoes
        <3>2. Locked(t) \cap User = {c.on}
            BY <3>1 DEF LockInv, Holds
        <3> QED
            BY <2>3, <3>2
    <2>4. CASE u \in Locked(t) /\ Commits(t)
        <3>1. c.op # "ban" /\ c.at = "commit"
            BY <2>4, CommitsDoes
        <3>2. c.op \in OrderOps \cup SubOps
            BY <1>1, <3>1 DEF CallOK, CallShape, Ops, OrderOps, SubOps
        <3>3. Locked(t) \subseteq {orderOf(c)} \cup In({orderOf(c)}) /\ orderOf(c) \in Order
            BY <3>1, <3>2, FoundKind DEF LockInv, Holds
        <3> QED
            BY <2>4, <3>3, OrdersOrSubs DEF In
    <2> QED
        BY <1>5, <2>2, <2>3, <2>4
<1> QED
    BY <1>2, <1>3, <1>4, <1>5, StepKinds

-----------------------------------------------------------------------------
(* What is committed *)

\* A ban that commits leaves nothing it should have ended; what it closed stays so.
LEMMA ClosedNext ==
    ASSUME TypeInv, LockInv, StatusInv, BanInv, NEW t \in Tx, Begin(t) \/ Step(t)
    PROVE  LeftClosed(db', slipped')
<1> SUFFICES ASSUME NEW s \in Sub \ slipped', db'[OrderOf[s]].byBan
             PROVE  /\ db'[s].status # "IN_PROGRESS"
                    /\ db'[OrderOf[s]].status = "REJECTED" => db'[s].status # "SUBMITTED"
    BY DEF LeftClosed
<1> DEFINE o == OrderOf[s]
<1>1. o \in Order /\ s \in Sub /\ s \notin slipped
    BY Moves, OrdersOrSubs
<1>2. BanMoves(t, o) /\ SubMoves(t, s)
    BY <1>1, Moves
<1>3. CASE db'[o].byBan = db[o].byBan /\ (db'[o].status = "REJECTED" => db[o].status = "REJECTED")
    <2>1. /\ db[s].status # "IN_PROGRESS"
          /\ db[o].status = "REJECTED" => db[s].status # "SUBMITTED"
        BY <1>1, <1>3 DEF BanInv, LeftClosed
    <2>2. db'[s].status \in OVER \cup {db[s].status}
        BY <1>2, <1>3, <2>1 DEF SubMoves
    <2> QED
        BY <1>3, <2>1, <2>2 DEF OVER
<1>4. CASE BanCommits(t) /\ Own(call[t], o) /\ o \in Locked(t)
    <2>1. call[t].op = "ban" /\ call[t].at = "commit" /\ db' = View(t)
        BY <1>4, BanCommitsDoes DEF Lands
    <2>2. Done(call[t], db', Locked(t), slipped)
        BY <2>1 DEF BanInv
    <2>3. /\ SlotsDone(call[t], s, db'[s])
          /\ db'[o].status = "REJECTED" => VideosDone(call[t], s, db'[s])
        BY <1>1, <1>4, <2>2 DEF Done, Own
    <2> QED
        BY <2>1, <2>3 DEF SlotsDone, VideosDone, BeforeDelete, BeforeVideos, BeforeSlots
<1> QED
    BY <1>2, <1>3, <1>4 DEF BanMoves

LEMMA BannedNext ==
    ASSUME TypeInv, LockInv, StatusInv, BanInv, NEW t \in Tx, Begin(t) \/ Step(t)
    PROVE  BannedLeavesNothing'
<1> SUFFICES ASSUME NEW u \in User, db'[u].banned
             PROVE  /\ \A o \in Order \ slipped' : OwnerOf[o] = u => db'[o].status \notin LIVE
                    /\ \A s \in Sub \ slipped' : CreatorOf[s] = u =>
                            db'[s].status \notin {"IN_PROGRESS", "SUBMITTED"}
    BY ClosedNext DEF BannedLeavesNothing, LeftClosed, Of
<1>1. slipped \subseteq slipped'
    BY Moves
<1>2. CASE db[u].banned
    <2>1. \A earlier, statement : BanPast(u, earlier, statement)
        BY <1>2 DEF BanPast
    <2>2. ASSUME NEW o \in Order \ slipped', OwnerOf[o] = u
          PROVE  db'[o].status \notin LIVE
        <3>1. db[o].status \notin LIVE
            BY <1>1, <1>2, <2>2 DEF BanInv, BannedLeavesNothing
        <3>2. OrderMoves(o)
            BY <2>2, Moves
        <3> QED
            BY <2>1, <2>2, <3>1, <3>2 DEF OrderMoves
    <2>3. ASSUME NEW s \in Sub \ slipped', CreatorOf[s] = u
          PROVE  db'[s].status \notin {"IN_PROGRESS", "SUBMITTED"}
        <3>1. db[s].status \notin {"IN_PROGRESS", "SUBMITTED"}
            BY <1>1, <1>2, <2>3 DEF BanInv, BannedLeavesNothing, Of
        <3>2. SubMoves(t, s)
            BY <2>3, Moves
        <3> QED
            BY <2>1, <2>3, <3>1, <3>2 DEF SubMoves, OVER
    <2> QED
        BY <2>2, <2>3
<1>3. CASE BanCommits(t) /\ call[t].on = u
    <2>1. call[t].op = "ban" /\ call[t].at = "commit" /\ db' = View(t)
        BY <1>3, BanCommitsDoes DEF Lands
    <2>2. Done(call[t], db', Locked(t), slipped)
        BY <2>1 DEF BanInv
    <2>3. /\ \A o \in Order \ slipped' : OwnerOf[o] = u => OrdersDone(call[t], o, db'[o])
          /\ \A s \in Sub \ slipped' : CreatorOf[s] = u => OwnDone(call[t], s, db'[s])
        BY <1>1, <1>3, <2>2 DEF Done
    <2> QED
        BY <2>1, <2>3 DEF OrdersDone, OwnDone, BeforeReserved, BeforeDelete, BeforeVideos,
                          BeforeSlots, BeforeRemove, BeforeClose, LIVE
<1> QED
    BY <1>2, <1>3, BannedBy

-----------------------------------------------------------------------------
(* A ban, while others are at work *)

\* What one sees of the rows another holds, and of those it does not.
LEMMA OthersView ==
    ASSUME TypeInv, TypeInv', NEW t \in Tx, Alone(t), NEW u \in Tx \ {t}
    PROVE  /\ call'[u] = call[u] /\ Locked(u)' = Locked(u)
           /\ \A r \in Row : r \in Locked(u) => View(u)'[r] = View(u)[r]
           /\ \A r \in Row : r \notin Locked(u) => View(u)[r] = db[r] /\ View(u)'[r] = db'[r]
BY DEF TypeInv, Alone, Locked, View, Upon

LEMMA OtherDone ==
    ASSUME TypeInv, LockInv, StatusInv, TypeInv', NEW t \in Tx, Begin(t) \/ Step(t),
           NEW u \in Tx \ {t}, call[u].op = "ban", Done(call[u], View(u), Locked(u), slipped)
    PROVE  Done(call[u], View(u), Locked(u), slipped)'
<1> DEFINE c == call[u]
           v == View(u)
           w == View(u)'
<1>1. /\ call'[u] = c /\ Locked(u)' = Locked(u)
      /\ \A r \in Row : r \in Locked(u) => w[r] = v[r]
      /\ \A r \in Row : r \notin Locked(u) => v[r] = db[r] /\ w[r] = db'[r]
    BY OthersView, StepKinds
<1>2. slipped \subseteq slipped'
    BY Moves
<1> HIDE DEF v, w
<1>3. /\ c.at \in {"open", "pending", "reserved"} => c.waiting = {}
      /\ \A o \in Order \ slipped' : OwnerOf[o] = c.on => OrdersDone(c, o, v[o])
      /\ \A s \in Sub \ slipped' : LET o == OrderOf[s] IN
            /\ OwnerOf[o] = c.on /\ o \in Locked(u) => SlotsDone(c, s, v[s])
            /\ OwnerOf[o] = c.on /\ o \in Locked(u) /\ v[o].status = "REJECTED" =>
                    VideosDone(c, s, v[s])
            /\ CreatorOf[s] = c.on => OwnDone(c, s, v[s])
    BY <1>2 DEF Done, v
<1>4. ASSUME NEW o \in Order \ slipped', OwnerOf[o] = c.on
      PROVE  OrdersDone(c, o, w[o])
    <2>1. OrdersDone(c, o, v[o])
        BY <1>3, <1>4
    <2>2. CASE w[o].status = v[o].status \/ w[o].status \notin LIVE
        BY <2>1, <2>2 DEF OrdersDone, LIVE
    <2>3. CASE o \notin Locked(u) /\ NotYet(c, {"user"}, "open")
        BY <2>3 DEF OrdersDone, NotYet, BeforeSlots, BeforeRemove, BeforeClose
    <2>4. CASE /\ o \notin Locked(u) /\ w[o].status = "PENDING_MODERATION"
               /\ NotYet(c, {"user", "open"}, "pending")
        BY <2>4 DEF OrdersDone, NotYet, BeforeSlots, BeforeRemove, BeforeClose
    <2>5. CASE o \in Locked(u)
        BY <1>1, <2>2, <2>5, OrdersOrSubs
    <2>6. CASE o \notin Locked(u)
        <3>1. OrderMoves(o) /\ v[o] = db[o] /\ w[o] = db'[o]
            BY <1>1, <1>4, <2>6, OrdersOrSubs, Moves
        <3> QED
            BY <1>4, <2>2, <2>3, <2>4, <2>6, <3>1, PastIs DEF OrderMoves
    <2> QED
        BY <2>5, <2>6
<1>5. ASSUME NEW s \in Sub \ slipped'
      PROVE  LET o == OrderOf[s] IN
             /\ OwnerOf[o] = c.on /\ o \in Locked(u) => SlotsDone(c, s, w[s])
             /\ OwnerOf[o] = c.on /\ o \in Locked(u) /\ w[o].status = "REJECTED" =>
                    VideosDone(c, s, w[s])
             /\ CreatorOf[s] = c.on => OwnDone(c, s, w[s])
    <2> DEFINE o == OrderOf[s]
    <2>1. o \in Order /\ o \in Row /\ s \in Row
        BY OrdersOrSubs
    <2>2. o \in Locked(u) => w[o] = v[o]
        BY <1>1, <2>1
    <2>3. /\ OwnerOf[o] = c.on /\ o \in Locked(u) => SlotsDone(c, s, v[s])
          /\ OwnerOf[o] = c.on /\ o \in Locked(u) /\ w[o].status = "REJECTED" =>
                    VideosDone(c, s, v[s])
          /\ CreatorOf[s] = c.on => OwnDone(c, s, v[s])
        BY <1>3, <2>2
    <2>4. CASE w[s].status \in OVER \cup {v[s].status}
        BY <2>3, <2>4 DEF SlotsDone, VideosDone, OwnDone, OVER
    <2>5. CASE s \in Locked(u)
        BY <1>1, <2>1, <2>4, <2>5
    <2>6. CASE s \notin Locked(u)
        <3>1. SubMoves(t, s) /\ v[s] = db[s] /\ w[s] = db'[s]
            BY <1>1, <2>1, <2>6, Moves
        <3>2. CASE /\ ~BanPast(CreatorOf[s], BeforeDelete, "delete")
                   /\ ~BanPast(OwnerOf[o], BeforeSlots, "slots")
            <4>1. OwnerOf[o] = c.on => NotYet(c, BeforeSlots, "slots")
                BY <3>2, PastIs
            <4>2. OwnerOf[o] = c.on => SlotsDone(c, s, w[s]) /\ VideosDone(c, s, w[s])
                BY <4>1 DEF SlotsDone, VideosDone, NotYet, Waited, BeforeDelete, BeforeVideos,
                               BeforeSlots
            <4>3. CreatorOf[s] = c.on => NotYet(c, BeforeDelete, "delete")
                BY <3>2, PastIs
            <4>4. CreatorOf[s] = c.on => OwnDone(c, s, w[s])
                BY <4>3 DEF OwnDone, NotYet, Waited, BeforeReserved, BeforeDelete, BeforeVideos,
                               BeforeSlots
            <4> QED
                BY <4>2, <4>4
        <3>3. CASE w[s].status = "SUBMITTED" /\ v[s].status = "IN_PROGRESS" /\ o \in Locked(t)
            <4>1. o \notin Locked(u)
                BY <3>3 DEF LockInv, Apart
            <4>2. CreatorOf[s] = c.on => OwnDone(c, s, w[s])
                BY <2>3, <3>3 DEF OwnDone, BeforeReserved, BeforeDelete, BeforeVideos, BeforeSlots
            <4> QED
                BY <4>1, <4>2
        <3> QED
            BY <2>4, <3>1, <3>2, <3>3 DEF SubMoves
    <2> QED
        BY <2>5, <2>6
<1>6. Done(c, w, Locked(u), slipped')
    BY <1>3, <1>4, <1>5 DEF Done
<1> QED
    BY <1>1, <1>6 DEF w, Done, OrdersDone, SlotsDone, VideosDone, OwnDone, Waited

-----------------------------------------------------------------------------
(* The statements of a ban *)

LEMMA WritesView ==
    ASSUME TypeInv, TypeInv', NEW t \in Tx, Writes(t)
    PROVE  /\ Locked(t)' = Locked(t) \cup Found(t) /\ slipped' = slipped
           /\ \A r \in Row : r \in Found(t) => View(t)'[r] = mine'[t][r]
           /\ \A r \in Row : r \notin Found(t) => View(t)'[r] = View(t)[r]
BY DEF TypeInv, Writes, Inside, Alone, Locked, View, Upon

LEMMA ThinksView ==
    ASSUME NEW t \in Tx, Thinks(t)
    PROVE  Locked(t)' = Locked(t) /\ slipped' = slipped /\ View(t)' = View(t)
BY DEF Thinks, Inside, Locked, View

\* What it waited for, a statement finds when it still matches.
LEMMA WaitedFound ==
    ASSUME NEW t \in Tx, NEW r, r \in Where(t), Waited(call[t], r)
    PROVE  r \in Found(t)
BY DEF Waited, Found

\* A ban that has read its user only has nothing to show yet.
LEMMA EarlyDone ==
    ASSUME NEW c, NEW v, NEW rows, NEW slips, c.at \in {"user", "open"}, c.waiting = {}
    PROVE  Done(c, v, rows, slips)
BY DEF Done, OrdersDone, SlotsDone, VideosDone, OwnDone, BeforeReserved, BeforeDelete,
       BeforeVideos, BeforeSlots, BeforeRemove, BeforeClose

\* The orders a ban holds, and its user's among them, are those it listed.
LEMMA OwnOrders ==
    ASSUME TypeInv, StatusInv, NEW t \in Tx, call[t].op = "ban", NEW o \in Order,
           OwnerOf[o] = call[t].on, o \in Locked(t)
    PROVE  /\ o \in call[t].open \cup call[t].pending
           /\ View(t)[o].status = "REJECTED" => o \in call[t].pending
<1>1. HeldOrder(call[t], o, mine[t][o], db[o])
    BY DEF StatusInv
<1>2. View(t)[o] = mine[t][o]
    BY ViewIs, OrdersOrSubs
<1> QED
    BY <1>1, <1>2 DEF HeldOrder, Own

\* A row of an order or a submission is one, with the statuses of its table.
LEMMA SeenRows ==
    ASSUME TypeInv, NEW t \in Tx
    PROVE  /\ \A o \in Order : View(t)[o] \in OrderRow
           /\ \A s \in Sub : View(t)[s] \in SubRow
BY SeenFits, OrdersOrSubs DEF Fits

LEMMA ReadsOpenDone ==
    ASSUME TypeInv, NEW t \in Tx, Done(call[t], View(t), Locked(t), slipped), BanReadsOpen(t)
    PROVE  Done(call'[t], View(t), Locked(t), slipped)
<1> DEFINE c == call[t]
           d == call'[t]
           v == View(t)
<1>1. /\ c.at = "open" /\ CallOK(c) /\ c.waiting = {}
      /\ d = [c EXCEPT !.at = "pending",
                 !.open = {o \in Order : OwnerOf[o] = c.on /\ v[o].status = "OPEN"}]
    BY BanReadsOpenDoes DEF TypeInv, Done
<1>2. /\ d.at = "pending" /\ d.on = c.on /\ d.waiting = {}
      /\ d.open = {o \in Order : OwnerOf[o] = c.on /\ v[o].status = "OPEN"}
    BY <1>1 DEF CallOK, CallShape
<1> HIDE DEF c, d, v
<1> QED
    BY <1>2 DEF Done, OrdersDone, SlotsDone, VideosDone, OwnDone, BeforeReserved, BeforeDelete,
                BeforeVideos, BeforeSlots, BeforeRemove, BeforeClose, c, d, v

LEMMA ReadsPendingDone ==
    ASSUME TypeInv, NEW t \in Tx, Done(call[t], View(t), Locked(t), slipped), BanReadsPending(t)
    PROVE  Done(call'[t], View(t), Locked(t), slipped)
<1> DEFINE c == call[t]
           d == call'[t]
           v == View(t)
<1>1. /\ c.at = "pending" /\ CallOK(c) /\ c.waiting = {}
      /\ d = [c EXCEPT !.at = "close",
                 !.pending = {o \in Order : OwnerOf[o] = c.on /\ v[o].status \in FROZEN}]
    BY BanReadsPendingDoes DEF TypeInv, Done
<1>2. /\ d.at = "close" /\ d.on = c.on /\ d.waiting = {} /\ d.open = c.open
      /\ d.pending = {o \in Order : OwnerOf[o] = c.on /\ v[o].status \in FROZEN}
    BY <1>1 DEF CallOK, CallShape
<1>3. ASSUME NEW o \in Order \ slipped, OwnerOf[o] = d.on
      PROVE  OrdersDone(d, o, v[o])
    <2>1. OrdersDone(c, o, v[o])
        BY <1>2, <1>3 DEF Done
    <2> QED
        BY <1>1, <1>2, <1>3, <2>1 DEF OrdersDone, Waited, BeforeSlots, BeforeRemove, BeforeClose
<1>4. \A s, x : SlotsDone(d, s, x) /\ VideosDone(d, s, x) /\ OwnDone(d, s, x)
    BY <1>2 DEF SlotsDone, VideosDone, OwnDone, BeforeReserved, BeforeDelete, BeforeVideos,
                BeforeSlots
<1> QED
    BY <1>2, <1>3, <1>4 DEF Done

LEMMA ReadsReservedDone ==
    ASSUME TypeInv, NEW t \in Tx, Done(call[t], View(t), Locked(t), slipped), BanReadsReserved(t)
    PROVE  Done(call'[t], View(t), Locked(t), slipped)
<1> DEFINE c == call[t]
           d == call'[t]
           v == View(t)
           reserved == {OrderOf[s] : s \in {x \in Of(c.on) : v[x].status = "SUBMITTED"}}
<1>1. /\ c.at = "reserved" /\ CallOK(c) /\ c.waiting = {}
      /\ d = [c EXCEPT !.at = IF reserved = {} THEN "own" ELSE "lock",
                       !.reserved = reserved, !.todo = reserved]
    BY BanReadsReservedDoes DEF TypeInv, Done
<1> HIDE DEF reserved
<1>2. d.at \in {"own", "lock"} /\ d.on = c.on /\ d.waiting = {}
    BY <1>1 DEF CallOK, CallShape
<1>3. \A o, x : OrdersDone(c, o, x) => OrdersDone(d, o, x)
    BY <1>1, <1>2 DEF OrdersDone, BeforeSlots, BeforeRemove, BeforeClose
<1>4. \A s, x : /\ SlotsDone(c, s, x) => SlotsDone(d, s, x)
                /\ VideosDone(c, s, x) => VideosDone(d, s, x)
                /\ OwnDone(c, s, x) => OwnDone(d, s, x)
    BY <1>1, <1>2 DEF SlotsDone, VideosDone, OwnDone, Waited, BeforeReserved, BeforeDelete,
                BeforeVideos, BeforeSlots
<1> QED
    BY <1>2, <1>3, <1>4 DEF Done

\* A waiting statement has all that matched.
LEMMA WaitDone ==
    ASSUME TypeInv, StatusInv, NEW t \in Tx, call[t].op = "ban",
           Done(call[t], View(t), Locked(t), slipped), Wait(t)
    PROVE  Done(call'[t], View(t), Locked(t), slipped)
<1> DEFINE c == call[t]
           d == call'[t]
           v == View(t)
<1>1. /\ c.waiting = {} /\ BlockedBy(t) # {} /\ CallOK(c)
      /\ d = [c EXCEPT !.waiting = Where(t)]
    BY WaitDoes DEF TypeInv
<1>2. d.at = c.at /\ d.on = c.on /\ d.open = c.open /\ d.pending = c.pending
      /\ d.waiting = Where(t)
    BY <1>1 DEF CallOK, CallShape
<1>3. c.at \notin {"open", "pending", "reserved"}
    BY <1>1, FoundKind DEF BlockedBy
<1>4. /\ c.at = "close"  => Where(t) = {o \in c.open : v[o].status = "OPEN"}
      /\ c.at = "remove" => Where(t) = {o \in c.pending : v[o].status \in FROZEN}
      /\ c.at = "slots"  => Where(t) = {s \in In(c.open \cup c.pending) :
                                              v[s].status = "IN_PROGRESS"}
      /\ c.at = "videos" => Where(t) = {s \in In(c.pending) : v[s].status = "SUBMITTED"}
      /\ c.at = "delete" => Where(t) = {s \in Of(c.on) : v[s].status = "IN_PROGRESS"}
      /\ c.at = "own"    => Where(t) = {s \in Of(c.on) : v[s].status = "SUBMITTED"}
    BY WhereIs
<1> HIDE DEF d, v
<1>5. ASSUME NEW o \in Order \ slipped, OwnerOf[o] = c.on
      PROVE  OrdersDone(d, o, v[o])
    <2>1. OrdersDone(c, o, v[o])
        BY <1>5 DEF Done, v
    <2> QED
        BY <1>2, <1>4, <2>1 DEF OrdersDone, Waited, BeforeRemove, BeforeClose
<1>6. ASSUME NEW s \in Sub \ slipped, OwnerOf[OrderOf[s]] = c.on, OrderOf[s] \in Locked(t)
      PROVE  /\ SlotsDone(d, s, v[s])
             /\ v[OrderOf[s]].status = "REJECTED" => VideosDone(d, s, v[s])
    <2>1. /\ SlotsDone(c, s, v[s])
          /\ v[OrderOf[s]].status = "REJECTED" => VideosDone(c, s, v[s])
        BY <1>6 DEF Done, v
    <2>2. /\ s \in In(c.open \cup c.pending)
          /\ v[OrderOf[s]].status = "REJECTED" => s \in In(c.pending)
        BY <1>6, OwnOrders, OrdersOrSubs DEF In, v
    <2> QED
        BY <1>2, <1>4, <2>1, <2>2 DEF SlotsDone, VideosDone, Waited
<1>7. ASSUME NEW s \in Sub \ slipped, CreatorOf[s] = c.on
      PROVE  OwnDone(d, s, v[s])
    <2>1. OwnDone(c, s, v[s])
        BY <1>7 DEF Done, v
    <2> QED
        BY <1>2, <1>4, <1>7, <2>1 DEF OwnDone, Waited, Of
<1>8. Done(d, v, Locked(t), slipped)
    BY <1>2, <1>3, <1>5, <1>6, <1>7 DEF Done
<1> QED
    BY <1>8 DEF d, v

LEMMA ClosesDone ==
    ASSUME TypeInv, TypeInv', StatusInv, NEW t \in Tx,
           Done(call[t], View(t), Locked(t), slipped), CloseOpenOrders(t)
    PROVE  Done(call'[t], View(t)', Locked(t)', slipped')
<1> DEFINE c == call[t]
           d == call'[t]
           v == View(t)
           w == View(t)'
<1>1. /\ c.op = "ban" /\ c.at = "close" /\ Writes(t) /\ CallOK(c)
      /\ \A r \in Found(t) : mine'[t][r] = [v[r] EXCEPT !.status = "CLOSED", !.byBan = TRUE]
      /\ d = [c EXCEPT !.at = "remove", !.waiting = {}]
    BY CloseOpenOrdersDoes DEF TypeInv
<1>2. d.at = "remove" /\ d.on = c.on /\ d.waiting = {} /\ d.pending = c.pending
    BY <1>1 DEF CallOK, CallShape
<1>3. /\ slipped' = slipped
      /\ \A r \in Row : r \in Found(t) => w[r] = mine'[t][r]
      /\ \A r \in Row : r \notin Found(t) => w[r] = v[r]
    BY <1>1, WritesView
<1>4. Where(t) = {o \in c.open : v[o].status = "OPEN"}
    BY <1>1, WhereIs
<1>5. \A o \in Order : v[o] \in OrderRow
    BY SeenRows
<1> HIDE DEF d, v, w
<1>6. ASSUME NEW o \in Order \ slipped, OwnerOf[o] = d.on
      PROVE  OrdersDone(d, o, w[o])
    <2>1. OrdersDone(c, o, v[o])
        BY <1>2, <1>6 DEF Done, v
    <2>2. CASE o \in Found(t)
        <3> DEFINE x == v[o]
        <3>1. w[o] = [x EXCEPT !.status = "CLOSED", !.byBan = TRUE] /\ x \in OrderRow
            BY <1>1, <1>3, <1>5, <2>2, OrdersOrSubs
        <3> HIDE DEF x
        <3>2. w[o].status = "CLOSED"
            BY <3>1 DEF OrderRow
        <3> QED
            BY <1>2, <3>2 DEF OrdersDone, FROZEN
    <2>3. CASE o \notin Found(t)
        <3>1. w[o] = v[o]
            BY <1>3, <2>3, OrdersOrSubs
        <3>2. v[o].status # "OPEN"
            BY <1>1, <1>4, <2>1, <2>3, WaitedFound DEF OrdersDone
        <3> QED
            BY <1>1, <1>2, <2>1, <3>1, <3>2 DEF OrdersDone, Waited, BeforeSlots
    <2> QED
        BY <2>2, <2>3
<1>7. \A s, x : SlotsDone(d, s, x) /\ VideosDone(d, s, x) /\ OwnDone(d, s, x)
    BY <1>2 DEF SlotsDone, VideosDone, OwnDone, BeforeReserved, BeforeDelete, BeforeVideos,
                BeforeSlots
<1>8. Done(d, w, Locked(t)', slipped')
    BY <1>2, <1>3, <1>6, <1>7 DEF Done
<1> QED
    BY <1>8 DEF d, w

LEMMA RemovesDone ==
    ASSUME TypeInv, TypeInv', StatusInv, NEW t \in Tx,
           Done(call[t], View(t), Locked(t), slipped), RejectPendingOrders(t)
    PROVE  Done(call'[t], View(t)', Locked(t)', slipped')
<1> DEFINE c == call[t]
           d == call'[t]
           v == View(t)
           w == View(t)'
<1>1. /\ c.op = "ban" /\ c.at = "remove" /\ Writes(t) /\ CallOK(c)
      /\ \A r \in Found(t) : mine'[t][r] = [v[r] EXCEPT !.status = "REJECTED", !.byBan = TRUE]
      /\ d = [c EXCEPT !.at = "slots", !.waiting = {}]
    BY RejectPendingOrdersDoes DEF TypeInv
<1>2. d.at = "slots" /\ d.on = c.on /\ d.waiting = {} /\ d.pending = c.pending
    BY <1>1 DEF CallOK, CallShape
<1>3. /\ slipped' = slipped
      /\ \A r \in Row : r \in Found(t) => w[r] = mine'[t][r]
      /\ \A r \in Row : r \notin Found(t) => w[r] = v[r]
    BY <1>1, WritesView
<1>4. Where(t) = {o \in c.pending : v[o].status \in FROZEN}
    BY <1>1, WhereIs
<1>5. \A o \in Order : v[o] \in OrderRow
    BY SeenRows
<1> HIDE DEF d, v, w
<1>6. ASSUME NEW o \in Order \ slipped, OwnerOf[o] = d.on
      PROVE  OrdersDone(d, o, w[o])
    <2>1. OrdersDone(c, o, v[o])
        BY <1>2, <1>6 DEF Done, v
    <2>2. CASE o \in Found(t)
        <3> DEFINE x == v[o]
        <3>1. w[o] = [x EXCEPT !.status = "REJECTED", !.byBan = TRUE] /\ x \in OrderRow
            BY <1>1, <1>3, <1>5, <2>2, OrdersOrSubs
        <3> HIDE DEF x
        <3>2. w[o].status = "REJECTED"
            BY <3>1 DEF OrderRow
        <3> QED
            BY <1>2, <3>2 DEF OrdersDone, FROZEN
    <2>3. CASE o \notin Found(t)
        <3>1. w[o] = v[o]
            BY <1>3, <2>3, OrdersOrSubs
        <3>2. v[o].status \notin FROZEN
            BY <1>1, <1>4, <2>1, <2>3, WaitedFound DEF OrdersDone
        <3>3. v[o].status # "OPEN"
            BY <1>1, <2>1 DEF OrdersDone, BeforeRemove, BeforeClose
        <3> QED
            BY <1>2, <3>1, <3>2, <3>3 DEF OrdersDone
    <2> QED
        BY <2>2, <2>3
<1>7. \A s, x : SlotsDone(d, s, x) /\ VideosDone(d, s, x) /\ OwnDone(d, s, x)
    BY <1>2 DEF SlotsDone, VideosDone, OwnDone, Waited, BeforeReserved, BeforeDelete, BeforeVideos,
                BeforeSlots
<1>8. Done(d, w, Locked(t)', slipped')
    BY <1>2, <1>3, <1>6, <1>7 DEF Done
<1> QED
    BY <1>8 DEF d, w

\* A statement past the orders leaves their statuses, and takes no order of the user;
\* what it does to the submissions is left to show.
LEMMA LaterDone ==
    ASSUME TypeInv, TypeInv', NEW t \in Tx, Writes(t), call[t].at \notin BeforeSlots,
           Done(call[t], View(t), Locked(t), slipped),
           call'[t].at \notin BeforeSlots \cup {"reserved"}
               \/ (call'[t].at = "reserved" /\ call'[t].waiting = {}),
           call'[t].on = call[t].on,
           \A o \in Found(t) \cap Order : OwnerOf[o] # call[t].on,
           \A o \in Order : View(t)'[o].status = View(t)[o].status,
           \A s \in Sub : OwnerOf[OrderOf[s]] = call[t].on /\ OrderOf[s] \in Locked(t)
                /\ SlotsDone(call[t], s, View(t)[s]) => SlotsDone(call'[t], s, View(t)'[s]),
           \A s \in Sub : OwnerOf[OrderOf[s]] = call[t].on /\ OrderOf[s] \in Locked(t)
                /\ View(t)[OrderOf[s]].status = "REJECTED" /\ VideosDone(call[t], s, View(t)[s])
                => VideosDone(call'[t], s, View(t)'[s]),
           \A s \in Sub : CreatorOf[s] = call[t].on /\ OwnDone(call[t], s, View(t)[s]) =>
                OwnDone(call'[t], s, View(t)'[s])
    PROVE  Done(call'[t], View(t)', Locked(t)', slipped')
<1> DEFINE c == call[t]
           d == call'[t]
           v == View(t)
           w == View(t)'
<1>1. Locked(t)' = Locked(t) \cup Found(t) /\ slipped' = slipped
    BY WritesView
<1> HIDE DEF d, v, w
<1>2. \A o \in Order : OwnerOf[o] = c.on /\ o \in Locked(t)' => o \in Locked(t)
    BY <1>1
<1>3. ASSUME NEW o \in Order \ slipped, OwnerOf[o] = c.on
      PROVE  OrdersDone(d, o, w[o])
    <2>1. OrdersDone(c, o, v[o])
        BY <1>3 DEF Done, v
    <2>2. v[o].status # "OPEN" /\ v[o].status \notin FROZEN
        BY <2>1 DEF OrdersDone, BeforeSlots, BeforeRemove, BeforeClose
    <2>3. w[o].status = v[o].status
        BY DEF v, w
    <2> QED
        BY <2>2, <2>3 DEF OrdersDone
<1>4. ASSUME NEW s \in Sub \ slipped, OwnerOf[OrderOf[s]] = c.on, OrderOf[s] \in Locked(t)'
      PROVE  /\ SlotsDone(d, s, w[s])
             /\ w[OrderOf[s]].status = "REJECTED" => VideosDone(d, s, w[s])
    <2>1. OrderOf[s] \in Order /\ OrderOf[s] \in Locked(t)
        BY <1>2, <1>4, OrdersOrSubs
    <2>2. w[OrderOf[s]].status = v[OrderOf[s]].status
        BY <2>1 DEF v, w
    <2> QED
        BY <1>4, <2>1, <2>2 DEF Done, d, v, w
<1>5. ASSUME NEW s \in Sub \ slipped, CreatorOf[s] = c.on
      PROVE  OwnDone(d, s, w[s])
    BY <1>5 DEF Done, d, v, w
<1>6. d.on = c.on /\ (d.at \in {"open", "pending", "reserved"} => d.waiting = {})
    BY DEF d, BeforeSlots
<1>7. Done(d, w, Locked(t)', slipped')
    BY <1>1, <1>3, <1>4, <1>5, <1>6 DEF Done
<1> QED
    BY <1>7 DEF d, w

\* A statement that ends submissions.
LEMMA EndsSubs ==
    ASSUME TypeInv, TypeInv', NEW t \in Tx, Writes(t), Found(t) \subseteq Sub, NEW st,
           \A r \in Found(t) : mine'[t][r] = [View(t)[r] EXCEPT !.status = st]
    PROVE  /\ Found(t) \cap Order = {}
           /\ \A o \in Order : View(t)'[o].status = View(t)[o].status
           /\ \A s \in Found(t) : View(t)'[s].status = st
           /\ \A s \in Sub : s \notin Found(t) => View(t)'[s].status = View(t)[s].status
<1> DEFINE v == View(t)
           w == View(t)'
<1>1. /\ \A r \in Row : r \in Found(t) => w[r] = mine'[t][r]
      /\ \A r \in Row : r \notin Found(t) => w[r] = v[r]
    BY WritesView
<1>2. \A s \in Sub : v[s] \in SubRow
    BY SeenRows
<1> HIDE DEF v, w
<1>3. ASSUME NEW s \in Found(t) PROVE w[s].status = st
    <2> DEFINE x == v[s]
    <2>1. w[s] = [x EXCEPT !.status = st] /\ x \in SubRow
        BY <1>1, <1>2, OrdersOrSubs DEF v
    <2> HIDE DEF x
    <2> QED
        BY <2>1 DEF SubRow
<1>4. Found(t) \cap Order = {}
    BY OrdersOrSubs
<1>5. \A r \in Order \cup Sub : r \notin Found(t) => w[r].status = v[r].status
    BY <1>1, OrdersOrSubs
<1> QED
    BY <1>3, <1>4, <1>5 DEF v, w

LEMMA ExpiresDone ==
    ASSUME TypeInv, TypeInv', StatusInv, NEW t \in Tx, call[t].op = "ban",
           Done(call[t], View(t), Locked(t), slipped), ExpireSlots(t)
    PROVE  Done(call'[t], View(t)', Locked(t)', slipped')
<1> DEFINE c == call[t]
           d == call'[t]
           v == View(t)
           w == View(t)'
<1>1. /\ c.at = "slots" /\ Writes(t) /\ CallOK(c)
      /\ \A r \in Found(t) : mine'[t][r] = [v[r] EXCEPT !.status = "SLOT_EXPIRED"]
      /\ d = [c EXCEPT !.waiting = {}, !.at = IF c.op = "ban" THEN "videos" ELSE "commit"]
    BY ExpireSlotsDoes DEF TypeInv
<1>2. d.at = "videos" /\ d.on = c.on /\ d.waiting = {}
    BY <1>1 DEF CallOK, CallShape
<1>3. Found(t) \subseteq Sub
    BY <1>1, FoundKind DEF In
<1>4. Where(t) = {s \in In(c.open \cup c.pending) : v[s].status = "IN_PROGRESS"}
    BY <1>1, WhereIs
<1>5. /\ Found(t) \cap Order = {}
      /\ \A o \in Order : w[o].status = v[o].status
      /\ \A s \in Found(t) : w[s].status = "SLOT_EXPIRED"
      /\ \A s \in Sub : s \notin Found(t) => w[s].status = v[s].status
    BY <1>1, <1>3, EndsSubs
<1>6. ASSUME NEW s \in Sub, OwnerOf[OrderOf[s]] = c.on, OrderOf[s] \in Locked(t),
             SlotsDone(c, s, v[s])
      PROVE  SlotsDone(d, s, w[s])
    <2>1. s \in In(c.open \cup c.pending)
        BY <1>6, OwnOrders, OrdersOrSubs DEF In
    <2> HIDE DEF d, v, w
    <2>2. s \notin Found(t) => v[s].status # "IN_PROGRESS"
        BY <1>1, <1>4, <1>6, <2>1, WaitedFound DEF SlotsDone
    <2> QED
        BY <1>2, <1>5, <2>2 DEF SlotsDone
<1> HIDE DEF d, v, w
<1>7. \A s, x : VideosDone(d, s, x) /\ OwnDone(d, s, x)
    BY <1>2 DEF VideosDone, OwnDone, Waited, BeforeReserved, BeforeDelete, BeforeVideos
<1> QED
    BY <1>1, <1>2, <1>5, <1>6, <1>7, LaterDone DEF d, v, w, BeforeSlots

LEMMA RejectsDone ==
    ASSUME TypeInv, TypeInv', StatusInv, NEW t \in Tx,
           Done(call[t], View(t), Locked(t), slipped), RejectSubmitted(t)
    PROVE  Done(call'[t], View(t)', Locked(t)', slipped')
<1> DEFINE c == call[t]
           d == call'[t]
           v == View(t)
           w == View(t)'
<1>1. /\ c.op = "ban" /\ c.at = "videos" /\ Writes(t) /\ CallOK(c)
      /\ \A r \in Found(t) : mine'[t][r] = [v[r] EXCEPT !.status = "MODERATOR_REJECTED"]
      /\ d = [c EXCEPT !.at = "delete", !.waiting = {}]
    BY RejectSubmittedDoes DEF TypeInv
<1>2. d.at = "delete" /\ d.on = c.on /\ d.waiting = {}
    BY <1>1 DEF CallOK, CallShape
<1>3. Found(t) \subseteq Sub
    BY <1>1, FoundKind DEF In
<1>4. Where(t) = {s \in In(c.pending) : v[s].status = "SUBMITTED"}
    BY <1>1, WhereIs
<1>5. /\ Found(t) \cap Order = {}
      /\ \A o \in Order : w[o].status = v[o].status
      /\ \A s \in Found(t) : w[s].status = "MODERATOR_REJECTED"
      /\ \A s \in Sub : s \notin Found(t) => w[s].status = v[s].status
    BY <1>1, <1>3, EndsSubs
<1>6. ASSUME NEW s \in Sub, OwnerOf[OrderOf[s]] = c.on, OrderOf[s] \in Locked(t),
             v[OrderOf[s]].status = "REJECTED", VideosDone(c, s, v[s])
      PROVE  VideosDone(d, s, w[s])
    <2>1. s \in In(c.pending)
        BY <1>1, <1>6, OwnOrders, OrdersOrSubs DEF In
    <2> HIDE DEF d, v, w
    <2>2. s \notin Found(t) => v[s].status # "SUBMITTED"
        BY <1>1, <1>4, <1>6, <2>1, WaitedFound DEF VideosDone
    <2> QED
        BY <1>2, <1>5, <2>2 DEF VideosDone
<1> HIDE DEF d, v, w
<1>7. ASSUME NEW s \in Sub, SlotsDone(c, s, v[s]) PROVE SlotsDone(d, s, w[s])
    BY <1>1, <1>2, <1>5, <1>7 DEF SlotsDone, BeforeVideos, BeforeSlots
<1>8. \A s, x : OwnDone(d, s, x)
    BY <1>2 DEF OwnDone, Waited, BeforeReserved
<1> QED
    BY <1>1, <1>2, <1>5, <1>6, <1>7, <1>8, LaterDone DEF d, v, w, BeforeSlots

LEMMA DeletesDone ==
    ASSUME TypeInv, TypeInv', NEW t \in Tx,
           Done(call[t], View(t), Locked(t), slipped), DeleteInProgress(t)
    PROVE  Done(call'[t], View(t)', Locked(t)', slipped')
<1> DEFINE c == call[t]
           d == call'[t]
           v == View(t)
           w == View(t)'
<1>1. /\ c.op = "ban" /\ c.at = "delete" /\ Writes(t) /\ CallOK(c)
      /\ \A r \in Found(t) : mine'[t][r] = [v[r] EXCEPT !.status = "DELETED"]
      /\ d = [c EXCEPT !.at = "reserved", !.waiting = {}]
    BY DeleteInProgressDoes DEF TypeInv
<1>2. d.at = "reserved" /\ d.on = c.on /\ d.waiting = {}
    BY <1>1 DEF CallOK, CallShape
<1>3. Found(t) \subseteq Sub
    BY <1>1, FoundKind DEF Of
<1>4. Where(t) = {s \in Of(c.on) : v[s].status = "IN_PROGRESS"}
    BY <1>1, WhereIs
<1>5. /\ Found(t) \cap Order = {}
      /\ \A o \in Order : w[o].status = v[o].status
      /\ \A s \in Found(t) : w[s].status = "DELETED"
      /\ \A s \in Sub : s \notin Found(t) => w[s].status = v[s].status
    BY <1>1, <1>3, EndsSubs
<1> HIDE DEF d, v, w
<1>6. ASSUME NEW s \in Sub
      PROVE  /\ SlotsDone(c, s, v[s]) => SlotsDone(d, s, w[s])
             /\ VideosDone(c, s, v[s]) => VideosDone(d, s, w[s])
    BY <1>1, <1>2, <1>5 DEF SlotsDone, VideosDone, BeforeDelete, BeforeVideos, BeforeSlots
<1>7. ASSUME NEW s \in Sub, CreatorOf[s] = c.on, OwnDone(c, s, v[s]) PROVE OwnDone(d, s, w[s])
    <2>1. s \notin Found(t) => v[s].status # "IN_PROGRESS"
        BY <1>1, <1>4, <1>7, WaitedFound DEF OwnDone, Of
    <2> QED
        BY <1>2, <1>5, <2>1 DEF OwnDone
<1> QED
    BY <1>1, <1>2, <1>5, <1>6, <1>7, LaterDone DEF d, v, w, BeforeSlots

LEMMA LocksDone ==
    ASSUME TypeInv, TypeInv', StatusInv, NEW t \in Tx,
           Done(call[t], View(t), Locked(t), slipped), BanLocksOrder(t)
    PROVE  Done(call'[t], View(t)', Locked(t)', slipped')
<1> DEFINE c == call[t]
           d == call'[t]
           v == View(t)
           w == View(t)'
           rest == c.todo \ {Lowest(c.todo)}
<1>1. /\ c.op = "ban" /\ c.at = "lock" /\ Writes(t) /\ CallOK(c) /\ About(c)
      /\ \A r \in Found(t) : mine'[t][r] = v[r]
      /\ d = [c EXCEPT !.at = IF rest = {} THEN "own" ELSE "lock", !.todo = rest, !.waiting = {},
                       !.forUpdate = c.reserved \ rest]
    BY BanLocksOrderDoes DEF TypeInv, StatusInv
<1> HIDE DEF rest
<1>2. d.at \in {"own", "lock"} /\ d.on = c.on /\ d.waiting = {}
    BY <1>1 DEF CallOK, CallShape
<1>3. Found(t) \subseteq {Lowest(c.todo)} /\ Lowest(c.todo) \in c.todo
    BY <1>1, FoundKind
<1>4. \A o \in Found(t) : OwnerOf[o] # c.on
    BY <1>1, <1>3 DEF About
<1>5. \A r \in Row : w[r] = v[r]
    BY <1>1, WritesView
<1> HIDE DEF d, v, w
<1>6. ASSUME NEW s \in Sub
      PROVE  /\ SlotsDone(c, s, v[s]) => SlotsDone(d, s, w[s])
             /\ VideosDone(c, s, v[s]) => VideosDone(d, s, w[s])
             /\ OwnDone(c, s, v[s]) => OwnDone(d, s, w[s])
    <2>1. w[s] = v[s]
        BY <1>5, OrdersOrSubs
    <2> QED
        BY <1>1, <1>2, <2>1 DEF SlotsDone, VideosDone, OwnDone, Waited, BeforeReserved, BeforeDelete,
                                BeforeVideos, BeforeSlots
<1>7. \A o \in Order : w[o].status = v[o].status
    BY <1>5, OrdersOrSubs
<1> QED
    BY <1>1, <1>2, <1>4, <1>6, <1>7, LaterDone DEF d, v, w, BeforeSlots

LEMMA RejectsOwnDone ==
    ASSUME TypeInv, TypeInv', NEW t \in Tx,
           Done(call[t], View(t), Locked(t), slipped), RejectOwn(t)
    PROVE  Done(call'[t], View(t)', Locked(t)', slipped')
<1> DEFINE c == call[t]
           d == call'[t]
           v == View(t)
           w == View(t)'
<1>1. /\ c.op = "ban" /\ c.at = "own" /\ Writes(t) /\ CallOK(c)
      /\ \A r \in Found(t) : mine'[t][r] = [v[r] EXCEPT !.status = "MODERATOR_REJECTED"]
      /\ d = [c EXCEPT !.todo = c.reserved, !.waiting = {},
                       !.at = IF c.reserved = {} THEN "commit" ELSE "freed"]
    BY RejectOwnDoes DEF TypeInv
<1>2. d.at \in {"commit", "freed"} /\ d.on = c.on /\ d.waiting = {}
    BY <1>1 DEF CallOK, CallShape
<1>3. Found(t) \subseteq Sub
    BY <1>1, FoundKind DEF Of
<1>4. Where(t) = {s \in Of(c.on) : v[s].status = "SUBMITTED"}
    BY <1>1, WhereIs
<1>5. /\ Found(t) \cap Order = {}
      /\ \A o \in Order : w[o].status = v[o].status
      /\ \A s \in Found(t) : w[s].status = "MODERATOR_REJECTED"
      /\ \A s \in Sub : s \notin Found(t) => w[s].status = v[s].status
    BY <1>1, <1>3, EndsSubs
<1> HIDE DEF d, v, w
<1>6. ASSUME NEW s \in Sub
      PROVE  /\ SlotsDone(c, s, v[s]) => SlotsDone(d, s, w[s])
             /\ VideosDone(c, s, v[s]) => VideosDone(d, s, w[s])
    BY <1>1, <1>2, <1>5 DEF SlotsDone, VideosDone, BeforeDelete, BeforeVideos, BeforeSlots
<1>7. ASSUME NEW s \in Sub, CreatorOf[s] = c.on, OwnDone(c, s, v[s]) PROVE OwnDone(d, s, w[s])
    <2>1. s \notin Found(t) => v[s].status # "SUBMITTED"
        BY <1>1, <1>4, <1>7, WaitedFound DEF OwnDone, Of
    <2>2. v[s].status # "IN_PROGRESS"
        BY <1>1, <1>7 DEF OwnDone, BeforeReserved, BeforeDelete, BeforeVideos, BeforeSlots
    <2> QED
        BY <1>2, <1>5, <2>1, <2>2 DEF OwnDone
<1> QED
    BY <1>1, <1>2, <1>5, <1>6, <1>7, LaterDone DEF d, v, w, BeforeSlots

LEMMA FreesDone ==
    ASSUME TypeInv, TypeInv', StatusInv, NEW t \in Tx,
           Done(call[t], View(t), Locked(t), slipped), FreedOrder(t)
    PROVE  Done(call'[t], View(t)', Locked(t)', slipped')
<1> DEFINE c == call[t]
           d == call'[t]
           v == View(t)
           w == View(t)'
           rest == c.todo \ {Lowest(c.todo)}
           busy == FundBusy(v, Lowest(c.todo))
<1>1. /\ c.op = "ban" /\ c.at = "freed" /\ Writes(t) /\ CallOK(c) /\ About(c)
      /\ \A r \in Found(t) : mine'[t][r] = synced(v[r], busy)
      /\ d = [c EXCEPT !.at = IF rest = {} THEN "commit" ELSE "freed", !.todo = rest,
                       !.waiting = {}]
    BY FreedOrderDoes DEF TypeInv, StatusInv
<1> HIDE DEF rest
<1>2. d.at \in {"commit", "freed"} /\ d.on = c.on /\ d.waiting = {}
    BY <1>1 DEF CallOK, CallShape
<1>3. Found(t) \subseteq {Lowest(c.todo)} \cup In({Lowest(c.todo)}) /\ Lowest(c.todo) \in c.todo
    BY <1>1, FoundKind
<1>4. \A o \in Found(t) \cap Order : OwnerOf[o] # c.on
    BY <1>1, <1>3, OrdersOrSubs DEF About, In
<1>5. /\ \A r \in Row : r \in Found(t) => w[r] = mine'[t][r]
      /\ \A r \in Row : r \notin Found(t) => w[r] = v[r]
    BY <1>1, WritesView
<1>6. \A r \in Order \cup Sub : v[r] \in OrderRow \/ v[r] \in SubRow
    BY SeenRows
<1> HIDE DEF d, v, w, busy
<1>7. \A r \in Order \cup Sub : w[r].status = v[r].status
    <2>1. \A x : (x \in OrderRow \/ x \in SubRow) => synced(x, busy).status = x.status
        BY RowFields DEF synced, OrderRow
    <2> QED
        BY <1>1, <1>5, <1>6, <2>1, OrdersOrSubs
<1>8. ASSUME NEW s \in Sub
      PROVE  /\ SlotsDone(c, s, v[s]) => SlotsDone(d, s, w[s])
             /\ VideosDone(c, s, v[s]) => VideosDone(d, s, w[s])
             /\ OwnDone(c, s, v[s]) => OwnDone(d, s, w[s])
    <2>1. w[s].status = v[s].status
        BY <1>7
    <2> QED
        BY <1>1, <1>2, <2>1 DEF SlotsDone, VideosDone, OwnDone, BeforeReserved, BeforeDelete,
                                BeforeVideos, BeforeSlots
<1>9. \A o \in Order : w[o].status = v[o].status
    BY <1>7
<1> QED
    BY <1>1, <1>2, <1>4, <1>8, <1>9, LaterDone DEF d, v, w, BeforeSlots

\* No other request becomes a ban, and one that is over is none.
LEMMA NoBan ==
    ASSUME TypeInv, NEW t \in Tx, RequestStep(t) \/ (ExpireSlots(t) /\ call[t].op # "ban")
    PROVE  call'[t].op # "ban"
<1> DEFINE c == call[t]
<1>1. CallOK(c)
    BY DEF TypeInv
<1>2. Idle.op = "none"
    BY DEF Idle
<1>3. CASE Create(t) \/ Claim(t) \/ ClaimRefused(t) \/ Refused(t) \/ Commits(t)
    <2>1. call'[t] = Idle
        BY <1>3, CreateDoes, ClaimDoes, ClaimRefusedDoes, RefusedDoes, CommitsDoes
           DEF GivesUp, Lands
    <2> QED
        BY <1>2, <2>1
<1>4. CASE LockOrder(t) \/ Transition(t) \/ SyncFundBusy(t) \/ (ExpireSlots(t) /\ c.op # "ban")
    <2>1. c.at \in {"order", "write", "sync"} \/ c.op # "ban"
        BY <1>4, LockOrderDoes, TransitionDoes, SyncFundBusyDoes
    <2>2. c.op # "ban"
        BY <1>1, <2>1 DEF CallOK, BanAt
    <2>3. call'[t].op = c.op
        <3>1. CASE LockOrder(t)
            <4>1. call'[t] = [c EXCEPT !.at = "write", !.waiting = {}, !.forUpdate = Found(t)]
                BY <3>1, LockOrderDoes
            <4> QED
                BY <1>1, <4>1 DEF CallOK, CallShape
        <3>2. CASE Transition(t)
            <4>1. call'[t] = [c EXCEPT !.waiting = {},
                !.at = CASE c.op = "update" -> "commit"
                         [] c.op = "moderatorClose" -> "slots"
                         [] OTHER -> "sync",
                !.open = IF c.op = "moderatorClose" THEN {c.on} ELSE {}]
                BY <3>2, TransitionDoes
            <4> QED
                BY <1>1, <4>1 DEF CallOK, CallShape
        <3>3. CASE SyncFundBusy(t)
            <4>1. call'[t] = [c EXCEPT !.at = "commit", !.waiting = {}]
                BY <3>3, SyncFundBusyDoes
            <4> QED
                BY <1>1, <4>1 DEF CallOK, CallShape
        <3>4. CASE ExpireSlots(t)
            <4>1. call'[t] = [c EXCEPT !.waiting = {},
                                !.at = IF c.op = "ban" THEN "videos" ELSE "commit"]
                BY <3>4, ExpireSlotsDoes
            <4> QED
                BY <1>1, <4>1 DEF CallOK, CallShape
        <3> QED
            BY <1>4, <3>1, <3>2, <3>3, <3>4
    <2> QED
        BY <2>2, <2>3
<1> QED
    BY <1>3, <1>4 DEF RequestStep

\* The ban of t has done what its next statement builds on.
LEMMA StepDone ==
    ASSUME TypeInv, TypeInv', StatusInv, BanInv, NEW t \in Tx, Begin(t) \/ Step(t),
           call'[t].op = "ban"
    PROVE  Done(call'[t], View(t)', Locked(t)', slipped')
<1> DEFINE c == call[t]
           Shown == Done(call'[t], View(t)', Locked(t)', slipped')
<1>1. Idle.op # "ban"
    BY DEF Idle
<1>2. c.op = "ban" => Done(c, View(t), Locked(t), slipped)
    BY DEF BanInv
<1>3. ASSUME Begin(t) PROVE Shown
    <2>1. ASSUME NEW op, NEW on, NEW at, Begun(t, op, on, at) PROVE Shown
        <3>1. call'[t] = Fresh(op, on, at)
            BY <2>1 DEF Begun, BeganAs
        <3>2. op = "ban"
            BY <3>1, FreshFields
        <3>3. at = "user"
            BY <2>1, <3>2 DEF Begun, OrderOps, SubOps
        <3> QED
            BY <3>1, <3>3, FreshFields, EarlyDone
    <2>2. ASSUME NEW u \in User, Unban(t, u) PROVE Shown
        <3>1. call' = call /\ c.op = "none"
            BY <2>2, UnbanDoes DEF Unban
        <3> QED
            BY <3>1
    <2> QED
        BY <1>3, <2>1, <2>2, BeginDoes
<1>4. ASSUME BanUser(t) PROVE Shown
    <2>1. CallOK(c) /\ call'[t] = [c EXCEPT !.at = "open", !.waiting = {}]
        BY <1>4, BanUserDoes DEF TypeInv
    <2>2. call'[t].at = "open" /\ call'[t].waiting = {}
        BY <2>1 DEF CallOK, CallShape
    <2> QED
        BY <2>2, EarlyDone
<1>5. ASSUME BanReadsOpen(t) PROVE Shown
    <2>1. c.op = "ban" /\ Thinks(t)
        BY <1>5, BanReadsOpenDoes
    <2>2. Locked(t)' = Locked(t) /\ slipped' = slipped /\ View(t)' = View(t)
        BY <2>1, ThinksView
    <2> QED
        BY <1>2, <1>5, <2>1, <2>2, ReadsOpenDone
<1>6. ASSUME BanReadsPending(t) PROVE Shown
    <2>1. c.op = "ban" /\ Thinks(t)
        BY <1>6, BanReadsPendingDoes
    <2>2. Locked(t)' = Locked(t) /\ slipped' = slipped /\ View(t)' = View(t)
        BY <2>1, ThinksView
    <2> QED
        BY <1>2, <1>6, <2>1, <2>2, ReadsPendingDone
<1>7. ASSUME BanReadsReserved(t) PROVE Shown
    <2>1. c.op = "ban" /\ Thinks(t)
        BY <1>7, BanReadsReservedDoes
    <2>2. Locked(t)' = Locked(t) /\ slipped' = slipped /\ View(t)' = View(t)
        BY <2>1, ThinksView
    <2> QED
        BY <1>2, <1>7, <2>1, <2>2, ReadsReservedDone
<1>8. ASSUME Wait(t) PROVE Shown
    <2>1. Thinks(t) /\ CallOK(c) /\ call'[t] = [c EXCEPT !.waiting = Where(t)]
        BY <1>8, WaitDoes DEF TypeInv
    <2>2. c.op = "ban"
        BY <2>1 DEF CallOK, CallShape
    <2>3. Locked(t)' = Locked(t) /\ slipped' = slipped /\ View(t)' = View(t)
        BY <2>1, ThinksView
    <2> QED
        BY <1>2, <1>8, <2>2, <2>3, WaitDone
<1>9. ASSUME CloseOpenOrders(t) PROVE Shown
    BY <1>2, <1>9, CloseOpenOrdersDoes, ClosesDone
<1>10. ASSUME RejectPendingOrders(t) PROVE Shown
    BY <1>2, <1>10, RejectPendingOrdersDoes, RemovesDone
<1>11. ASSUME ExpireSlots(t) PROVE Shown
    BY <1>2, <1>11, NoBan, ExpiresDone
<1>12. ASSUME RejectSubmitted(t) PROVE Shown
    BY <1>2, <1>12, RejectSubmittedDoes, RejectsDone
<1>13. ASSUME DeleteInProgress(t) PROVE Shown
    BY <1>2, <1>13, DeleteInProgressDoes, DeletesDone
<1>14. ASSUME BanLocksOrder(t) PROVE Shown
    BY <1>2, <1>14, BanLocksOrderDoes, LocksDone
<1>15. ASSUME RejectOwn(t) PROVE Shown
    BY <1>2, <1>15, RejectOwnDoes, RejectsOwnDone
<1>16. ASSUME FreedOrder(t) PROVE Shown
    BY <1>2, <1>16, FreedOrderDoes, FreesDone
<1>17. ASSUME BanRefused(t) \/ BanCommits(t) \/ Tighten(t) \/ AbortDeadlocked(t) PROVE Shown
    <2>1. call'[t] = Idle
        BY <1>17, BanRefusedDoes, BanCommitsDoes, TightenDoes, AbortDeadlockedDoes
           DEF GivesUp, Lands
    <2> QED
        BY <1>1, <2>1
<1>18. ASSUME RequestStep(t) PROVE Shown
    BY <1>18, NoBan
<1> HIDE DEF Shown
<1>19. ASSUME BanStep(t) PROVE Shown
    BY <1>4, <1>5, <1>6, <1>7, <1>9, <1>10, <1>11, <1>12, <1>13, <1>14, <1>15, <1>16, <1>17, <1>19
       DEF BanStep
<1>20. Shown
    BY <1>3, <1>8, <1>17, <1>18, <1>19 DEF Step
<1> QED
    BY <1>20 DEF Shown

LEMMA BanNext ==
    TypeInv /\ LockInv /\ StatusInv /\ BanInv /\ [Next]_vars => BanInv'
<1> SUFFICES ASSUME TypeInv, LockInv, StatusInv, BanInv, [Next]_vars PROVE BanInv'
    OBVIOUS
<1>1. ASSUME NEW t \in Tx, Begin(t) \/ Step(t) PROVE BanInv'
    <2>1. TypeInv'
        BY <1>1, TypeNext DEF Next
    <2>2. ASSUME NEW u \in Tx, call'[u].op = "ban"
          PROVE  Done(call[u], View(u), Locked(u), slipped)'
        <3>1. CASE u = t
            <4>1. Done(call'[t], View(t)', Locked(t)', slipped')
                BY <1>1, <2>1, <2>2, <3>1, StepDone
            <4> QED
                BY <3>1, <4>1 DEF Done, OrdersDone, SlotsDone, VideosDone, OwnDone, Waited
        <3>2. CASE u # t
            <4>1. call'[u] = call[u]
                BY <1>1, <3>2, StepKinds DEF Alone
            <4>2. Done(call[u], View(u), Locked(u), slipped)
                BY <2>2, <4>1 DEF BanInv
            <4> QED
                BY <1>1, <2>1, <2>2, <3>2, <4>1, <4>2, OtherDone
        <3> QED
            BY <3>1, <3>2
    <2>3. LeftClosed(db', slipped')
        BY <1>1, ClosedNext
    <2>4. BannedLeavesNothing'
        BY <1>1, BannedNext
    <2> QED
        BY <2>2, <2>3, <2>4 DEF BanInv, LeftClosed
<1>2. CASE UNCHANGED vars
    BY <1>2 DEF vars, BanInv, Done, OrdersDone, SlotsDone, VideosDone, OwnDone, Waited, LeftClosed,
                BannedLeavesNothing, View, Locked, Of
<1> QED
    BY <1>1, <1>2 DEF Next

LEMMA BanInit == Init => BanInv
<1> SUFFICES ASSUME Init PROVE BanInv
    OBVIOUS
<1>1. \A t \in Tx : call[t].op = "none"
    BY DEF Init, Idle
<1>2. PICK os \in [Order -> [status : StartOrder, published : BOOLEAN, busy : BOOLEAN,
                             byBan : {FALSE}]],
           ss \in [Sub -> [status : StartSub]] :
        db = Upon(Upon(os, ss), [u \in User |-> [banned |-> FALSE, final |-> FALSE]])
    BY DEF Init
<1>3. \A o \in Order : ~db[o].byBan
    <2>1. \A o \in Order : db[o] = os[o]
        BY <1>2, OrdersOrSubs DEF Upon
    <2> QED
        BY <2>1
<1>4. \A u \in User : ~db[u].banned
    BY <1>2, OrdersOrSubs DEF Upon
<1> QED
    BY <1>1, <1>3, <1>4, OrdersOrSubs DEF BanInv, LeftClosed, BannedLeavesNothing

\* Whatever ran beside it, a ban that is committed has left no order of the user in
\* force, nothing of theirs for a moderator and nobody at work on the orders it took
\* down, but for the rows put in force behind its reads (bans.service.ts, ban).
THEOREM BannedIsOut == Spec => []BannedLeavesNothing
<1>1. Init => StatusInv /\ BanInv
    BY StatusInit, BanInit
<1>2. TypeInv /\ LockInv /\ StatusInv /\ BanInv /\ [Next]_vars => StatusInv' /\ BanInv'
    BY StatusNext, BanNext
<1>3. BanInv => BannedLeavesNothing
    BY DEF BanInv
<1> QED
    BY <1>1, <1>2, <1>3, Locking, PTL DEF Spec
=============================================================================
