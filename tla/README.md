# Creon bot: TLA+ models, model checking and proofs

Creon is a marketplace in Telegram. An advertiser places an order with a budget;
a moderator approves it and sets the rate per 1000 views; creators take a slot,
publish a video and submit it; a moderator counts its views and accrues the
payout; after a hold the money can be withdrawn. The server is one NestJS process
over PostgreSQL (`src/src`), and several copies of it may run at once, so a
handler is a set of SQL statements that interleave with those of other handlers.
Two clients call it: a web cabinet (`src/web`) and a mini-app (`src/webapp`),
whose screens hold copies of rows that go stale and answers that come late.

`PROJECT.json` lists the components, the runs with their properties, a mutant
for each property, the lines each definition models, the hazards of the code and
the theorems.

## 1. Inventory

| Component | State it keeps | Operations | Interacts with |
|---|---|---|---|
| Money arithmetic (`orders/budget.ts`) | none | pool, payout, spent, free, exhausted, typical price | everything that moves money |
| Orders (`orders/*`) | `Order` row: status, budget, approved budget, rate, offer, snapshot before the edit, version, pause of a busy fund, deadline with its reminder | create, update, close, extend, remove, expire, moderator approve / reject / close, remind, report, list | submissions (slots burn, reserves), bans, reports, tasks |
| Submissions (`submissions/*`) | `Submission` row: status, views, payout, terms at submission, video key, end of hold, rating, review | claim, submit, approve, reject, reject as inflated, publication deleted, finalize, slot expiry, rate, approve / remove a review | the fund of the order, payouts, accounts |
| Bans (`moderation/bans.service.ts`) | `User.bannedAt`, `banFinal` | ban, unban, ban with a decision on reports | orders, submissions, reports |
| Reports (`reports/*`) | `Report` row, one per reporter and object | report, decide with a measure | takedown of orders, reviews, profiles; bans |
| Payout requests (`payouts/*`) | `Payout` row; the balance is computed | request, mark paid, reject | approved submissions |
| Notification outbox (`telegram/notifications.service.ts`) | `Notification` rows with `sendAfter`, `attempts`, `priority` | enqueue, take a batch, send, retry, drop | every service, Telegram |
| Background tasks (`jobs/*`) | `JobLease` row, timers in memory | take the lease, run the tasks | orders, submissions, outbox |
| Connected accounts (`accounts/*`) | OAuth states, pending and confirmed accounts, tokens | start, complete, confirm, decline, refresh, disconnect, count views | platforms (HTTP), view counters |
| Support (`support/*`) | topic of a user, flood window and topics being made in memory | message from a user, answer, close | Telegram |
| Moderation endpoints (`moderation/*`) | the journal | queue, cards, decisions, lists of orders and people | every service; journal, then notification |
| Profiles and checks of input | `User` row: links, wallet with its mark, switch | read, save | the clients, payouts |
| Screens of creators, advertisers, moderators (`web`, `webapp`) | copies of rows, forms, requests on their way | load, type, send, take an answer | the endpoints |
| Authentication, counters of views, statistics, bot entry, monitoring | none shared, or only read | | |

### What is hard about it

* **Reads before the transaction.** Most handlers read the order row, check it, and
  then open a transaction that locks the row (`lockOrder`). What was decided on
  the first read can be stale under the lock.
* **A frozen order.** An edit of a published order writes the new offer and budget
  into the row at once, while videos on review still have to be checked and paid
  by the old terms and from the old money, and closing must roll back.
* **Caches of sums.** The pause of the slots and the closing of a used-up order
  cache a condition over two sums and a status.
* **Statements without a lock**: bans, balances, claims, extension, reports.
* **Leases** of messages and of tasks that time out while their holder still works;
  crashes between sending and deleting.
* **Late answers.** Every screen may have several requests on their way; filters
  change, cards are replaced, the other app saves; an answer is lost and the user
  tries again.
* **Several moderators** at one queue and at the reports on one object, with the
  change, the journal and the messages in three separate steps.

### What makes each component correct

* Fund: reserves and accruals never exceed what was paid for; creators are paid by
  the terms they submitted under; an accrual is never taken away by an edit, a
  closing or a ban; what creators can see was approved.
* Payouts: what is requested and paid never exceeds what the hold released; a
  decision on a request is final.
* Outbox: a queued message is sent or given up in the end, and by one worker.
* Lease: one copy runs the tasks; another takes over when it dies.
* Bans: nobody works for, or waits on, a banned user afterwards.
* Decisions: one per object, on what the moderator saw, written down and told.
* Accounts: one account per identity, connected by who agreed to it, kept by a refresh.
* Screens: what a quiet screen shows is stored; what it offers is accepted; what is
  typed is what is saved.

## 2. Plan

| Module | What it models | Composed in | Proved |
|---|---|---|---|
| `Budget` | money arithmetic | `OrderFund`, `OrderReport` | its lemmas, in `OrderFund_proofs` |
| `OrderFund` | one order, its fund, its submissions, requests with outdated reads | refines `FundLedger` | `OrderFund_proofs` |
| `FundLedger` | abstract: entries reserved, accrued, settled or released from one pool | | |
| `Payouts` | balance and requests, statement by statement | | `Services_proofs` |
| `Outbox` | queue, batch lease, retries, crashes | | `Outbox_proofs` |
| `JobLease` | lease of the background tasks | | `Services_proofs` |
| `Bans` | bans statement by statement with row locks | | `Bans_proofs` |
| `Accounts` | OAuth, tokens, views counted through them | | `Accounts_proofs` |
| `Talk` | support topics, flood windows | | `Services_proofs` |
| `Desk`, `Reports`, `Lists` | what moderators decide, and the lists they page through | `Moderator` | `Moderator_proofs` |
| `Catalog`, `Work`, `Profile`, `Balance` | the creator's screens with their endpoints | `Creator` | `Creator_proofs` |
| `OrderForm`, `Cabinet`, `OrderReport` | the advertiser's screens with their endpoints | `Advertiser` | `Advertiser_proofs` |

`Moderator`, `Creator` and `Advertiser` put one screen in front: a screen that is
left is unmounted and forgets everything, so two screens meet only in the rows,
and each module lets the rest of the system change those. A screen that is not in
front has one state, so that a run is the sum and not the product of its parts.
Their named assumptions gather those of the parts.

Left for later: clocks of slots through freezes and pauses (`slot.ts`), the typical
price, clicks, the fund lemmas as laws of `Budget`. `Payouts`, `Talk` and `JobLease` share
nothing; their proofs stand side by side in `Services_proofs`.

## 3. `Budget` and `OrderFund`

`Budget` holds the arithmetic of `budget.ts` in whole cents; `0` stands for the
SQL null of the rate and of the approved budget (both are positive when set).
The TypeScript computes in floating point; amounts are far below 2^53 / 100, so
its floors and ceilings are exact and the model uses integers.

`OrderFund` is one order with its submissions.

| Variable | Code |
|---|---|
| `order` | the `Order` row. `version` counts what `moderationRequestedAt` tells apart; `fundBusy` is "`fundBusyAt` is set" |
| `subs` | the `Submission` rows; `inflated` is a rejection with the comment `INFLATED_VIEWS`, `finalized` is "`finalizedAt` is set" |
| `stale` | what requests in flight read before their transaction: the row, whether the fund was exhausted, the slots in progress and the videos rejected as inflated. A read carries the number of its request (`by`), so that two requests that have read the same are two |
| `counted` in `subs` | history: the views the accrual was counted at. The end of the hold overwrites `views` - a moderator may enter any number there - and leaves the payout alone |
| `vetted`, `removed` | history: the offer a moderator let through last; a takedown or a ban closed the published order |

A handler is one action. It takes `seen`, a read made earlier (`stale`) or just
now (`Now`), checks on `seen` what the code checks before its transaction, and
on `order` and `subs` what it checks under the lock or in the `where` of its
update. The transaction is one step because the handlers that move money hold
the row lock, and the others are one SQL statement. A moderator's decision also
takes `card`, what was on the screen: its version is the one sent back with the
decision.

The offer is abstract: a record with the view threshold, whether it carries a
product link, and nothing else the properties tell apart. Deadlines, slot days
and the hold are not clocks here: what becomes due may happen at any time.
Snapshots of rows older than `Submission.terms` (the fallback to `prevTerms` in
`submittedTerms`) are not modelled: every row of the model has its own terms.
The limit of active orders and input checks are in `OrderForm`; ownership is left
out, it restricts who may call and not what a call does. A ban is one step here;
its statements are in `Bans`.

### Run

`order_money`: 2 rows of 2 creators, 2 videos, offers that differ in the threshold
(1000 or 2000 views) or in a product link, budgets 5 and 10, rate 4, 2 versions and
one request that has read the rows at any earlier time. Creators with their rows, and
videos, are symmetric. 1.17 million states.

* `FundCovered`, `PayoutFair`, `PublishedBudgetPaid`: the money. What a row holds is
  no less than the agreed threshold earns, and an accrual no more than the views it was
  counted at earn; the row may say fewer views by then. `ApprovedAsSeen`: an
  approval publishes what was on the moderator's screen, at the budget of that moment.
* `LedgerKept`: `OrderFund` implements `FundLedger`. The refinement maps the pool to
  what creators may be promised (`Provided`: the lesser of the current and of the
  approved pool, nothing before the first approval) and each row to an entry of its
  kind; the abstract ledger only reserves, accrues, settles, cancels before the end of
  the hold, releases, and never gives out more than the pool.
* `SyncKept`: no step but reopening leaves an open order used up, or a pause that does
  not fit the sums. The pause has a second exception, which TLC found: a creator who
  read the order before it was frozen and then closed takes a slot. Closing ends the
  pause and burns the slots without counting again, so the new slot ticks although all
  the money is reserved. Hence the pause is claimed of steps that are `Fresh`.
* `HarmOnlyByStaleRead`: a step that decides on what is there (`Fresh`) never publishes
  an unvetted offer, brings back a removed link, mixes the two pauses of the slots, or
  lets in a video that is too small, inflated or of a removed order. What goes wrong
  needs a read made before the lock that is no longer true.

Why the bounds are enough: a pool of 4 or 8 cents with payouts of 4 or 8 lets one or
two videos use it up, which is where reserves, accruals and closing meet; two versions
give an edit with its rollback or approval; one outdated read is a request overtaken
by everything else.

By hand, with `MaxStale = 0` and `MaxVersion = 3` (no outdated reads): without
interference `FrozenNotBusy`, `ShownOfferVetted`, `RemovedLinkStaysOut` and
`RemovedTakesNoVideos` hold outright. Three configurations show that the exceptions
above are needed, by refuting what comments of the code promise:

| Configuration | What happens |
|---|---|
| `MCOrderFund_reopened.cfg`, `BusySparesSlots` | while an order is expired any decision on a video ends the pause of its slots (`syncFundBusy` calls only an open or closed order busy), and `extend` opens it without counting again: slots burn although no video can be submitted, against the comment on `SLOT_TICKS` |
| `MCOrderFund_stale_offer.cfg`, `ShownOfferVetted` | an edit that read the order before an approval takes no snapshot of what was approved, and closing shows an offer nobody approved |
| `MCOrderFund_stale_threshold.cfg`, `ThresholdMet` | a video checked against the threshold read earlier is recorded with the terms of a newer edit |

In their place: `OpenNotExhausted` (extending an expired order that accruals have used
up publishes it again), `FrozenNotBusy` (an edit that read before a submission made the fund busy),
`RemovedLinkStaysOut` (a snapshot with a link removed since), `RemovedTakesNoVideos`
(a claim that passed its checks before a takedown) and `InflatedStaysOut` (one video in
two requests) fall in the same way.

All `OrderFund` runs set `CHECK_DEADLOCK FALSE`: a removed order with every row decided
is the end of its life. No fairness is assumed: an advertiser or a moderator may never
act.

### Proofs (`OrderFund_proofs`)

The theorems hold for any finite set of rows, any creators, videos, offers,
budgets, rates, view counts, any fee below 100 percent, any number of versions
and of requests in flight. They assume what the named assumptions of
`OrderFund` say: rows belong to creators, thresholds are natural numbers,
an offer has a threshold and a link and without its link is an offer too, budgets
and rates are positive.

* `TypeCorrect`: `Spec => []TypeOK`. The inductive invariant `TypeInv` adds that
  the set of cents held is finite. The model states a sum of payouts as the
  number of cents held (`Cents`), so that sums are proved by the library's facts
  about cardinality: `ReturnedMoney`, `ReservedMoney` and `SettledMoney` say how
  the sum moves when rows return, reserve or settle money.
* `FundAlwaysCovered`: `Spec => []FundCovered`, and `PublishedAlwaysPaid`:
  `Spec => []PublishedBudgetPaid`. `FundCovered` is not inductive: closing a
  frozen order restores the approved budget only if there is one, and approving
  writes the budget the moderator's handler read, which must be the budget of
  today. `FundInv` adds that a rate and an approved budget come together
  (`RatedTogether`), that nothing is held before the first approval and after
  removal (`NothingHeld`), and what an old read still says of the row
  (`ReadsAgree`): the same version in moderation has the same budget. Most
  actions are "quiet" (`QuietOrder`, `QuietMoney`: they set no money term and
  reserve nothing) and share one lemma; creation, edits, rollbacks, approvals,
  submissions and accruals have a proof of their own. `FundInv` was checked with
  TLC on small instances before it was proved.
* `PayoutAlwaysFair`: `Spec => []PayoutFair`. It needs the money to be covered: an
  approval pays the lesser of what its views earn and of what is free beyond the
  video's own reserve, and that is no less than the reserve only while the rest fits
  the fund (`FundInv`).
* `FundIsLedger`: `Spec => Ledger!Spec`, the refinement. Each action is matched with
  one step of the ledger or a stutter: entries change only as their kind allows, and
  the covered sum of the ledger is `FundCovered` on both sides of the step.

The second part is about what one step may do. Its invariant `StepInv` adds to
`FundInv` three facts, checked with TLC before they were proved: an order on review is
what any read of the same version says, but for a link removed since (`OffersAgree`); a
pause is on only while the free money is all reserved and not all of it accrued
(`BusyHonest`); an order a moderator removed stays closed or deleted
(`RemovedStaysClosed`).

* `AlwaysApprovedAsSeen`: `Spec => ApprovedAsSeen`. The version in the update's `where`
  makes the moderator's card and the order the same version, and `OffersAgree` and
  `ReadsAgree` make them the same offer and budget.
* `AlwaysSynced`: `Spec => SyncKept`. A step falls in one of three kinds
  (`StepShape`): it leaves an order that takes no videos or has no slots (`Off`), it keeps
  what the pause is computed from (`Kept`), or it counts again (`Synced`). A claim is the one
  step that takes a slot, and a fresh one takes it on an order that is open and not busy.
* `FreshReadsDoNoHarm`: `Spec => HarmOnlyByStaleRead`. In a fresh step the read a
  request decides on is what is there (`FreshSeen`), so that its checks are checks of the
  row; the order's part (`OrderStep`) and the rows' part (`RowSteps`, `RemovedStep`,
  `FreshVideo`) are proved apart.

## 4. `Payouts`

One creator with a few videos. `requestPayout` is a chain of steps, one per
statement: the row of the user is locked (and its wallet read), the three sums of
`balance` are read, the request is inserted or refused. In PostgreSQL's default
isolation each statement sees what is committed when it runs, so whatever
moderators do to videos and requests, which takes other locks or none, may happen
in between. The three queries are started together but share the connection of
the transaction, which runs them one after the other in the order of the list.

| Variable | Code |
|---|---|
| `accrual` | what counts of `Submission.status`, `finalizedAt`: approved and on hold, approved and final, cancelled |
| `payouts` | the `Payout` rows, `wallet` whether `User.payoutWallet` is set |
| `userLock`, `req` | the transaction that holds the row of the user; the calls of `requestPayout` and what each has read |
| `raced` | history: accruals cancelled between the first two sums of some balance |

`payouts_balance` (videos of 2 and 1 cents, requests of 1 or 2, two calls at once,
three rows) shows that what is requested and paid never exceeds what the hold
released plus what was cancelled in that window (`OverdrawnOnlyInWindow`), and that every call ends and gives the row back
(`RequestAnswered`). The bounds let a request take all, take part and leave a
part, be refused and asked for again, and let a decision fall between the check of
one call and that of the next. The window is real: named in the configuration,
`WithdrawnReleased` fails when a publication is found deleted between the sums.

Fairness: a transaction that began runs to its end (weak), and a call that waits
for the row gets it if it comes free again and again (strong: PostgreSQL queues
waiters). Nothing makes a creator ask or a moderator decide; the run says
`CHECK_DEADLOCK FALSE` because when the rows are used up all may rest. The minimum
amount is in `Balance`; that two moderators do not both decide a request is
`OneDecision` of `Desk`.

### Proofs (`Services_proofs`)

For any videos, amounts, requests at once and rows:

* `PayoutsTypeCorrect`: `PayoutsSpec => []PayoutsTypeOK`.
* `NeverOverdrawnBeyond`: `PayoutsSpec => []OverdrawnOnlyInWindow`. A request decides on three
  sums read one after the other, so the bound must hold for what it has read, not only
  for the tables. `BalanceInv` adds that the row of the user is held by one request at a
  time, that nobody else's request can be inserted meanwhile, and where each request
  stands between its sums: what it has read as accrued was there, or has been cancelled
  since and counts as raced. Sums are cardinalities of sets of cents, as in `OrderFund`.

## 5. `Outbox`

The `Notification` table and the workers of all copies. A tick is the unit of the
waits; a message costs a worker at most `SendTicks` of them, its timeout.

| Variable | Code |
|---|---|
| `row` | the table: `wait` is the time to `sendAfter`, `attempts` as in the row; a deleted row is `GONE` |
| `worker` | `at` is where `work` / `processBatch` stand, `batch` what is left of the batch, `skip` the banned chats found in it, `seen` the attempts read with it, `stopping` the flag |
| `banned` | users with `bannedAt` |
| `faults` | crashes, stops, lost databases and floods so far, at most `MaxFaults` |
| `log` | history: what reached its chat, what failed or was refused, whose lease ended in a batch |

Taking a batch is one SQL statement and one step; looking up the bans, the call to
Telegram and the update or delete that follows it are a step each. A row another
worker has deleted makes Prisma throw, which ends the batch (`RowGone`). A call
that times out may have reached the chat. `log[m].sent` counts the deliveries the
worker learnt of and could record, so that re-sending what a crash or a timeout
left unknown, which the code wants, is not counted as a double.

`outbox_queue`: 2 messages (one a broadcast), 2 workers, batches of 2, a lease of 2
ticks, one fault. A message is sent twice only if its lease ended while it waited in a
batch (`TwiceOnlyLate`), none is dropped without a reason (`DroppedForCause`), and every
queued message is sent or dropped in the end (`QueueDrains`). With this lease a slow
batch outlives it and a fast one does not. Two messages and two workers are enough: a
double needs one message still waiting in a batch and one worker that takes it again.

By hand: with `Lease = 3`, more than a batch can take, `SentOnce` holds (no message is
sent twice at all); with `Lease = 1` it is refuted. The code's
numbers are on that side of the line: 20 messages of up to 10 seconds each against a
lease of one minute. `MCOutbox_banned.cfg`: a user banned while the batch is being sent
is still written to (`BannedNotWritten` is refuted; the bans are looked up once per
batch, although the comment says "at the moment of sending").

Fairness is weak for each worker (its loop runs as long as the process lives, a
stopped process is started again, a call ends by its timeout) and for time; faults
are bounded, because a Telegram that answers 429 for ever keeps a message queued
for ever, as the code intends. The run says `CHECK_DEADLOCK FALSE`: an empty queue
rests. Lost inserts (`enqueue` only logs them), lifting of bans and the short
pauses between messages and passes are not modelled. A broadcast is one statement for
the readers of one language (`newOrderPublished`); any other message is a row of its own
(`enqueue`).

### Proofs (`Outbox_proofs`)

For any messages, chats, batches, leases and waits, any finite number of workers (they
are processes) and any number of faults:

* `TypeCorrect`: `Spec => []TypeOK`.
* `TwiceOnlyWhenLate`: `Spec => []TwiceOnlyLate`. It needs two facts about every message
  whose lease has not ended in a batch: while it is in a batch its row is queued, put
  off, and in no other batch (`LeaseHeld`); once it was sent its row is gone, or one
  worker has the answer and is about to delete it (`SentSettled`).
* `NeverDroppedEarly`: `Spec => []DroppedForCause`. `AnswersKnown` says what an answer
  in the hands of a worker was worth; `AttemptsFailed` that a row never counts more
  attempts than there were failures, and a worker never remembers more than the row
  counts - which is what two workers that share a late row could break.

## 6. `JobLease`

The lease of the background tasks. `lease.left` is what is left to `until`, with
`Over` for a moment after it; a tick divides the interval of five minutes. `copy`
holds the timer of `setInterval`, the passes of `runTasks` in progress and the
ticks the last one has taken. A copy whose timer is due acts before time goes on;
the copies due at one tick act in any order. A process that ends leaves a lease
with a holder that no longer exists (`Nobody`): its successor has a new id.
`orphaned` counts, for each copy, the ticks for which such a lease is in the way of it
while it polls and is in no pass; a try the database failed starts its count again.
Nothing in the code bounds a pass, and the lease is renewed only when one begins, so
the bound of the model (`MaxPass`) is longer than the lease.

| Run | Instance | What it shows |
|---|---|---|
| `jobs_lease` | 3 copies, an interval of 2 ticks, a lease of three intervals (6), passes of up to 8, three faults; 59 thousand states | one pass at a time, but beside a pass that has outlived its lease (`OnePass`); a copy that polls takes the tasks of a dead one over within the lease and one interval (`TakenOver`); new passes always begin again (`TasksRun`) |

By hand, with other constants:

* `OnePassAlways`, what the comment of `ScheduledJob` says (one copy runs the tasks, or
  messages would double), holds with passes of up to the lease and is refuted with
  passes one tick longer: the lease is over while the holder is still in its pass, and
  another copy takes it.
* `HolderKept`, that a living holder keeps the lease, holds with passes of up to 3 ticks
  and one fault. Two renewals that fail, or a pass as long as the lease, refute it.
* `TakenOverInTime` is refuted: the tasks of a holder that dies may wait for the lease and
  then for the next interval of another copy, up to 20 minutes, not the 15 the comment on
  `LEASE_MS` says.

Fairness is weak for timers,
ends of passes (every call of a task has a timeout), starts and exits of processes,
and for time. What the tasks do to orders, slots and holds is in `OrderFund`
(`Expire`, `ExpireSlot`, `FinalizeViews`), where each is guarded by its own
`where`, so that two passes at once double reminders, not money.

### Proofs (`Services_proofs`)

For any copies, interval, lease, number of faults and any bound on passes:

* `LeaseTypeCorrect`: `LeaseSpec => []LeaseTypeOK`.
* `OnePassAtATime`: `LeaseSpec => []OnePass`. `PassHeld` strengthens it: as long as a pass
  has not outlived the lease its copy holds it, and what is left of the lease plus what
  the pass has taken is at least a whole lease; so the lease is not over while such a
  pass is on, and nobody else is free to take it.
* `TakenOverAlways`: `LeaseSpec => []TakenOver`. `OrphanEnds` strengthens it: while an
  orphaned lease lasts, the count of a copy and what is left of the lease make up at
  most a lease; once it is over, the count and the timer of each copy that polls make
  up at most a lease and an interval. A copy in a pass of its own counts from its end.

## 7. `Bans`

A ban statement by statement, beside the transactions that touch the same rows: edits,
approvals and closings of orders, claims, submissions and rejections of videos, another
ban, unban. A statement sees what is committed and what its own transaction wrote; a
written row stays locked until commit; a statement that waited looks again at the rows
it found, and at no others. Transactions that wait for each other are found and one is
rolled back. A statement locks its rows in one step. The fund is one reserve: a video on
review takes all of it. Approving a video and the advertiser's closing are not among the
neighbours: they take the lock of the order like those that are. Nor is extending, which
takes none: it is one conditional update of an expired order, and no order of the model
expires. One let through before the ban and written behind it puts the order in force
again as a creation behind it does, which is in the model.

`bans_beside` (two users, two orders, two rows, two requests at a time):
`BannedLeavesNothing` - once the ban is over and nothing slipped past it, no order of
the banned user is open or in the queue, and no row of his waits;
`DeadlockNeedsBan` - two transactions wait for each other only if one is a ban.
Requests end (`Spec` has strong fairness for the steps of a request: a lock that comes
free again and again is had, as PostgreSQL queues waiters), and the run says
`CHECK_DEADLOCK FALSE` because all requests may be used up. By hand:
`PauseSurvivesBan` (the pause stays exact) holds - with two calls (494 thousand states),
three (2.95 million), and four from a published order (0.99 million) - and `MCBans_deadlock.cfg` refutes
`NoDeadlock`: a ban updates the orders of its user before it locks those of others in
ascending order.

What slips past a ban is an order decided on or created, or a slot claimed, behind the
statement of the ban that looks for such rows (`BanPast`, `slipped`). Everything else is
found, also by a statement that had to wait for its rows.

### Proofs (`Bans_proofs`)

For any users, orders, submissions, requests at once and number of calls; only the owner
of each order and the creator of each submission are given.

* `TypeCorrect`: `Spec => []TypeOK`. A request is described by what it can be at each of
  its statements (`CallOK`); every step is one of a few kinds (`Thinks`, `Writes`,
  `GivesUp`, `Lands`: it reads, writes rows of its own transaction, is rolled back, or
  commits), and the later parts argue about the kinds.
* `DeadlocksNeedBans`: `Spec => []DeadlockNeedsBan`. `LockInv`: no row is locked twice, and
  a request about one order waits for that order while it holds nothing, and afterwards
  only for rows of that order, which nobody but a ban holds without the order's lock
  (`OrderComesFirst`). In a circle everybody holds what the one before waits for, so the
  next one of a request that is no ban is a ban.
* `BannedIsOut`: `Spec => []BannedLeavesNothing`. The property says nothing while a ban is
  under way, so `BanInv` follows the ban: after each statement, which of the user's rows can
  no longer be in the state that statement looks for (`Done`), with those a waiting
  statement has found as the exception (`Waited`); and what was closed by a ban stays
  without work (`LeftClosed`). It rests on `StatusInv`: what a transaction has written of a
  row it holds is a takedown or what the request is for (`HeldOrder`, `HeldSub`), so that a
  commit beside the ban brings nothing back.

`LockInv`, `StatusInv` and `BanInv` were checked with TLC before they were proved; what
counts as behind the ban was found too narrow in that way, for a statement that had
waited, and put right.

## 8. `Accounts`

OAuth from the link to the confirmation, and the views counted through the tokens. A
link carries a one-time state; the page the platform returns to carries a one-time
code; whoever confirms there connects the account. There is no transaction, so each
statement and each call to the platform is a step. The platform is external: tokens
expire, and a refresh may replace the token it was given.

`accounts_connect` (two creators, two outside accounts, two requests at a time):
`ConnectedAsAgreed` - an account is connected only to the profile its owner was shown;
`OverLimitOnlyBeside` - more accounts than the limit come only of two logins begun side
by side: the second was under way when the first began, whenever they were confirmed; `GoodLostOnlyToStale` - an account the platform still honours is disconnected only
by a request whose token was replaced meanwhile. By hand: `OneOwner` and `OwnViews` hold (both proved below);
`MCAccounts_kept.cfg` refutes `GoodKept`, which the comment of `accessToken` promises: of
two refreshes at once the loser's refusal deletes the row the winner has saved.

### Proofs (`Accounts_proofs`)

For any creators, outside accounts, platforms, requests, codes and tokens:

* `TypeCorrect`: `Spec => []TypeOK`; the type of a request says which of a login and a
  row its next statement needs, so that no statement is run without it.
* `AlwaysAsAgreed`: `Spec => []ConnectedAsAgreed`. `AgreedInv` follows the agreement
  from the page to the row: the code of a login in flight is the one its owner
  confirmed, and codes are used once.
* `AlwaysOneOwner`: `Spec => []OneOwner`: an outside account serves one creator at a time
  (the unique index), and a code lets one request through (`takeConfirmation` deletes
  what it answers); `TakenOnce` says which codes are still to be used.
* `GoodLostOnlyStale`: `Spec => GoodLostOnlyToStale`; of the steps that delete a row only
  the refused refresh needs the invariant, for the token its request has read.
* `OverLimitOnlyForBeside`: `Spec => []OverLimitOnlyBeside`. `BesideInv` says that the
  room a lone request has found (`RoomKept`) stays until it uses it: only a second
  login of the same creator and platform could take it, and then both are `beside`.
* `ViewsAlwaysOwn`: `Spec => []OwnViews`. Accounts come and go while views are counted, so
  the invariant is about what a counting request holds (`CountsOwn`): accounts whose owner
  has agreed to that profile, which no disconnection takes back, and videos of the creator.

## 9. `Talk`

The support chat: a user's topic, answers, `/close`, the flood windows, and the group
replaced by a restart. A topic being made is shared by the requests of one process
(`creating`); Telegram calls take time and fail, topics are deleted by hand.

`talk_topics` (two users, two messages at once, two groups with two topics each):
`AnswersReach` - a topic whose user's row names another one has lost its place only to a
message that held an older row. By hand `Private` (nobody reads another's talk; proved
below) and `RoomShared` (no one takes more of the group's minute than his own limit) hold.
`talk_twice` is a violation: the comment says a topic is created once even for two
messages in a row, but the second may hold a row read before the first topic was
written, and the question in the first topic cannot be answered any more. In its place
`QuestionsOpen` is refuted by a message between the two steps of `/close`.

### Proofs (`Services_proofs`)

For any users, messages on their way at once, limits, groups and topics of a group:
`AnswersAlwaysReach`, `Spec => []AnswersReach`, and `AlwaysPrivate`, `Spec => []Private`.
Neither is inductive. `TalkInv` adds to the types:

* `Numbered`: every place in a topic, a row, a promise or a message on its way is one
  Telegram has given out, so that a new topic is at a place nobody has heard of. Groups
  only grow, so this survives a restart, after which numbers start from one again.
* `Owned`: a topic at the place in a user's row, in his promise or in his message is his.
* `Aimed`: a message is sent to the topic of the row, or to one that is gone, or its user
  is one of those with two topics (`Reached`). A message that waits for a topic found
  none of this group in the row it read, or has found that one removed.
* `NoneLeft`: while a topic is made and not yet in the row, the one in the row is gone and
  no other topic of the user has a question. This is what lets the row change without
  cutting off a question; `Made` says that it ends with the new place in the row.

`TalkInv` was checked with TLC on the instance of `talk_topics` before it was proved. The
flood windows play no part; `RoomShared` is a sum and is only checked.

## 10. `Moderator`: `Desk`, `Reports`, `Lists`

`Desk` is the queue and the cards of both apps: lists that overtake each other, a card
read later than the list, an endpoint that changes the row, writes the journal and tells
people in three steps that may break off. `Reports` is a decision on the reports of an
object: author, marks and measure in one transaction, the ban in another, then the
journal and the messages. `Lists` is "all orders" and "people" with their pages.

The task that ends a hold by itself (`finalizeAutomatic`) decides beside the moderators.

`moderator_decide` (two moderators, two decisions, one object of each kind in turn, two
reporters, an order and a review of one author, one failure; two requests in a list):

* `OneDecision`: an object gets one decision, however old the screens.
* `DecidedAsShown`: an order is decided in the version on the card.
* `Announced`: a decision answered is in the journal and told, unless it broke off.
* `ButtonsRecover` (liveness): a pressed button comes back. Fairness is weak for what the
  server does with a request and for the arrival of its answer; nobody must click.
* `MeasureForReports`: a measure has a report to show for it, and a report marked as acted
  on has had its measure. `ToldOfADecision`: a reporter hears only of what the moderator
  named did decide on that object.
* `PagesOfFilter`: a list that has started over shows the pages of its filter, each once.

By hand (name them in the configuration): `BanJournalTrue` and `DecidedLeavesList` hold.
`ReviewSeen` is refuted: the approval of a review does not say which text was on the
screen, and the author may have written another (`DecidedAsShown` is about orders, whose
decisions do say so). `StaleNotMixed` is refuted: between the
change of a filter and the timer that starts the list over, the answer for the old filter
is appended, against the comment of `usePaged.ts`. In `ModAllOrdersView` an old request
that fails also shows its error over the fresh list, as only its success is compared.

`reports_told` is a violation: the comment of `resolve` says the second moderator is
refused, but with a report that came in between he is not, and those the first decided
are told of both decisions.

A failure of the journal after the commit answers with an error and tells nobody
(`moderator-actions.service.ts`); the moderator who tries again is refused. `Announced`
has it as its exception.

### Proofs (`Moderator_proofs`)

For any moderators, objects, reports, edits and reviews, and any number of requests and
failures. The timer is not a moderator; nothing is assumed of the screens, so the
theorems do not depend on what a moderator sees or when.

* `OneDecisionEach`: `Spec => []OneDecision`, and `AlwaysAsShown`:
  `Spec => []DecidedAsShown`. `DecisionInv` adds what a decision leaves of the row
  (`Leaves`): as long as the object has the version decided on, an order, a payout or a
  checked video waits no more, a finalized video is out, and a review that is still
  out was approved from the queue. Versions only grow, so a new one is undecided.
* `AnnouncedOnce`: `Spec => []Announced`. `AnnouncedInv`: a decision that is not lost is
  written down and told, or its request is on the way and has done the steps before
  (`UnderWay`); of all but reviews the journal knows first (`LoggedFirst`).
* `MeasureAlwaysForReports`: `Spec => []MeasureForReports`, and `AlwaysToldOfADecision`:
  `Spec => []ToldOfADecision`. `ReportInv` adds that the reports a transaction has marked
  are open and nobody else's (`Marks`), and that a request past its measure has decided
  on the object and finds all it had found decided (`ToBeTold`): this is where telling
  the reporters found, and not those marked, is still about decided reports.
* `PagesAlwaysOfFilter`: `Spec => []PagesOfFilter`. `PagesInv` says what may be asked for
  (`AsksOn`): the request the list still waits for is about its filter and for the page
  after those it shows. A page is a part of the rows that match, each of which has one
  place (`ListedIs`); hence the order is defined by ranks (`newestFirst`), which the
  prover can expand.

## 11. `Creator`: `Catalog`, `Work`, `Profile`, `Balance`

`creator_tabs` (three orders by one to a page, two filters; a pool for three thousand
views and two submissions; both apps at one profile; two videos and two requests to
withdraw; 3.56 million states):

* `OneFilter`: as long as no page failed, a quiet catalogue shows orders of the chosen
  filters, newest first, each once. `NothingSkipped`: none is skipped between pages while
  orders open and close.
* `AgreedAsShown`: a video limited to the rest of the fund was agreed to, and no less than
  that is kept.
* `QuietShowsStored`: a profile screen that waits for nothing shows what is stored, unless
  since its last read that was alone a save ran beside another of its requests, a request
  was lost or the other app saved (`beside`, which such a read clears). So whatever crosses
  is healed by the next such read; what crosses inside an open editor is `EditsKept`, below.
* `OffersWhatIsLeft`: as long as nothing changed, the form of the balance lets through
  exactly the sums the server accepts. The server's refusal of a login that is too old
  is left out: it is about the session, which no model has.

By hand: `ChipsFind`, `RefusedForCause`, `ForgottenOnlyByOverlap` and
`EditsLostOnlyToReading` hold. Refuted: `AlwaysOneFilter` (the first page of new filters
fails, and the next one is appended to the old list), `AgreedHeld` (the text says the rest
is kept for the creator; when the fund is free again by the time of his answer, only the
threshold is), `EditsKept` (in the mini-app a profile read again replaces links being
edited), `AlwaysMarked` (with `Wallets = {"w1", "w2"}`: two saves that have both seen no
wallet leave the second unmarked).

After a lost answer the balance is not read again, and the thanks for a request stay even
if it is rejected; the model has both. `CHECK_DEADLOCK FALSE`: the bounds on loads,
visits and clicks end every behaviour. No fairness: a user may leave.

### Proofs (`Creator_proofs`)

For any orders, pages, filters, platforms, pools, videos, sums, links and wallets, and any
number of requests. Each invariant is about the variables of one screen; a step of another
screen leaves them alone. Sums are cardinalities of sets of cents, as in `OrderFund`.

* `QuietAlwaysStored`: `Spec => []QuietShowsStored`. `ProfileInv`: a save holds the
  buttons until the profile is read again, so that no second one follows it before
  (`Held`); and of an app that nothing has crossed since it last read alone, an answer under
  way carries what is stored, and a screen that waits for nothing shows the row
  (`Uncrossed`).
* `AlwaysAgreedAsShown`: `Spec => []AgreedAsShown`. `WorkInv` follows the sum from the
  answer that asks for it, over the page and the second message, to the row.
* `OffersAlwaysWhatIsLeft`: `Spec => []OffersWhatIsLeft`. The balance is read in parts and
  shown later: `BalanceInv` says that as long as nothing moved each part read is the part
  stored, and what is shown is computed from all of them.
* `AlwaysOfOneFilter`: `Spec => []OneFilter`, and `NothingEverSkipped`:
  `Spec => []NothingSkipped`. `CatalogInv`: of the answers on their way only the one to the
  last request counts, and it was asked for the filter and after the end of the list on the
  screen (`IsForList`); the list is in decreasing order and has every order that suited the
  filter since it was started, down to its end (`Covers`). Orders may open and close
  between two pages because the cursor is the last order shown and not an offset.

## 12. `Advertiser`: `OrderForm`, `Cabinet`, `OrderReport`

`advertiser_tabs` (three orders, two forms with one field changed by hand; a card with two
requests, two slots and two events around them, the clock two ticks past the first
deadline; two videos with payouts that do not divide evenly; one answer lost; 3.38 million
states):

* `SavedAsShown`: what stands in a row is what the form had on its screen when it was sent,
  and after the closing of an edit what the form had that was let through last, with the
  budget that was paid. A link removed by a moderator stays away until a new edit brings it
  back. The exception (`mixed`) is a row written by an edit that looked at the order before
  a decision, an extension or a measure and wrote after it: the snapshot is of the row as
  it looked, so a later closing may bring back terms nobody let through last. Without the
  exception the property is refuted.
  `RoundTrip`: an order made with a form can be opened in it and sent as it is, and
  nothing changes - in either app. An order older than the examples is neither's: it came
  through no form, and `written` says so, also when a closing brings its old terms back. `TwiceOnlyAfterLoss`: a form makes a second order only
  after an answer was lost.
* `ToldWhatBecame`: on a closing every creator learns what became of his slot, unless the
  order was published again or the slot taken since the slots were read. `ReminderTrue`:
  creators were reminded of the deadline the order has, unless it moved under the task.
* `RatingsTrue`: stars shown are stars kept, reviews stay with their video.
  `ReportConsistent`: the number of approved videos in the funnel and the list of them
  differ by no more than the videos decided between the two statements that read them
  (`crossed`, a set of videos), and what is shown as left is no more than the fund can
  pay beside what that list and the videos under review hold.

The form begins in one of three ways: beside an order on show, with every form and no
hand; beside it, with the last form and a hand that changes a field; and beside an order
older than the examples, with the last form. That keeps the run small; several typed forms
one after another are left to the proof.

By hand: `DeadlineKept`, `OfferedWorks`, `OverLimitForCause` (proved below) and `AdviceOnce`
hold. Refuted:
`LimitKept` (orders are counted before the insert and extending counts none; the code
accepts the overshoot, a test says otherwise), `RemindedInTime` (the mark looks at the
status only, so after an extension the new deadline is not announced), `FormKept` (the
mini-app closes the form by the answer for the video rated before).

Also in the model: two extensions at once lose one; a creator with several attempts gets
both messages when a frozen order closes; a claim inserted between the read and the write
of a closing loses its slot and is told that begun work is still taken; chips left open
offer an extension that is refused. The two reads of a closing are one step. `CHECK_DEADLOCK
FALSE` and no fairness, as in `Creator`.

### Proofs (`Advertiser_proofs`)

For any orders, forms, terms, limits, slots, videos, payouts and numbers of requests that
meet the named assumptions (limits and prices are positive, a fee is below 100 percent).

* `RemindersAlwaysTrue`: `Spec => []ReminderTrue`. `ReminderInv`: an order on review has no
  reminder, and a task that holds a deadline has seen one less than a day away.
* `AlwaysToldWhatBecame`: `Spec => []ToldWhatBecame`, with the exceptions of the property
  (slots taken since the read, orders published again). `ClosingInv` is about a closing under
  way: what it has read of the slots (`ReadTrue`) and what it has written (`WrittenTrue`) is
  so, or has moved on by the exceptions the property names.
* `RatingsAlwaysTrue`: `Spec => []RatingsTrue`, and `ReportsAlwaysConsistent`:
  `Spec => []ReportConsistent`. `RatingInv`: a reading in progress agrees with the rows as
  far as it has come but for the videos decided since (`ReadingGood`), a report with what
  was read (`ReportGood`; `Told` bounds its funnel by its list), and a form with a row of
  the report (`FormGood`). That the money
  left fits the fund is a lemma on the quotients (`SpentCovers`, `LeftFits`).
* `TwiceAlwaysAfterLoss`: `Spec => []TwiceOnlyAfterLoss`. `OwedInv`: a form that may still
  make an order has lost as many answers as it has made orders.
* `AlwaysSavedAsShown`: `Spec => []SavedAsShown`, and `RoundTripsAlways`:
  `Spec => []RoundTrip`. `SavedInv`: what is on its way is what the form has sent
  (`BodyGood`), and a row that came through a form says what the form said and would be let
  through again (`RowGood`). For the way back, the snapshot of a frozen order says what was
  let through (`KeptGood`), and so does what an edit under way has looked at, unless the
  order has moved since (`SeenGood`); rows are numbered as they are made (`Numbered`), so
  that a new one takes the place of none. The trip itself is a chain of lemmas on the fields: empty ones
  are dropped (`FilledIs`) and added again (`PadIs`), terms stored from a form say what it
  said (`Stored`), and terms opened and sent are accepted and the same (`SentAgain`).
* `OverLimitAlwaysForCause`: `Spec => []OverLimitForCause`: more active orders than the limit
  take two creations that counted side by side or an extension. `LimitInv`: a creation
  that has counted alone keeps its room until it inserts.

## 13. What is only model-checked, and what is left out

Proved for all constants, in sections 3 to 12: every invariant and every action property of
the runs, the refinement of `FundLedger`, and `OneOwner`, `OwnViews`, `Private` and
`OverLimitForCause`, which no run names. Only checked, on the instances given: liveness under
fairness (`RequestAnswered`, `QueueDrains`, `TasksRun`, `ButtonsRecover`), which is outside what
the prover does, and the other properties marked "by hand", such as `PauseSurvivesBan`,
`RoomShared` and `DeadlineKept`, whose configurations are those of the runs with the property
named.

Not modelled, and why: the calls of the view counters and their parsing are I/O (what they
answer is an input of `Work` and `Accounts`); statistics, the page of the journal and public
profiles only read; signatures and sessions keep no state; texts, layout, navigation and
charts have no property; the reminders of a slot, clicks and the reminders kept in memory
are in the plan. `PROJECT.json` lists every component with its status and every hazard with
the properties that cover it, or why none does.

To check a run: `tlc -workers 2 -config <run>.cfg MC<Module>.tla`; to check the proofs:
`tlapm <Module>_proofs.tla`.
