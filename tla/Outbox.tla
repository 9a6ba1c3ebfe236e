------------------------------- MODULE Outbox -------------------------------
(***************************************************************************)
(* The queue of bot messages and the workers that send it                  *)
(* (src/src/telegram/notifications.service.ts).                            *)
(*                                                                         *)
(* Every copy of the backend runs one worker. A worker takes a batch of    *)
(* due rows in one statement, which postpones them by a lease, and then    *)
(* sends them one by one; each statement and each call to Telegram is a    *)
(* step. Time passes in ticks: the waits of the rows and the timeout of a  *)
(* call are counted in them.                                               *)
(***************************************************************************)
EXTENDS Integers, FiniteSets

CONSTANTS
    Msg,          \* rows that may be queued; their order is the order of the ids
    Chat,         \* chats
    To,           \* the chat of each row
    Priority,     \* 0, or 1 for a broadcast
    Worker,       \* copies of the backend
    BATCH,        \* rows a worker takes at once
    Lease,        \* ticks a taken row is put off for
    SendTicks,    \* SEND_TIMEOUT_MS, in ticks
    MAX_ATTEMPTS,
    Backoff,      \* ticks a failed row waits per attempt made
    MaxFaults     \* bound: crashes, stops, database errors and floods

ASSUME OutboxAssumption ==
    /\ Msg \subseteq Nat /\ IsFiniteSet(Msg)
    /\ To \in [Msg -> Chat]
    /\ Priority \in [Msg -> 0..1]
    /\ BATCH \in Nat \ {0} /\ Lease \in Nat \ {0} /\ SendTicks \in Nat \ {0}
    /\ MAX_ATTEMPTS \in Nat \ {0} /\ Backoff \in Nat \ {0} /\ MaxFaults \in Nat
    /\ IsFiniteSet(Worker)

VARIABLES
    row,       \* the table: where each row is, its wait, its attempts
    worker,    \* the workers
    banned,    \* chats of banned users
    faults,    \* how many faults have happened
    log        \* history: what became of each row

vars == <<row, worker, banned, faults, log>>

RowAt == {"NEW", "QUEUED", "GONE"}
WorkerAt == {"DOWN", "IDLE", "TAKEN", "LOOP", "ANSWERED"}
Answers == {"NONE", "OK", "FLOOD", "REFUSED", "FAILED"}

NoLog == [sent |-> 0,            \* times it reached the chat, but for those the
                                 \* worker could not learn of or not record
          reached |-> FALSE,     \* it reached the chat
          failed |-> 0,          \* timeouts and 5xx, up to MAX_ATTEMPTS
          answered |-> FALSE,    \* Telegram refused it or its user was banned
         late |-> FALSE,        \* its lease ended while it waited in a batch
          wroteBanned |-> FALSE] \* a call was made after its user was banned

Down == [at |-> "DOWN", batch |-> {}, skip |-> {}, seen |-> [m \in Msg |-> 0],
         answer |-> "NONE", spent |-> 0, stopping |-> FALSE]
Idle == [Down EXCEPT !.at = "IDLE"]

-----------------------------------------------------------------------------
(* Taking a batch *)

\* ORDER BY priority, id
Before(m, n) ==
    \/ Priority[m] < Priority[n]
    \/ Priority[m] = Priority[n] /\ m < n

First(batch) == CHOOSE m \in batch : \A n \in batch \ {m} : Before(m, n)

Due == {m \in Msg : row[m].at = "QUEUED" /\ row[m].wait = 0}

\* At most BATCH due rows, none of them after one that is left.
Batches ==
    {b \in SUBSET Due :
        /\ Cardinality(b) <= BATCH
        /\ b # Due => Cardinality(b) = BATCH
        /\ \A m \in b, n \in Due \ b : Before(m, n)}

\* Slip: the rows are not put off.
takenRow_due(m) == row[m]

takenRow(m) == [row[m] EXCEPT !.wait = Lease]

taken(b) == b # {}

TakeBatch(w) ==
    /\ worker[w].at = "IDLE"
    /\ ~worker[w].stopping
    /\ \E b \in Batches :
        /\ taken(b)
        /\ row' = [m \in Msg |-> IF m \in b THEN takenRow(m) ELSE row[m]]
        /\ worker' = [worker EXCEPT ![w] =
                        [Idle EXCEPT !.at = "TAKEN", !.batch = b,
                                     !.seen = [m \in Msg |-> row[m].attempts]]]
    /\ UNCHANGED <<banned, faults, log>>

ReadBans(w) ==
    /\ worker[w].at = "TAKEN"
    /\ worker' = [worker EXCEPT ![w].at = "LOOP",
                                ![w].skip = {m \in worker[w].batch : To[m] \in banned}]
    /\ UNCHANGED <<row, banned, faults, log>>

-----------------------------------------------------------------------------
(* Sending it *)

\* The next row of the batch; an empty batch ends the pass.
Rest(w, m) ==
    LET left == worker[w].batch \ {m}
    IN  [worker[w] EXCEPT !.at = IF left = {} THEN "IDLE" ELSE "LOOP",
                          !.batch = left,
                          !.seen = IF left = {} THEN Idle.seen ELSE @,
                          !.skip = @ \cap left,
                          !.answer = "NONE",
                          !.spent = 0]

\* An update or a delete of a row that is gone throws, and so does a database
\* that does not answer: what is left of the batch waits for its lease to end.
GiveUpBatch(w) == [Idle EXCEPT !.stopping = worker[w].stopping]

Current(w) == First(worker[w].batch)

Looping(w) == worker[w].at = "LOOP" /\ ~worker[w].stopping

DeleteBanned(w) ==
    LET m == Current(w)
    IN  /\ Looping(w)
        /\ m \in worker[w].skip
        /\ row[m].at = "QUEUED"
        /\ row' = [row EXCEPT ![m].at = "GONE"]
        /\ log' = [log EXCEPT ![m].answered = TRUE]
        /\ worker' = [worker EXCEPT ![w] = Rest(w, m)]
        /\ UNCHANGED <<banned, faults>>

\* A call to Telegram and its answer. A call that times out may have reached the
\* chat; the worker cannot tell.
Send(w, answer, reached) ==
    LET m == Current(w)
    IN  /\ Looping(w)
        /\ m \notin worker[w].skip
        /\ reached \in CASE answer = "OK" -> {TRUE}
                         [] answer = "FAILED" -> BOOLEAN
                         [] OTHER -> {FALSE}
        /\ answer = "FLOOD" => faults < MaxFaults
        /\ faults' = IF answer = "FLOOD" THEN faults + 1 ELSE faults
        /\ worker' = [worker EXCEPT ![w].at = "ANSWERED", ![w].answer = answer]
        /\ log' = [log EXCEPT
                     ![m].sent = IF answer = "OK" THEN @ + 1 ELSE @,
                     ![m].reached = @ \/ reached,
                     ![m].failed = IF answer = "FAILED" /\ @ < MAX_ATTEMPTS THEN @ + 1 ELSE @,
                     ![m].answered = @ \/ answer = "REFUSED",
                     ![m].wroteBanned = @ \/ To[m] \in banned]
        /\ UNCHANGED <<row, banned>>

\* Slip: a flood costs an attempt.
counts_flood(answer) == TRUE

\* Slip: a failure costs none.
counts_none(answer) == FALSE

counts(answer) == answer = "FAILED"

\* Nothing is left to try: it was sent or refused, or failed too often.
Finished(answer, attempts) ==
    \/ answer \in {"OK", "REFUSED"}
    \/ counts(answer) /\ attempts + 1 >= MAX_ATTEMPTS

\* The ticks to the next attempt; Telegram names any wait after a flood.
RetryIn(answer, attempts) ==
    IF answer = "FLOOD" THEN 1..Backoff ELSE {(attempts + 1) * Backoff}

\* The message is deleted or put off; the row may be gone by now.
deliver(w) ==
    LET m == Current(w)
        answer == worker[w].answer
        seen == worker[w].seen[m]
    IN  /\ worker[w].at = "ANSWERED"
        /\ row[m].at = "QUEUED"
        /\ IF Finished(answer, seen)
             THEN row' = [row EXCEPT ![m].at = "GONE", ![m].wait = 0]
             ELSE \E t \in RetryIn(answer, seen) :
                    row' = [row EXCEPT ![m].wait = t,
                                       ![m].attempts = @ + (IF counts(answer) THEN 1 ELSE 0)]
        /\ worker' = [worker EXCEPT ![w] = Rest(w, m)]
        /\ UNCHANGED <<banned, faults, log>>

RowGone(w) ==
    /\ \/ worker[w].at = "ANSWERED"
       \/ Looping(w) /\ Current(w) \in worker[w].skip
    /\ row[Current(w)].at = "GONE"
    /\ worker' = [worker EXCEPT ![w] = GiveUpBatch(w)]
    /\ UNCHANGED <<row, banned, faults, log>>

-----------------------------------------------------------------------------
(* Faults, restarts, time *)

Faulty == faults < MaxFaults /\ faults' = faults + 1

\* A message that has reached the chat and is not deleted will be sent again.
Unsettled(w) ==
    IF worker[w].at = "ANSWERED" /\ worker[w].answer = "OK"
      THEN [log EXCEPT ![Current(w)].sent = @ - 1]
      ELSE log

DatabaseFails(w) ==
    /\ Faulty
    /\ worker[w].at \in {"TAKEN", "LOOP", "ANSWERED"}
    /\ worker' = [worker EXCEPT ![w] = GiveUpBatch(w)]
    /\ log' = Unsettled(w)
    /\ UNCHANGED <<row, banned>>

Crash(w) ==
    /\ Faulty
    /\ worker[w].at # "DOWN"
    /\ worker' = [worker EXCEPT ![w] = Down]
    /\ log' = Unsettled(w)
    /\ UNCHANGED <<row, banned>>

onApplicationShutdown(w) ==
    /\ Faulty
    /\ worker[w].at # "DOWN"
    /\ ~worker[w].stopping
    /\ worker' = [worker EXCEPT ![w].stopping = TRUE]
    /\ UNCHANGED <<row, banned, log>>

\* The message in the air is settled first; the rest of the batch is left.
Exit(w) ==
    /\ worker[w].stopping
    /\ worker[w].at \in {"IDLE", "LOOP"}
    /\ worker' = [worker EXCEPT ![w] = Down]
    /\ UNCHANGED <<row, banned, faults, log>>

onApplicationBootstrap(w) ==
    /\ worker[w].at = "DOWN"
    /\ worker' = [worker EXCEPT ![w] = Idle]
    /\ UNCHANGED <<row, banned, faults, log>>

\* A message to one user, or a row for each of some.
enqueue(m) ==
    /\ row[m].at = "NEW" /\ Priority[m] = 0
    /\ row' = [row EXCEPT ![m].at = "QUEUED"]
    /\ UNCHANGED <<worker, banned, faults, log>>

\* One statement writes the rows of everybody who reads one language, wants to hear
\* of new orders and is not banned.
newOrderPublished(to) ==
    /\ to # {}
    /\ \A m \in to : row[m].at = "NEW" /\ Priority[m] = 1 /\ To[m] \notin banned
    /\ row' = [m \in Msg |-> IF m \in to THEN [row[m] EXCEPT !.at = "QUEUED"] ELSE row[m]]
    /\ UNCHANGED <<worker, banned, faults, log>>

Ban(c) ==
    /\ c \notin banned
    /\ banned' = banned \cup {c}
    /\ UNCHANGED <<row, worker, faults, log>>

\* Time passes. No worker spends more than the timeout of a call on a message.
Tick ==
    /\ \E m \in Msg : row[m].wait > 0
    /\ \A w \in Worker : worker[w].batch # {} => worker[w].spent < SendTicks
    /\ row' = [m \in Msg |-> [row[m] EXCEPT !.wait = IF @ > 0 THEN @ - 1 ELSE 0]]
    /\ worker' = [w \in Worker |->
                    [worker[w] EXCEPT !.spent = IF worker[w].batch = {} THEN 0 ELSE @ + 1]]
    /\ log' = [m \in Msg |-> [log[m] EXCEPT
                 !.late = @ \/ (row[m].wait = 1 /\ \E w \in Worker : m \in worker[w].batch)]]
    /\ UNCHANGED <<banned, faults>>

-----------------------------------------------------------------------------

Init ==
    /\ row = [m \in Msg |-> [at |-> "NEW", wait |-> 0, attempts |-> 0]]
    /\ worker = [w \in Worker |-> Down]
    /\ banned = {}
    /\ faults = 0
    /\ log = [m \in Msg |-> NoLog]

Work(w) ==
    \/ TakeBatch(w)
    \/ ReadBans(w)
    \/ DeleteBanned(w)
    \/ \E answer \in Answers \ {"NONE"}, reached \in BOOLEAN : Send(w, answer, reached)
    \/ deliver(w)
    \/ RowGone(w)
    \/ Exit(w)
    \/ onApplicationBootstrap(w)

Environment ==
    \/ \E m \in Msg : enqueue(m)
    \/ \E to \in SUBSET Msg : newOrderPublished(to)
    \/ \E c \in Chat : Ban(c)
    \/ \E w \in Worker : DatabaseFails(w) \/ Crash(w) \/ onApplicationShutdown(w)

Next ==
    \/ \E w \in Worker : Work(w)
    \/ Environment
    \/ Tick

\* A worker loops for as long as its process lives and a stopped process is
\* started again; the timeout ends every call; time passes.
Fairness ==
    /\ \A w \in Worker : WF_vars(Work(w))
    /\ WF_vars(Tick)

Spec == Init /\ [][Next]_vars /\ Fairness

-----------------------------------------------------------------------------
(* Properties *)

\* Every variable holds a value of its kind, and a worker has a batch exactly
\* while it works on one.
TypeOK ==
    /\ row \in [Msg -> [at : RowAt, wait : Nat, attempts : Nat]]
    /\ worker \in [Worker -> [at : WorkerAt, batch : SUBSET Msg, skip : SUBSET Msg,
                              seen : [Msg -> Nat], answer : Answers,
                              spent : 0..SendTicks, stopping : BOOLEAN]]
    /\ banned \subseteq Chat
    /\ faults \in 0..MaxFaults
    /\ \A w \in Worker :
        worker[w].batch = {} <=> worker[w].at \in {"DOWN", "IDLE"}

\* Several workers send no message twice (processBatch): a message reaches its
\* chat once, not counting the times its delivery could not be recorded.
SentOnce == \A m \in Msg : log[m].sent <= 1

\* What the lease is for (processBatch): a message reaches its chat twice only if its
\* lease ended while it still waited in the batch of a worker - never through a crash,
\* a flood, a failure or a row that was put off in between.
TwiceOnlyLate == \A m \in Msg : log[m].sent > 1 => log[m].late

\* A message is not dropped while it could still be sent (deliver, trySend): it
\* reached its chat, was refused, or failed as often as MAX_ATTEMPTS says, and
\* neither floods nor workers that share a row use its attempts up.
DroppedForCause ==
    \A m \in Msg : row[m].at = "GONE" =>
        log[m].reached \/ log[m].answered \/ log[m].failed >= MAX_ATTEMPTS

\* A queued message is sent or dropped in the end, whatever worker crashes with it
\* in hand (processBatch, work).
QueueDrains == \A m \in Msg : row[m].at = "QUEUED" ~> row[m].at = "GONE"

\* The bot does not write to the banned: bans are looked up when the message is
\* sent (processBatch).
BannedNotWritten == \A m \in Msg : ~log[m].wroteBanned

=============================================================================
