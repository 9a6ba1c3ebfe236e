---------------------------- MODULE Outbox_proofs ----------------------------
(***************************************************************************)
(* Theorems about Outbox for any messages, chats, workers, batches, leases *)
(* and waits, and any number of faults.                                    *)
(***************************************************************************)
EXTENDS Outbox, FiniteSetTheorems, TLAPS

-----------------------------------------------------------------------------
(* The order of a batch *)

\* A set of ids has a least one.
LEMMA LeastId ==
    ASSUME NEW S, S \subseteq Nat, S # {}
    PROVE  \E m \in S : \A n \in S : m <= n
<1>1. IsWellFoundedOn(OpToRel(<, Nat), Nat)
    BY NatLessThanWellFounded
<1>2. PICK m \in S : \A n \in S : ~(<<n, m>> \in OpToRel(<, Nat))
    BY <1>1, WFMin
<1>3. ASSUME NEW n \in S
      PROVE  m <= n
    <2>1. ~(n < m)
        BY <1>2 DEF OpToRel
    <2> QED
        BY <2>1
<1> QED
    BY <1>3

\* The message a worker turns to is one of its batch (ORDER BY priority, id).
LEMMA FirstInBatch ==
    ASSUME NEW batch, batch \subseteq Msg, batch # {}
    PROVE  First(batch) \in batch
<1> DEFINE urgent == {m \in batch : Priority[m] = 0}
<1>1. batch \subseteq Nat /\ \A m \in batch : Priority[m] \in 0..1
    BY OutboxAssumption
<1>2. \E m \in batch : \A n \in batch \ {m} : Before(m, n)
    <2>1. CASE urgent # {}
        <3>1. PICK m \in urgent : \A n \in urgent : m <= n
            BY <1>1, <2>1, LeastId
        <3>2. ASSUME NEW n \in batch \ {m}
              PROVE  Before(m, n)
            BY <1>1, <3>1 DEF Before
        <3> QED
            BY <3>1, <3>2
    <2>2. CASE urgent = {}
        <3>1. PICK m \in batch : \A n \in batch : m <= n
            BY <1>1, LeastId
        <3>2. ASSUME NEW n \in batch \ {m}
              PROVE  Before(m, n)
            BY <1>1, <2>2, <3>1 DEF Before
        <3> QED
            BY <3>1, <3>2
    <2> QED
        BY <2>1, <2>2
<1> QED
    BY <1>2 DEF First

-----------------------------------------------------------------------------
(* Types *)

LogKind == [sent : Int, reached : BOOLEAN, failed : 0..MAX_ATTEMPTS, answered : BOOLEAN,
            late : BOOLEAN, wroteBanned : BOOLEAN]
WorkerKind == [at : WorkerAt, batch : SUBSET Msg, skip : SUBSET Msg, seen : [Msg -> Nat],
               answer : Answers, spent : 0..SendTicks, stopping : BOOLEAN]
RowKind == [at : RowAt, wait : Nat, attempts : Nat]

TypeInv == TypeOK /\ log \in [Msg -> LogKind]

LEMMA TypeInit == Init => TypeInv
BY OutboxAssumption DEF Init, TypeInv, TypeOK, RowAt, WorkerAt, Answers, Down, NoLog, LogKind

LEMMA CurrentInBatch ==
    ASSUME TypeInv, NEW w \in Worker, worker[w].batch # {}
    PROVE  Current(w) \in worker[w].batch /\ Current(w) \in Msg
BY FirstInBatch DEF TypeInv, TypeOK, Current

\* What a worker is after it has let go of its batch or of a message.
LEMMA LetGoTypes ==
    ASSUME TypeInv, NEW w \in Worker
    PROVE  /\ Down \in WorkerKind /\ Idle \in WorkerKind
           /\ Down.batch = {} /\ Down.at = "DOWN" /\ Idle.batch = {} /\ Idle.at = "IDLE"
           /\ Down.seen = [m \in Msg |-> 0] /\ Idle.seen = [m \in Msg |-> 0]
<1>1. 0 \in 0..SendTicks
    BY OutboxAssumption
<1> QED
    BY <1>1 DEF Down, Idle, WorkerKind, WorkerAt, Answers

LEMMA GiveUpType ==
    ASSUME TypeInv, NEW w \in Worker
    PROVE  /\ GiveUpBatch(w) \in WorkerKind
           /\ GiveUpBatch(w).batch = {} /\ GiveUpBatch(w).at = "IDLE"
           /\ GiveUpBatch(w).seen = [m \in Msg |-> 0]
<1>1. 0 \in 0..SendTicks /\ worker[w].stopping \in BOOLEAN
    BY OutboxAssumption DEF TypeInv, TypeOK
<1> QED
    BY <1>1 DEF GiveUpBatch, Down, Idle, WorkerKind, WorkerAt, Answers

LEMMA RestType ==
    ASSUME TypeInv, NEW w \in Worker, NEW m
    PROVE  /\ Rest(w, m) \in WorkerKind
           /\ Rest(w, m).batch = worker[w].batch \ {m}
           /\ Rest(w, m).at \in {"IDLE", "LOOP"}
           /\ Rest(w, m).batch = {} <=> Rest(w, m).at \in {"DOWN", "IDLE"}
           /\ \/ Rest(w, m).seen = worker[w].seen
              \/ Rest(w, m).seen = [n \in Msg |-> 0]
<1>1. 0 \in 0..SendTicks /\ worker[w] \in WorkerKind
    BY OutboxAssumption DEF TypeInv, TypeOK, WorkerKind
<1>2. Idle.seen = [n \in Msg |-> 0]
    BY DEF Idle, Down
<1> DEFINE left == worker[w].batch \ {m}
           goesTo == IF left = {} THEN "IDLE" ELSE "LOOP"
           recalls == IF left = {} THEN Idle.seen ELSE worker[w].seen
           drops == worker[w].skip \cap left
<1>3. left \subseteq Msg /\ drops \subseteq Msg /\ goesTo \in WorkerAt
      /\ recalls \in [Msg -> Nat] /\ "NONE" \in Answers
    BY <1>1, <1>2 DEF WorkerKind, WorkerAt, Answers
<1>4. recalls \in {worker[w].seen, [n \in Msg |-> 0]}
    BY <1>2
<1>5. Rest(w, m) = [worker[w] EXCEPT !.at = goesTo, !.batch = left, !.seen = recalls,
                                     !.skip = drops, !.answer = "NONE", !.spent = 0]
    BY DEF Rest
<1> HIDE DEF recalls, drops
<1> QED
    BY <1>1, <1>3, <1>4, <1>5 DEF WorkerKind

\* A worker is replaced by another value of its kind, and its batch fits its place.
LEMMA WorkerType ==
    ASSUME TypeInv, NEW w \in Worker, NEW v \in WorkerKind,
           v.batch = {} <=> v.at \in {"DOWN", "IDLE"},
           worker' = [worker EXCEPT ![w] = v],
           row' \in [Msg -> RowKind], banned' \subseteq Chat, faults' \in 0..MaxFaults,
           log' \in [Msg -> LogKind]
    PROVE  TypeInv'
BY DEF TypeInv, TypeOK, WorkerKind, RowKind

\* Bookkeeping after the worker lets a delivery go unrecorded.
LEMMA UnsettledType ==
    ASSUME TypeInv, NEW w \in Worker
    PROVE  Unsettled(w) \in [Msg -> LogKind]
<1>1. log \in [Msg -> LogKind]
    BY DEF TypeInv
<1>2. ASSUME NEW m \in Msg
      PROVE  [log EXCEPT ![m].sent = @ - 1] \in [Msg -> LogKind]
    BY <1>1 DEF LogKind
<1>3. worker[w].at = "ANSWERED" => Current(w) \in Msg
    BY CurrentInBatch DEF TypeInv, TypeOK
<1> QED
    BY <1>1, <1>2, <1>3 DEF Unsettled

\* New rows wait to be taken, nothing else changes.
Queued(to) ==
    /\ \A m \in to : row[m].at = "NEW"
    /\ row' = [m \in Msg |-> IF m \in to THEN [row[m] EXCEPT !.at = "QUEUED"] ELSE row[m]]
    /\ UNCHANGED <<worker, banned, faults, log>>

LEMMA RowsQueued ==
    ASSUME TypeInv,
           \/ \E m \in Msg : enqueue(m)
           \/ \E to \in SUBSET Msg : newOrderPublished(to)
    PROVE  \E to \in SUBSET Msg : Queued(to)
<1>0. row \in [Msg -> RowKind]
    BY DEF TypeInv, TypeOK, RowKind
<1>1. ASSUME NEW m \in Msg, enqueue(m)
      PROVE  Queued({m})
    BY <1>0, <1>1 DEF enqueue, Queued
<1>2. ASSUME NEW to \in SUBSET Msg, newOrderPublished(to)
      PROVE  Queued(to)
    BY <1>2 DEF newOrderPublished, Queued
<1> QED
    BY <1>1, <1>2

LEMMA QueuedRows ==
    ASSUME TypeInv, NEW to \in SUBSET Msg, Queued(to)
    PROVE  /\ row' \in [Msg -> RowKind]
           /\ \A m \in Msg : /\ row'[m].wait = row[m].wait
                              /\ row'[m].attempts = row[m].attempts
                              /\ row'[m].at = "GONE" <=> row[m].at = "GONE"
           /\ \A m \in Msg \ to : row'[m] = row[m]
<1>0. row \in [Msg -> RowKind]
    BY DEF TypeInv, TypeOK, RowKind
<1>1. ASSUME NEW m \in Msg
      PROVE  /\ row'[m] \in RowKind
             /\ row'[m].wait = row[m].wait /\ row'[m].attempts = row[m].attempts
             /\ row'[m].at = "GONE" <=> row[m].at = "GONE"
             /\ m \notin to => row'[m] = row[m]
    BY <1>0 DEF Queued, RowKind, RowAt
<1>2. row' \in [Msg -> RowKind]
    BY <1>1 DEF Queued
<1> QED
    BY <1>1, <1>2

LEMMA TypeStep == TypeInv /\ [Next]_vars => TypeInv'
<1> SUFFICES ASSUME TypeInv, [Next]_vars
             PROVE  TypeInv'
    OBVIOUS
<1>0. /\ row \in [Msg -> RowKind] /\ banned \subseteq Chat /\ faults \in 0..MaxFaults
      /\ log \in [Msg -> LogKind] /\ worker \in [Worker -> WorkerKind]
      /\ \A w \in Worker : worker[w].batch = {} <=> worker[w].at \in {"DOWN", "IDLE"}
    BY DEF TypeInv, TypeOK, RowKind, WorkerKind
<1>1. ASSUME NEW w \in Worker, TakeBatch(w)
      PROVE  TypeInv'
    <2>1. PICK b \in Batches :
            /\ taken(b)
            /\ row' = [m \in Msg |-> IF m \in b THEN takenRow(m) ELSE row[m]]
            /\ worker' = [worker EXCEPT ![w] =
                            [Idle EXCEPT !.at = "TAKEN", !.batch = b,
                                         !.seen = [m \in Msg |-> row[m].attempts]]]
        BY <1>1 DEF TakeBatch
    <2>2. b \subseteq Msg /\ b # {}
        BY <2>1 DEF Batches, Due, taken
    <2>3. row' \in [Msg -> RowKind]
        BY <1>0, <2>1, OutboxAssumption DEF takenRow, RowKind
    <2> DEFINE read == [m \in Msg |-> row[m].attempts]
    <2>4. read \in [Msg -> Nat]
        BY <1>0 DEF RowKind
    <2> HIDE DEF read
    <2>5. [Idle EXCEPT !.at = "TAKEN", !.batch = b, !.seen = read] \in WorkerKind
        BY <2>2, <2>4, LetGoTypes DEF WorkerKind, WorkerAt
    <2>6. worker' = [worker EXCEPT ![w] = [Idle EXCEPT !.at = "TAKEN", !.batch = b,
                                                       !.seen = read]]
        BY <2>1 DEF read
    <2>7. /\ [Idle EXCEPT !.at = "TAKEN", !.batch = b, !.seen = read].batch = b
          /\ [Idle EXCEPT !.at = "TAKEN", !.batch = b, !.seen = read].at = "TAKEN"
        BY LetGoTypes DEF WorkerKind
    <2> QED
        BY <1>0, <1>1, <2>2, <2>3, <2>5, <2>6, <2>7, WorkerType DEF TakeBatch
<1>2. ASSUME NEW w \in Worker, ReadBans(w)
      PROVE  TypeInv'
    <2> DEFINE skips == {m \in worker[w].batch : To[m] \in banned}
               v == [worker[w] EXCEPT !.at = "LOOP", !.skip = skips]
    <2>1. skips \subseteq Msg
        BY <1>0 DEF WorkerKind
    <2>2. worker' = [worker EXCEPT ![w] = v]
        BY <1>0, <1>2 DEF ReadBans, WorkerKind
    <2> HIDE DEF skips
    <2>3. v \in WorkerKind /\ v.batch = worker[w].batch /\ v.at = "LOOP"
        BY <1>0, <2>1 DEF WorkerKind, WorkerAt
    <2> QED
        BY <1>0, <1>2, <2>2, <2>3, WorkerType DEF ReadBans
<1>3. ASSUME NEW w \in Worker, DeleteBanned(w)
      PROVE  TypeInv'
    <2> DEFINE m == Current(w)
    <2>1. m \in Msg
        BY <1>0, <1>3, CurrentInBatch DEF DeleteBanned, Looping
    <2> HIDE DEF m
    <2>2. [row EXCEPT ![m].at = "GONE"] \in [Msg -> RowKind]
          /\ [log EXCEPT ![m].answered = TRUE] \in [Msg -> LogKind]
        BY <1>0, <2>1 DEF RowKind, LogKind, RowAt
    <2>3. /\ row' = [row EXCEPT ![m].at = "GONE"] /\ log' = [log EXCEPT ![m].answered = TRUE]
          /\ worker' = [worker EXCEPT ![w] = Rest(w, m)]
          /\ banned' = banned /\ faults' = faults
        BY <1>3 DEF DeleteBanned, m
    <2> QED
        BY <1>0, <2>2, <2>3, RestType, WorkerType
<1>4. ASSUME NEW w \in Worker, NEW answer \in Answers \ {"NONE"}, NEW reached \in BOOLEAN,
             Send(w, answer, reached)
      PROVE  TypeInv'
    <2> DEFINE m == Current(w)
               v == [worker[w] EXCEPT !.at = "ANSWERED", !.answer = answer]
    <2>1. m \in Msg
        BY <1>0, <1>4, CurrentInBatch DEF Send, Looping
    <2>2. worker' = [worker EXCEPT ![w] = v] /\ row' = row /\ banned' = banned
        BY <1>0, <1>4 DEF Send, WorkerKind
    <2>3. v \in WorkerKind /\ v.batch = worker[w].batch /\ v.at = "ANSWERED"
        BY <1>0 DEF WorkerKind, WorkerAt
    <2>4. faults' \in 0..MaxFaults
        BY <1>0, <1>4, OutboxAssumption DEF Send
    <2> DEFINE s == IF answer = "OK" THEN log[m].sent + 1 ELSE log[m].sent
               f == IF answer = "FAILED" /\ log[m].failed < MAX_ATTEMPTS
                      THEN log[m].failed + 1 ELSE log[m].failed
               a == log[m].answered \/ answer = "REFUSED"
               r == log[m].reached \/ reached
               b == log[m].wroteBanned \/ To[m] \in banned
    <2>5. s \in Int /\ f \in 0..MAX_ATTEMPTS
        <3>1. log[m].sent \in Int /\ log[m].failed \in 0..MAX_ATTEMPTS
            BY <1>0, <2>1 DEF LogKind
        <3> QED
            BY <3>1, OutboxAssumption
    <2>8. a \in BOOLEAN /\ r \in BOOLEAN /\ b \in BOOLEAN
        OBVIOUS
    <2>6. log' = [log EXCEPT ![m].sent = s, ![m].reached = r, ![m].failed = f,
                             ![m].answered = a, ![m].wroteBanned = b]
        BY <1>0, <1>4, <2>1 DEF Send, LogKind
    <2> HIDE DEF m, s, f, a, r, b
    <2>7. log' \in [Msg -> LogKind]
        <3>1. [log[m] EXCEPT !.sent = s, !.reached = r, !.failed = f, !.answered = a,
                             !.wroteBanned = b] \in LogKind
            BY <1>0, <2>1, <2>5, <2>8 DEF LogKind
        <3>2. log' = [log EXCEPT ![m] = [log[m] EXCEPT !.sent = s, !.reached = r,
                                 !.failed = f, !.answered = a, !.wroteBanned = b]]
            BY <1>0, <2>1, <2>6 DEF LogKind
        <3> QED
            BY <1>0, <2>1, <3>1, <3>2
    <2>9. worker[w].batch # {}
        BY <1>0, <1>4 DEF Send, Looping
    <2> HIDE DEF v
    <2> QED
        BY <1>0, <2>2, <2>3, <2>4, <2>7, <2>9, WorkerType
<1>5. ASSUME NEW w \in Worker, deliver(w)
      PROVE  TypeInv'
    <2> DEFINE m == Current(w)
    <2>1. m \in Msg
        BY <1>0, <1>5, CurrentInBatch DEF deliver
    <2>2. ASSUME NEW t \in RetryIn(worker[w].answer, worker[w].seen[m])
          PROVE  t \in Nat
        <3>1. worker[w].seen[m] \in Nat /\ Backoff \in Nat
            <4>1. worker[w].seen \in [Msg -> Nat]
                BY <1>0 DEF WorkerKind
            <4> QED
                BY <2>1, <4>1, OutboxAssumption
        <3>2. ASSUME NEW k \in Nat, NEW j \in Nat
              PROVE  (k + 1) * j \in Nat
            OBVIOUS
        <3>3. (worker[w].seen[m] + 1) * Backoff \in Nat
            BY <3>1, <3>2
        <3> QED
            BY <2>2, <3>1, <3>3 DEF RetryIn
    <2> HIDE DEF m
    <2>3. ASSUME NEW t \in Nat, NEW k \in {0, 1}
          PROVE  [row EXCEPT ![m].wait = t, ![m].attempts = @ + k] \in [Msg -> RowKind]
        <3>1. row[m] \in RowKind
            BY <1>0, <2>1
        <3>2. row[m].attempts + k \in Nat
            BY <3>1 DEF RowKind
        <3>3. [row[m] EXCEPT !.wait = t, !.attempts = row[m].attempts + k] \in RowKind
            BY <3>1, <3>2 DEF RowKind
        <3>4. [row EXCEPT ![m].wait = t, ![m].attempts = @ + k]
                = [row EXCEPT ![m] = [row[m] EXCEPT !.wait = t, !.attempts = row[m].attempts + k]]
            BY <1>0, <2>1 DEF RowKind
        <3> QED
            BY <1>0, <2>1, <3>3, <3>4
    <2>4. [row EXCEPT ![m].at = "GONE", ![m].wait = 0] \in [Msg -> RowKind]
        BY <1>0, <2>1 DEF RowKind, RowAt
    <2> DEFINE k == IF counts(worker[w].answer) THEN 1 ELSE 0
    <2>5. /\ \/ row' = [row EXCEPT ![m].at = "GONE", ![m].wait = 0]
             \/ \E t \in RetryIn(worker[w].answer, worker[w].seen[m]) :
                  row' = [row EXCEPT ![m].wait = t, ![m].attempts = @ + k]
          /\ worker' = [worker EXCEPT ![w] = Rest(w, m)]
          /\ banned' = banned /\ faults' = faults /\ log' = log
        BY <1>5 DEF deliver, m
    <2>7. k \in {0, 1}
        OBVIOUS
    <2> HIDE DEF k
    <2>6. row' \in [Msg -> RowKind]
        <3>1. CASE row' = [row EXCEPT ![m].at = "GONE", ![m].wait = 0]
            BY <2>4, <3>1
        <3>2. ASSUME NEW t \in RetryIn(worker[w].answer, worker[w].seen[m]),
                     row' = [row EXCEPT ![m].wait = t, ![m].attempts = @ + k]
              PROVE  row' \in [Msg -> RowKind]
            <4>1. t \in Nat
                BY <2>2
            <4>2. [row EXCEPT ![m].wait = t, ![m].attempts = @ + k] \in [Msg -> RowKind]
                BY <2>3, <2>7, <4>1
            <4> QED
                BY <3>2, <4>2
        <3> QED
            BY <2>5, <3>1, <3>2
    <2> QED
        BY <1>0, <2>5, <2>6, RestType, WorkerType
<1>6. ASSUME NEW w \in Worker, RowGone(w) \/ DatabaseFails(w)
      PROVE  TypeInv'
    BY <1>0, <1>6, GiveUpType, UnsettledType, WorkerType, OutboxAssumption
       DEF RowGone, DatabaseFails, Faulty
<1>7. ASSUME NEW w \in Worker, Exit(w) \/ Crash(w) \/ onApplicationBootstrap(w)
      PROVE  TypeInv'
    BY <1>0, <1>7, LetGoTypes, UnsettledType, WorkerType, OutboxAssumption
       DEF Exit, Crash, onApplicationBootstrap, Faulty
<1>8. ASSUME NEW w \in Worker, onApplicationShutdown(w)
      PROVE  TypeInv'
    <2> DEFINE v == [worker[w] EXCEPT !.stopping = TRUE]
    <2>1. worker' = [worker EXCEPT ![w] = v]
        BY <1>8 DEF onApplicationShutdown
    <2>2. v \in WorkerKind /\ v.batch = worker[w].batch /\ v.at = worker[w].at
        BY <1>0 DEF WorkerKind
    <2>3. faults' \in 0..MaxFaults
        BY <1>0, <1>8, OutboxAssumption DEF onApplicationShutdown, Faulty
    <2> HIDE DEF v
    <2> QED
        BY <1>0, <1>8, <2>1, <2>2, <2>3, WorkerType DEF onApplicationShutdown
<1>9. ASSUME NEW to \in SUBSET Msg, Queued(to)
      PROVE  TypeInv'
    BY <1>9, QueuedRows DEF Queued, TypeInv, TypeOK, RowKind
<1>10. ASSUME NEW c \in Chat, Ban(c)
       PROVE  TypeInv'
    BY <1>10 DEF Ban, TypeInv, TypeOK
<1>11. CASE Tick
    <2>1. row' \in [Msg -> RowKind]
        <3>1. row' = [m \in Msg |-> [row[m] EXCEPT !.wait = IF @ > 0 THEN @ - 1 ELSE 0]]
            BY <1>11 DEF Tick
        <3>2. ASSUME NEW m \in Msg
              PROVE  [row[m] EXCEPT !.wait = IF @ > 0 THEN @ - 1 ELSE 0] \in RowKind
            <4> DEFINE n == IF row[m].wait > 0 THEN row[m].wait - 1 ELSE 0
            <4>1. row[m] \in RowKind
                BY <1>0
            <4>2. n \in Nat
                BY <4>1 DEF RowKind
            <4> HIDE DEF n
            <4>3. [row[m] EXCEPT !.wait = n] \in RowKind
                BY <4>1, <4>2 DEF RowKind
            <4> QED
                BY <4>3 DEF n
        <3> QED
            BY <3>1, <3>2
    <2>2. ASSUME NEW w \in Worker
          PROVE  /\ worker'[w] \in WorkerKind
                 /\ worker'[w].batch = worker[w].batch /\ worker'[w].at = worker[w].at
        <3> DEFINE n == IF worker[w].batch = {} THEN 0 ELSE worker[w].spent + 1
        <3>1. n \in 0..SendTicks
            <4>1. worker[w].spent \in 0..SendTicks /\ SendTicks \in Nat
                BY <1>0, OutboxAssumption DEF WorkerKind
            <4>2. worker[w].batch # {} => worker[w].spent < SendTicks
                BY <1>11 DEF Tick
            <4> QED
                BY <4>1, <4>2
        <3>2. worker'[w] = [worker[w] EXCEPT !.spent = n]
            BY <1>11 DEF Tick
        <3>3. worker[w] \in WorkerKind
            BY <1>0
        <3> HIDE DEF n
        <3> QED
            BY <3>1, <3>2, <3>3 DEF WorkerKind
    <2>4. worker' \in [Worker -> WorkerKind]
        BY <1>11, <2>2 DEF Tick
    <2>3. log' \in [Msg -> LogKind]
        BY <1>0, <1>11 DEF Tick, LogKind
    <2> QED
        BY <1>0, <1>11, <2>1, <2>2, <2>3, <2>4
           DEF Tick, TypeInv, TypeOK, RowKind, WorkerKind
<1>12. CASE UNCHANGED vars
    BY <1>12 DEF vars, TypeInv, TypeOK
<1> QED
    BY <1>1, <1>2, <1>3, <1>4, <1>5, <1>6, <1>7, <1>8, <1>9, <1>10, <1>11, <1>12,
       RowsQueued
       DEF Next, Work, Environment

\* Every row and worker keeps its type in every step, whatever crashes.
THEOREM TypeCorrect == Spec => []TypeOK
<1>1. TypeInv => TypeOK
    BY DEF TypeInv
<1> QED
    BY TypeInit, TypeStep, <1>1, PTL DEF Spec

-----------------------------------------------------------------------------
(* Twice only if late *)

\* The worker has got an answer for m and has not recorded it yet.
Pending(w, m, answer) ==
    worker[w].at = "ANSWERED" /\ worker[w].answer = answer /\ Current(w) = m

\* As long as its lease has not ended, a message is in one batch and nobody may take
\* its row.
LeaseHeld ==
    \A m \in Msg : ~log[m].late =>
        /\ \A w \in Worker : m \in worker[w].batch =>
                row[m].at = "QUEUED" /\ row[m].wait > 0
        /\ \A v, w \in Worker :
                m \in worker[v].batch /\ m \in worker[w].batch => v = w

\* A message that was sent is deleted, or its worker is about to delete it.
SentSettled ==
    \A m \in Msg : ~log[m].late =>
        /\ log[m].sent <= 1
        /\ log[m].sent > 0 /\ row[m].at # "GONE" => \E w \in Worker : Pending(w, m, "OK")

TwiceInv == TypeInv /\ LeaseHeld /\ SentSettled

-----------------------------------------------------------------------------
(* Steps of one worker *)

\* Another worker's answer stays; a worker that is not waiting with one has none.
LEMMA OneWorkerActs ==
    ASSUME TypeInv, NEW w \in Worker, NEW v, worker' = [worker EXCEPT ![w] = v]
    PROVE  /\ worker'[w] = v
           /\ \A u \in Worker \ {w} : worker'[u] = worker[u]
           /\ \A u \in Worker \ {w} : \A m, a : Pending(u, m, a)' <=> Pending(u, m, a)
           /\ v.at # "ANSWERED" => \A m, a : ~Pending(w, m, a)'
<1>1. worker'[w] = v /\ \A u \in Worker \ {w} : worker'[u] = worker[u]
    BY DEF TypeInv, TypeOK
<1> QED
    BY <1>1 DEF Pending, Current

\* The workers keep their batches, and their answers if they have one.
LEMMA SameAnswers ==
    ASSUME \A u \in Worker : /\ worker'[u].at = worker[u].at
                             /\ worker'[u].answer = worker[u].answer
                             /\ worker'[u].batch = worker[u].batch
    PROVE  \A u \in Worker : \A m, a : Pending(u, m, a)' <=> Pending(u, m, a)
BY DEF Pending, Current

\* Batches shrink and the rows of what is left in them stay as they are.
LEMMA LeaseKept ==
    ASSUME LeaseHeld,
           \A m \in Msg : log'[m].late = log[m].late,
           \A u \in Worker : worker'[u].batch \subseteq worker[u].batch,
           \A u \in Worker : \A m \in worker'[u].batch : ~log[m].late =>
                row'[m].at = row[m].at /\ row'[m].wait = row[m].wait
    PROVE  LeaseHeld'
<1> SUFFICES ASSUME NEW m \in Msg, ~log'[m].late
             PROVE  /\ \A w \in Worker : m \in worker'[w].batch =>
                            row'[m].at = "QUEUED" /\ row'[m].wait > 0
                    /\ \A v, w \in Worker :
                            m \in worker'[v].batch /\ m \in worker'[w].batch => v = w
    BY DEF LeaseHeld
<1>1. ~log[m].late
    OBVIOUS
<1>2. /\ \A w \in Worker : m \in worker[w].batch => row[m].at = "QUEUED" /\ row[m].wait > 0
      /\ \A v, w \in Worker : m \in worker[v].batch /\ m \in worker[w].batch => v = w
    BY <1>1 DEF LeaseHeld
<1> QED
    BY <1>1, <1>2

\* A delivery goes unrecorded no more than before.
LEMMA SentKept ==
    ASSUME SentSettled,
           \A m \in Msg : log'[m].late = log[m].late /\ log'[m].sent = log[m].sent,
           \A m \in Msg : row'[m].at # "GONE" =>
                /\ row[m].at # "GONE"
                /\ \A u \in Worker : Pending(u, m, "OK") => Pending(u, m, "OK")'
    PROVE  SentSettled'
<1> SUFFICES ASSUME NEW m \in Msg, ~log'[m].late
             PROVE  /\ log'[m].sent <= 1
                    /\ log'[m].sent > 0 /\ row'[m].at # "GONE" =>
                            \E w \in Worker : Pending(w, m, "OK")'
    BY DEF SentSettled
<1>1. /\ log[m].sent <= 1
      /\ log[m].sent > 0 /\ row[m].at # "GONE" => \E w \in Worker : Pending(w, m, "OK")
    BY DEF SentSettled
<1> QED
    BY <1>1

\* The workers are what they were.
LEMMA SameWorkersTwice ==
    ASSUME TwiceInv,
           \A u \in Worker : /\ worker'[u].at = worker[u].at
                             /\ worker'[u].answer = worker[u].answer
                             /\ worker'[u].batch = worker[u].batch,
           row' = row, log' = log
    PROVE  LeaseHeld' /\ SentSettled'
<1>1. \A u \in Worker : \A m, a : Pending(u, m, a)' <=> Pending(u, m, a)
    BY SameAnswers
<1> QED
    BY <1>1, LeaseKept, SentKept DEF TwiceInv

\* A worker that dies or gives up leaves nothing behind but what it did not record.
LEMMA GivingUpTwice ==
    ASSUME TwiceInv, NEW w \in Worker, NEW v, worker' = [worker EXCEPT ![w] = v],
           v.batch = {}, v.at # "ANSWERED", row' = row, log' = Unsettled(w)
    PROVE  LeaseHeld' /\ SentSettled'
<1> DEFINE c == Current(w)
<1>0. log \in [Msg -> LogKind] /\ LeaseHeld /\ SentSettled /\ TypeInv
    BY DEF TwiceInv, TypeInv
<1>1. /\ worker'[w].batch = {}
      /\ \A u \in Worker \ {w} : worker'[u] = worker[u]
      /\ \A u \in Worker \ {w} : \A m, a : Pending(u, m, a)' <=> Pending(u, m, a)
    BY <1>0, OneWorkerActs
<1>2. ASSUME NEW m \in Msg
      PROVE  /\ log'[m].late = log[m].late
             /\ Pending(w, m, "OK") => log'[m].sent = log[m].sent - 1
             /\ ~Pending(w, m, "OK") => log'[m].sent = log[m].sent
    BY <1>0 DEF Unsettled, Pending, LogKind
<1>3. LeaseHeld'
    BY <1>0, <1>1, <1>2, LeaseKept
<1>4. SentSettled'
    <2> SUFFICES ASSUME NEW m \in Msg, ~log'[m].late
                 PROVE  /\ log'[m].sent <= 1
                        /\ log'[m].sent > 0 /\ row'[m].at # "GONE" =>
                                \E u \in Worker : Pending(u, m, "OK")'
        BY DEF SentSettled
    <2>1. /\ log[m].sent <= 1
          /\ log[m].sent > 0 /\ row[m].at # "GONE" => \E u \in Worker : Pending(u, m, "OK")
        BY <1>0, <1>2 DEF SentSettled
    <2>2. log[m].sent \in Int
        BY <1>0 DEF LogKind
    <2>3. CASE Pending(w, m, "OK")
        BY <1>2, <2>1, <2>2, <2>3
    <2>4. CASE ~Pending(w, m, "OK")
        BY <1>1, <1>2, <2>1, <2>4
    <2> QED
        BY <2>3, <2>4
<1> QED
    BY <1>3, <1>4

LEMMA TwiceInit == Init => TwiceInv
<1>1. Init => LeaseHeld /\ SentSettled
    BY DEF Init, LeaseHeld, SentSettled, Down, NoLog
<1> QED
    BY <1>1, TypeInit DEF TwiceInv

LEMMA TakeTwice ==
    ASSUME TwiceInv, NEW w \in Worker, TakeBatch(w)
    PROVE  LeaseHeld' /\ SentSettled'
<1>0. TypeInv /\ LeaseHeld /\ SentSettled /\ row \in [Msg -> RowKind]
    BY DEF TwiceInv, TypeInv, TypeOK, RowKind
<1> DEFINE took(b) == [Idle EXCEPT !.at = "TAKEN", !.batch = b,
                                   !.seen = [m \in Msg |-> row[m].attempts]]
<1>1. PICK b \in Batches :
        /\ row' = [m \in Msg |-> IF m \in b THEN takenRow(m) ELSE row[m]]
        /\ worker' = [worker EXCEPT ![w] = took(b)]
        /\ log' = log
    BY DEF TakeBatch
<1>2. took(b).batch = b /\ took(b).at = "TAKEN"
    BY <1>0, LetGoTypes DEF WorkerKind
<1> HIDE DEF took
<1>3. /\ worker'[w].batch = b /\ worker[w].at = "IDLE" /\ worker[w].batch = {}
      /\ \A u \in Worker \ {w} : worker'[u] = worker[u]
      /\ \A u \in Worker \ {w} : \A m, a : Pending(u, m, a)' <=> Pending(u, m, a)
    BY <1>0, <1>1, <1>2, OneWorkerActs DEF TakeBatch, TypeInv, TypeOK
<1>4. \A m \in Msg : /\ row'[m].at = row[m].at
                     /\ m \in b => row[m].at = "QUEUED" /\ row[m].wait = 0 /\ row'[m].wait > 0
                     /\ m \notin b => row'[m] = row[m]
    BY <1>0, <1>1, OutboxAssumption DEF Batches, Due, takenRow, RowKind
<1>5. LeaseHeld'
    <2> SUFFICES ASSUME NEW m \in Msg, ~log[m].late
                 PROVE  /\ \A u \in Worker : m \in worker'[u].batch =>
                                row'[m].at = "QUEUED" /\ row'[m].wait > 0
                        /\ \A u, v \in Worker :
                                m \in worker'[u].batch /\ m \in worker'[v].batch => u = v
        BY <1>1 DEF LeaseHeld
    <2>1. /\ \A u \in Worker : m \in worker[u].batch =>
                row[m].at = "QUEUED" /\ row[m].wait > 0
          /\ \A u, v \in Worker : m \in worker[u].batch /\ m \in worker[v].batch => u = v
        BY <1>0 DEF LeaseHeld
    <2>2. CASE m \in b
        <3>1. \A u \in Worker : m \notin worker[u].batch
            BY <1>0, <1>4, <2>1, <2>2 DEF RowKind
        <3> QED
            BY <1>3, <1>4, <2>2, <3>1
    <2>3. CASE m \notin b
        BY <1>3, <1>4, <2>1, <2>3
    <2> QED
        BY <2>2, <2>3
<1>6. SentSettled'
    <2>1. \A m, a : ~Pending(w, m, a)
        BY <1>3 DEF Pending
    <2> QED
        BY <1>0, <1>1, <1>3, <1>4, <2>1, SentKept
<1> QED
    BY <1>5, <1>6

LEMMA DeleteBannedTwice ==
    ASSUME TwiceInv, NEW w \in Worker, DeleteBanned(w)
    PROVE  LeaseHeld' /\ SentSettled'
<1> DEFINE c == Current(w)
<1>0. TypeInv /\ LeaseHeld /\ SentSettled /\ row \in [Msg -> RowKind]
      /\ log \in [Msg -> LogKind]
    BY DEF TwiceInv, TypeInv, TypeOK, RowKind
<1>1. /\ row' = [row EXCEPT ![c].at = "GONE"]
      /\ log' = [log EXCEPT ![c].answered = TRUE]
      /\ worker' = [worker EXCEPT ![w] = Rest(w, c)]
      /\ worker[w].at = "LOOP"
    BY DEF DeleteBanned, Looping
<1>2. c \in worker[w].batch /\ c \in Msg
    BY <1>0, <1>1, CurrentInBatch DEF TypeInv, TypeOK
<1> HIDE DEF c
<1>3. /\ worker'[w].batch = worker[w].batch \ {c}
      /\ \A u \in Worker \ {w} : worker'[u] = worker[u]
      /\ \A u \in Worker \ {w} : \A m, a : Pending(u, m, a)' <=> Pending(u, m, a)
    <2>1. /\ worker'[w] = Rest(w, c)
          /\ \A u \in Worker \ {w} : worker'[u] = worker[u]
          /\ \A u \in Worker \ {w} : \A m, a : Pending(u, m, a)' <=> Pending(u, m, a)
        BY <1>0, <1>1, OneWorkerActs
    <2>2. Rest(w, c).batch = worker[w].batch \ {c}
        BY <1>0, RestType
    <2> QED
        BY <2>1, <2>2
<1>4. \A m \in Msg : /\ log'[m].late = log[m].late /\ log'[m].sent = log[m].sent
                     /\ m # c => row'[m] = row[m]
                     /\ row'[c].at = "GONE"
    BY <1>0, <1>1, <1>2 DEF RowKind, LogKind
<1>5. ~log[c].late => \A u \in Worker \ {w} : c \notin worker[u].batch
    BY <1>0, <1>2 DEF LeaseHeld
<1>6. LeaseHeld'
    BY <1>0, <1>3, <1>4, <1>5, LeaseKept DEF TypeInv, TypeOK
<1>7. \A m, a : ~Pending(w, m, a)
    BY <1>1 DEF Pending
<1>8. SentSettled'
    BY <1>0, <1>3, <1>4, <1>7, SentKept
<1> QED
    BY <1>6, <1>8

LEMMA SendTwice ==
    ASSUME TwiceInv, NEW w \in Worker, NEW answer \in Answers \ {"NONE"},
           NEW reached \in BOOLEAN, Send(w, answer, reached)
    PROVE  LeaseHeld' /\ SentSettled'
<1> DEFINE c == Current(w)
           v == [worker[w] EXCEPT !.at = "ANSWERED", !.answer = answer]
<1>0. TypeInv /\ LeaseHeld /\ SentSettled /\ worker \in [Worker -> WorkerKind]
      /\ log \in [Msg -> LogKind]
    BY DEF TwiceInv, TypeInv, TypeOK, WorkerKind
<1>1. worker' = [worker EXCEPT ![w] = v] /\ row' = row /\ worker[w].at = "LOOP"
    BY <1>0 DEF Send, Looping, WorkerKind
<1>2. c \in worker[w].batch /\ c \in Msg
    BY <1>0, <1>1, CurrentInBatch DEF TypeInv, TypeOK
<1>3. /\ worker'[w].batch = worker[w].batch
      /\ \A u \in Worker \ {w} : worker'[u] = worker[u]
      /\ \A u \in Worker \ {w} : \A m, a : Pending(u, m, a)' <=> Pending(u, m, a)
    <2>1. v.batch = worker[w].batch
        BY <1>0 DEF WorkerKind
    <2> HIDE DEF v
    <2>2. /\ worker'[w] = v
          /\ \A u \in Worker \ {w} : worker'[u] = worker[u]
          /\ \A u \in Worker \ {w} : \A m, a : Pending(u, m, a)' <=> Pending(u, m, a)
        BY <1>0, <1>1, OneWorkerActs
    <2> QED
        BY <2>1, <2>2
<1>4. \A m, a : Pending(w, m, a)' <=> (m = c /\ a = answer)
    <2>1. worker'[w].at = "ANSWERED" /\ worker'[w].answer = answer
          /\ worker'[w].batch = worker[w].batch
        BY <1>0, <1>1 DEF WorkerKind
    <2> QED
        BY <2>1 DEF Pending, Current
<1>5. \A m \in Msg :
        /\ log'[m].late = log[m].late
        /\ log'[m].sent = IF m = c /\ answer = "OK" THEN log[m].sent + 1 ELSE log[m].sent
    BY <1>0, <1>2 DEF Send, LogKind
<1> HIDE DEF c
<1>6. LeaseHeld'
    BY <1>0, <1>1, <1>3, <1>5, LeaseKept
<1>7. \A m, a : ~Pending(w, m, a)
    BY <1>1 DEF Pending
<1>8. SentSettled'
    <2> SUFFICES ASSUME NEW m \in Msg, ~log[m].late
                 PROVE  /\ log'[m].sent <= 1
                        /\ log'[m].sent > 0 /\ row'[m].at # "GONE" =>
                                \E u \in Worker : Pending(u, m, "OK")'
        BY <1>5 DEF SentSettled
    <2>1. /\ log[m].sent <= 1
          /\ log[m].sent > 0 /\ row[m].at # "GONE" => \E u \in Worker : Pending(u, m, "OK")
        BY <1>0 DEF SentSettled
    <2>2. CASE m = c /\ answer = "OK"
        <3>1. \A u \in Worker : ~Pending(u, c, "OK")
            <4> SUFFICES ASSUME NEW u \in Worker, Pending(u, c, "OK")
                         PROVE  FALSE
                OBVIOUS
            <4>1. c \in worker[u].batch
                <5>1. worker[u].batch # {} /\ Current(u) = c
                    BY <1>0 DEF Pending, TypeInv, TypeOK
                <5> QED
                    BY <1>0, <5>1, CurrentInBatch
            <4>2. u = w
                BY <1>0, <1>2, <2>2, <4>1 DEF LeaseHeld
            <4> QED
                BY <1>7, <4>2
        <3>2. row[c].at = "QUEUED"
            BY <1>0, <1>2, <2>2 DEF LeaseHeld
        <3>3. log[m].sent \in Int /\ ~(log[m].sent > 0)
            BY <1>0, <2>1, <2>2, <3>1, <3>2 DEF LogKind
        <3>4. Pending(w, m, "OK")'
            BY <1>4, <2>2
        <3> QED
            BY <1>5, <2>2, <3>3, <3>4
    <2>3. CASE ~(m = c /\ answer = "OK")
        <3>1. \A u \in Worker : Pending(u, m, "OK") => Pending(u, m, "OK")'
            BY <1>3, <1>7
        <3> QED
            BY <1>1, <1>5, <2>1, <2>3, <3>1
    <2> QED
        BY <2>2, <2>3
<1> QED
    BY <1>6, <1>8

LEMMA DeliverTwice ==
    ASSUME TwiceInv, NEW w \in Worker, deliver(w)
    PROVE  LeaseHeld' /\ SentSettled'
<1> DEFINE c == Current(w)
<1>0. TypeInv /\ LeaseHeld /\ SentSettled /\ row \in [Msg -> RowKind]
    BY DEF TwiceInv, TypeInv, TypeOK, RowKind
<1>1. /\ worker' = [worker EXCEPT ![w] = Rest(w, c)] /\ log' = log
      /\ worker[w].at = "ANSWERED"
    BY DEF deliver
<1>2. c \in worker[w].batch /\ c \in Msg
    BY <1>0, <1>1, CurrentInBatch DEF TypeInv, TypeOK
<1>3. /\ \A m \in Msg \ {c} : row'[m] = row[m]
      /\ row[c].at = "QUEUED"
      /\ worker[w].answer = "OK" => row'[c].at = "GONE"
    BY <1>0, <1>2 DEF deliver, Finished, RowKind
<1>4. \A a : Pending(w, c, a) <=> worker[w].answer = a
    BY <1>1 DEF Pending
<1>5. \A m : m # c => \A a : ~Pending(w, m, a)
    BY DEF Pending
<1> HIDE DEF c
<1>6. /\ worker'[w].batch = worker[w].batch \ {c}
      /\ \A u \in Worker \ {w} : worker'[u] = worker[u]
      /\ \A u \in Worker \ {w} : \A m, a : Pending(u, m, a)' <=> Pending(u, m, a)
    <2>1. /\ worker'[w] = Rest(w, c)
          /\ \A u \in Worker \ {w} : worker'[u] = worker[u]
          /\ \A u \in Worker \ {w} : \A m, a : Pending(u, m, a)' <=> Pending(u, m, a)
        BY <1>0, <1>1, OneWorkerActs
    <2>2. Rest(w, c).batch = worker[w].batch \ {c}
        BY <1>0, RestType
    <2> QED
        BY <2>1, <2>2
<1>7. ~log[c].late => \A u \in Worker \ {w} : c \notin worker[u].batch
    BY <1>0, <1>2 DEF LeaseHeld
<1>8. LeaseHeld'
    <2>1. \A u \in Worker : worker'[u].batch \subseteq worker[u].batch
        BY <1>6
    <2>2. \A u \in Worker : \A m \in worker'[u].batch : ~log[m].late => row'[m] = row[m]
        BY <1>0, <1>3, <1>6, <1>7 DEF TypeInv, TypeOK
    <2> QED
        BY <1>0, <1>1, <2>1, <2>2, LeaseKept
<1>9. SentSettled'
    <2>1. ASSUME NEW m \in Msg, row'[m].at # "GONE"
          PROVE  /\ row[m].at # "GONE"
                 /\ \A u \in Worker : Pending(u, m, "OK") => Pending(u, m, "OK")'
        BY <1>3, <1>4, <1>5, <1>6, <2>1
    <2> QED
        BY <1>0, <1>1, <2>1, SentKept
<1> QED
    BY <1>8, <1>9

\* The row of its message is gone, and so is the worker's interest in the rest.
LEMMA RowGoneTwice ==
    ASSUME TwiceInv, NEW w \in Worker, RowGone(w)
    PROVE  LeaseHeld' /\ SentSettled'
<1>0. TypeInv /\ LeaseHeld /\ SentSettled
    BY DEF TwiceInv
<1>1. /\ worker' = [worker EXCEPT ![w] = GiveUpBatch(w)] /\ row' = row /\ log' = log
      /\ row[Current(w)].at = "GONE"
    BY DEF RowGone
<1>2. /\ worker'[w].batch = {}
      /\ \A u \in Worker \ {w} : worker'[u] = worker[u]
      /\ \A u \in Worker \ {w} : \A m, a : Pending(u, m, a)' <=> Pending(u, m, a)
    BY <1>0, <1>1, OneWorkerActs, GiveUpType
<1>3. LeaseHeld'
    BY <1>0, <1>1, <1>2, LeaseKept
<1>4. \A m \in Msg : row[m].at # "GONE" => ~Pending(w, m, "OK")
    BY <1>1 DEF Pending
<1>5. SentSettled'
    BY <1>0, <1>1, <1>2, <1>4, SentKept
<1> QED
    BY <1>3, <1>5

LEMMA TickTwice ==
    ASSUME TwiceInv, Tick
    PROVE  LeaseHeld' /\ SentSettled'
<1>0. TypeInv /\ LeaseHeld /\ SentSettled /\ row \in [Msg -> RowKind]
      /\ log \in [Msg -> LogKind] /\ worker \in [Worker -> WorkerKind]
    BY DEF TwiceInv, TypeInv, TypeOK, RowKind, WorkerKind
<1>1. ASSUME NEW u \in Worker
      PROVE  /\ worker'[u].at = worker[u].at /\ worker'[u].answer = worker[u].answer
             /\ worker'[u].batch = worker[u].batch
    BY <1>0 DEF Tick, WorkerKind
<1>2. ASSUME NEW m \in Msg
      PROVE  /\ row'[m].at = row[m].at
             /\ row'[m].wait = IF row[m].wait > 0 THEN row[m].wait - 1 ELSE 0
             /\ log'[m].sent = log[m].sent
             /\ ~log'[m].late =>
                    /\ ~log[m].late
                    /\ \A u \in Worker : m \in worker[u].batch => row[m].wait # 1
    BY <1>0 DEF Tick, RowKind, LogKind
<1>3. \A u \in Worker : \A m, a : Pending(u, m, a)' <=> Pending(u, m, a)
    BY <1>1, SameAnswers
<1>4. LeaseHeld'
    <2> SUFFICES ASSUME NEW m \in Msg, ~log'[m].late
                 PROVE  /\ \A u \in Worker : m \in worker'[u].batch =>
                                row'[m].at = "QUEUED" /\ row'[m].wait > 0
                        /\ \A u, v \in Worker :
                                m \in worker'[u].batch /\ m \in worker'[v].batch => u = v
        BY DEF LeaseHeld
    <2>1. /\ \A u \in Worker : m \in worker[u].batch =>
                row[m].at = "QUEUED" /\ row[m].wait > 0
          /\ \A u, v \in Worker : m \in worker[u].batch /\ m \in worker[v].batch => u = v
        BY <1>0, <1>2 DEF LeaseHeld
    <2>2. row[m].wait \in Nat
        BY <1>0 DEF RowKind
    <2> QED
        BY <1>1, <1>2, <2>1, <2>2
<1>5. SentSettled'
    <2> SUFFICES ASSUME NEW m \in Msg, ~log'[m].late
                 PROVE  /\ log'[m].sent <= 1
                        /\ log'[m].sent > 0 /\ row'[m].at # "GONE" =>
                                \E u \in Worker : Pending(u, m, "OK")'
        BY DEF SentSettled
    <2>1. /\ log[m].sent <= 1
          /\ log[m].sent > 0 /\ row[m].at # "GONE" => \E u \in Worker : Pending(u, m, "OK")
        BY <1>0, <1>2 DEF SentSettled
    <2> QED
        BY <1>2, <1>3, <2>1
<1> QED
    BY <1>4, <1>5

LEMMA TwiceStep == TwiceInv /\ [Next]_vars => TwiceInv'
<1> SUFFICES ASSUME TwiceInv, [Next]_vars
             PROVE  LeaseHeld' /\ SentSettled'
    BY TypeStep DEF TwiceInv
<1>0. TypeInv /\ LeaseHeld /\ SentSettled /\ worker \in [Worker -> WorkerKind]
      /\ row \in [Msg -> RowKind]
    BY DEF TwiceInv, TypeInv, TypeOK, WorkerKind, RowKind
<1>1. ASSUME NEW w \in Worker, TakeBatch(w)
      PROVE  LeaseHeld' /\ SentSettled'
    BY <1>1, TakeTwice
<1>2. ASSUME NEW w \in Worker, ReadBans(w)
      PROVE  LeaseHeld' /\ SentSettled'
    <2>1. /\ worker'[w].batch = worker[w].batch /\ worker[w].at = "TAKEN"
          /\ row' = row /\ log' = log
          /\ \A u \in Worker \ {w} : worker'[u] = worker[u]
        BY <1>0, <1>2 DEF ReadBans, WorkerKind
    <2>2. \A u \in Worker : \A m : Pending(u, m, "OK") => Pending(u, m, "OK")'
        BY <2>1 DEF Pending, Current
    <2>3. LeaseHeld'
        BY <1>0, <2>1, LeaseKept
    <2>4. SentSettled'
        BY <1>0, <2>1, <2>2, SentKept
    <2> QED
        BY <2>3, <2>4
<1>3. ASSUME NEW w \in Worker, DeleteBanned(w)
      PROVE  LeaseHeld' /\ SentSettled'
    BY <1>3, DeleteBannedTwice
<1>4. ASSUME NEW w \in Worker, NEW answer \in Answers \ {"NONE"}, NEW reached \in BOOLEAN,
             Send(w, answer, reached)
      PROVE  LeaseHeld' /\ SentSettled'
    BY <1>4, SendTwice
<1>5. ASSUME NEW w \in Worker, deliver(w)
      PROVE  LeaseHeld' /\ SentSettled'
    BY <1>5, DeliverTwice
<1>6. ASSUME NEW w \in Worker, RowGone(w)
      PROVE  LeaseHeld' /\ SentSettled'
    BY <1>6, RowGoneTwice
<1>7. ASSUME NEW w \in Worker, DatabaseFails(w)
      PROVE  LeaseHeld' /\ SentSettled'
    BY <1>0, <1>7, GiveUpType, GivingUpTwice DEF DatabaseFails
<1>8. ASSUME NEW w \in Worker, Crash(w)
      PROVE  LeaseHeld' /\ SentSettled'
    BY <1>0, <1>8, LetGoTypes, GivingUpTwice DEF Crash
<1>9. ASSUME NEW w \in Worker, Exit(w) \/ onApplicationBootstrap(w)
      PROVE  LeaseHeld' /\ SentSettled'
    <2>1. log' = Unsettled(w)
        BY <1>9 DEF Exit, onApplicationBootstrap, Unsettled
    <2> QED
        BY <1>0, <1>9, <2>1, LetGoTypes, GivingUpTwice DEF Exit, onApplicationBootstrap
<1>10. ASSUME NEW w \in Worker, onApplicationShutdown(w)
       PROVE  LeaseHeld' /\ SentSettled'
    <2>1. ASSUME NEW u \in Worker
          PROVE  /\ worker'[u].at = worker[u].at /\ worker'[u].answer = worker[u].answer
                 /\ worker'[u].batch = worker[u].batch
        BY <1>0, <1>10 DEF onApplicationShutdown, WorkerKind
    <2> QED
        BY <1>10, <2>1, SameWorkersTwice DEF onApplicationShutdown
<1>11. ASSUME NEW to \in SUBSET Msg, Queued(to)
       PROVE  LeaseHeld' /\ SentSettled'
    <2>1. /\ worker' = worker /\ log' = log
          /\ \A m \in to : row[m].at = "NEW"
          /\ \A m \in Msg : row'[m].at = "GONE" <=> row[m].at = "GONE"
          /\ \A m \in Msg \ to : row'[m] = row[m]
        BY <1>0, <1>11, QueuedRows DEF Queued
    <2>2. ASSUME NEW u \in Worker, NEW m \in worker[u].batch, ~log[m].late
          PROVE  m \in Msg /\ m \notin to
        <3>1. m \in Msg
            BY <1>0 DEF WorkerKind
        <3> QED
            BY <1>0, <2>1, <2>2, <3>1 DEF LeaseHeld
    <2>3. \A u \in Worker : \A n, a : Pending(u, n, a)' <=> Pending(u, n, a)
        BY <2>1 DEF Pending, Current
    <2>4. LeaseHeld'
        BY <1>0, <2>1, <2>2, LeaseKept
    <2>5. SentSettled'
        BY <1>0, <2>1, <2>3, SentKept
    <2> QED
        BY <2>4, <2>5
<1>12. ASSUME NEW c \in Chat, Ban(c)
       PROVE  LeaseHeld' /\ SentSettled'
    BY <1>12, SameWorkersTwice DEF Ban
<1>13. CASE Tick
    BY <1>13, TickTwice
<1>14. CASE UNCHANGED vars
    BY <1>14, SameWorkersTwice DEF vars
<1> QED
    BY <1>1, <1>2, <1>3, <1>4, <1>5, <1>6, <1>7, <1>8, <1>9, <1>10, <1>11, <1>12, <1>13, <1>14,
       <1>0, RowsQueued DEF Next, Work, Environment

\* Whatever crashes, stops, floods and fails, and however many workers there are: a
\* message is sent a second time only if its lease ended while it waited in a batch.
THEOREM TwiceOnlyWhenLate == Spec => []TwiceOnlyLate
<1>1. TwiceInv => TwiceOnlyLate
    BY DEF TwiceInv, TypeInv, LogKind, SentSettled, TwiceOnlyLate
<1> QED
    BY TwiceInit, TwiceStep, <1>1, PTL DEF Spec

-----------------------------------------------------------------------------
(* Dropped for cause *)

\* What was answered is known.
AnswersKnown ==
    \A w \in Worker, m \in Msg :
        /\ Pending(w, m, "OK") => log[m].reached
        /\ Pending(w, m, "REFUSED") => log[m].answered

\* Workers about to record a failure.
FailedOn(m) == {w \in Worker : Pending(w, m, "FAILED")}

\* Every attempt in the row, and every one about to be written there, was a failure;
\* what a worker has read is no more than what is written.
AttemptsFailed ==
    \A m \in Msg :
        /\ \/ log[m].failed >= MAX_ATTEMPTS
           \/ row[m].attempts + Cardinality(FailedOn(m)) <= log[m].failed
        /\ \A w \in Worker : worker[w].seen[m] <= row[m].attempts

DropInv == TypeInv /\ AnswersKnown /\ AttemptsFailed /\ DroppedForCause

LEMMA FailedOnType ==
    ASSUME NEW m
    PROVE  IsFiniteSet(FailedOn(m)) /\ Cardinality(FailedOn(m)) \in Nat
<1>1. FailedOn(m) \subseteq Worker /\ IsFiniteSet(Worker)
    BY OutboxAssumption DEF FailedOn
<1> QED
    BY <1>1, FS_Subset, FS_CardinalityType

\* Nobody gets an answer, nothing known is forgotten, and attempts are only added by
\* the worker that lets go of the failure they stand for.
LEMMA AttemptsKept ==
    ASSUME TypeInv, AttemptsFailed,
           \A u \in Worker, m \in Msg : Pending(u, m, "FAILED")' => Pending(u, m, "FAILED"),
           \A m \in Msg : log'[m].failed = log[m].failed /\ row'[m].attempts = row[m].attempts,
           \A u \in Worker, m \in Msg : worker'[u].seen[m] <= row[m].attempts
    PROVE  AttemptsFailed'
<1> SUFFICES ASSUME NEW m \in Msg
             PROVE  \/ log'[m].failed >= MAX_ATTEMPTS
                    \/ row'[m].attempts + Cardinality(FailedOn(m)') <= log'[m].failed
    BY DEF AttemptsFailed
<1>1. FailedOn(m)' \subseteq FailedOn(m)
    BY DEF FailedOn
<1>2. /\ Cardinality(FailedOn(m)') \in Nat /\ Cardinality(FailedOn(m)) \in Nat
      /\ Cardinality(FailedOn(m)') <= Cardinality(FailedOn(m))
    BY <1>1, FailedOnType, FS_Subset, FS_CardinalityType
<1>3. row[m].attempts \in Nat /\ log[m].failed \in Int
    BY OutboxAssumption DEF TypeInv, TypeOK, LogKind
<1>4. \/ log[m].failed >= MAX_ATTEMPTS
      \/ row[m].attempts + Cardinality(FailedOn(m)) <= log[m].failed
    BY DEF AttemptsFailed
<1> HIDE DEF FailedOn
<1> QED
    BY <1>2, <1>3, <1>4

LEMMA AnswersKept ==
    ASSUME AnswersKnown,
           \A u \in Worker, m \in Msg : \A a : Pending(u, m, a)' => Pending(u, m, a),
           \A m \in Msg : /\ log[m].reached => log'[m].reached
                          /\ log[m].answered => log'[m].answered
    PROVE  AnswersKnown'
BY DEF AnswersKnown

LEMMA DroppedKept ==
    ASSUME DroppedForCause,
           \A m \in Msg : /\ log[m].reached => log'[m].reached
                          /\ log[m].answered => log'[m].answered
                          /\ log'[m].failed = log[m].failed
                          /\ row'[m].at = "GONE" => row[m].at = "GONE"
    PROVE  DroppedForCause'
BY DEF DroppedForCause

\* A worker without an answer in hand, reading no more than the rows say.
LEMMA QuietStepDrops ==
    ASSUME DropInv, NEW w \in Worker, NEW v, worker' = [worker EXCEPT ![w] = v],
           v.at # "ANSWERED", \A m \in Msg : v.seen[m] <= row[m].attempts,
           \A m \in Msg : /\ row'[m].attempts = row[m].attempts
                          /\ row'[m].at = "GONE" => row[m].at = "GONE"
                          /\ log'[m].failed = log[m].failed
                          /\ log'[m].reached = log[m].reached
                          /\ log'[m].answered = log[m].answered
    PROVE  AnswersKnown' /\ AttemptsFailed' /\ DroppedForCause'
<1>0. TypeInv /\ AnswersKnown /\ AttemptsFailed /\ DroppedForCause
    BY DEF DropInv
<1>1. /\ worker'[w] = v
      /\ \A u \in Worker \ {w} : worker'[u] = worker[u]
      /\ \A u \in Worker : \A m, a : Pending(u, m, a)' => Pending(u, m, a)
    BY <1>0, OneWorkerActs
<1>2. \A u \in Worker, m \in Msg : worker'[u].seen[m] <= row[m].attempts
    BY <1>0, <1>1 DEF AttemptsFailed
<1>3. AttemptsFailed'
    BY <1>0, <1>1, <1>2, AttemptsKept
<1>4. AnswersKnown' /\ DroppedForCause'
    BY <1>0, <1>1, AnswersKept, DroppedKept
<1> QED
    BY <1>3, <1>4

\* What a worker remembers of the attempts after letting go.
LEMMA ForgetsOrKeeps ==
    ASSUME DropInv, NEW w \in Worker, NEW seen,
           seen \in {worker[w].seen, [n \in Msg |-> 0]}
    PROVE  \A m \in Msg : seen[m] <= row[m].attempts
<1>1. \A m \in Msg : row[m].attempts \in Nat /\ worker[w].seen[m] <= row[m].attempts
    BY DEF DropInv, TypeInv, TypeOK, AttemptsFailed
<1> QED
    BY <1>1

LEMMA DropInit == Init => DropInv
<1> SUFFICES ASSUME Init
             PROVE  AnswersKnown /\ AttemptsFailed /\ DroppedForCause
    BY TypeInit DEF DropInv
<1>1. \A w \in Worker : worker[w].at = "DOWN"
    BY DEF Init, Down
<1>2. \A w \in Worker : \A m, a : ~Pending(w, m, a)
    BY <1>1 DEF Pending
<1>3. \A m : FailedOn(m) = {}
    BY <1>2 DEF FailedOn
<1>4. \A m : Cardinality(FailedOn(m)) = 0
    BY <1>3, FS_EmptySet
<1>5. \A m \in Msg : /\ row[m].attempts = 0 /\ log[m].failed = 0
                     /\ \A w \in Worker : worker[w].seen[m] = 0
    BY DEF Init, Down, NoLog
<1>6. AttemptsFailed
    <2> HIDE DEF FailedOn
    <2> QED
        BY <1>4, <1>5 DEF AttemptsFailed
<1> QED
    BY <1>2, <1>6 DEF Init, AnswersKnown, DroppedForCause

LEMMA SendDrops ==
    ASSUME DropInv, NEW w \in Worker, NEW answer \in Answers \ {"NONE"},
           NEW reached \in BOOLEAN, Send(w, answer, reached)
    PROVE  AnswersKnown' /\ AttemptsFailed' /\ DroppedForCause'
<1> DEFINE c == Current(w)
           v == [worker[w] EXCEPT !.at = "ANSWERED", !.answer = answer]
<1>0. TypeInv /\ worker \in [Worker -> WorkerKind] /\ log \in [Msg -> LogKind]
      /\ row \in [Msg -> RowKind]
    BY DEF DropInv, TypeInv, TypeOK, WorkerKind, RowKind
<1>1. worker' = [worker EXCEPT ![w] = v] /\ row' = row /\ worker[w].at = "LOOP"
    BY <1>0 DEF Send, Looping, WorkerKind
<1>2. c \in Msg
    BY <1>0, <1>1, CurrentInBatch DEF TypeInv, TypeOK
<1>3. \A u \in Worker \ {w} : \A m, a : Pending(u, m, a)' <=> Pending(u, m, a)
    <2> HIDE DEF v
    <2> QED
        BY <1>0, <1>1, OneWorkerActs
<1>4. worker'[w].at = "ANSWERED" /\ worker'[w].answer = answer
      /\ worker'[w].batch = worker[w].batch /\ worker'[w].seen = worker[w].seen
    BY <1>0, <1>1 DEF WorkerKind
<1>5. \A m, a : Pending(w, m, a)' <=> (m = c /\ a = answer)
    BY <1>4 DEF Pending, Current
<1>6. \A m \in Msg :
        /\ log[m].reached => log'[m].reached
        /\ log[m].answered => log'[m].answered
        /\ m # c => log'[m] = log[m]
    BY <1>0, <1>2 DEF Send, LogKind
<1>7. /\ answer = "OK" => log'[c].reached
      /\ answer = "REFUSED" => log'[c].answered
    BY <1>0, <1>2 DEF Send, LogKind
<1>8. log'[c].failed = IF answer = "FAILED" /\ log[c].failed < MAX_ATTEMPTS
                         THEN log[c].failed + 1 ELSE log[c].failed
    BY <1>0, <1>2 DEF Send, LogKind
<1>9. \A m, a : ~Pending(w, m, a)
    BY <1>1 DEF Pending
<1> HIDE DEF c, v
<1>10. AnswersKnown'
    <2> SUFFICES ASSUME NEW u \in Worker, NEW m \in Msg
                 PROVE  /\ Pending(u, m, "OK")' => log'[m].reached
                        /\ Pending(u, m, "REFUSED")' => log'[m].answered
        BY DEF AnswersKnown
    <2>1. CASE u = w
        BY <1>5, <1>7, <2>1
    <2>2. CASE u # w
        <3>1. /\ Pending(u, m, "OK") => log[m].reached
              /\ Pending(u, m, "REFUSED") => log[m].answered
            BY DEF DropInv, AnswersKnown
        <3> QED
            BY <1>3, <1>6, <2>2, <3>1
    <2> QED
        BY <2>1, <2>2
<1>11. AttemptsFailed'
    <2> SUFFICES ASSUME NEW m \in Msg
                 PROVE  /\ \/ log'[m].failed >= MAX_ATTEMPTS
                           \/ row'[m].attempts + Cardinality(FailedOn(m)') <= log'[m].failed
                        /\ \A u \in Worker : worker'[u].seen[m] <= row'[m].attempts
        BY DEF AttemptsFailed
    <2>1. \A u \in Worker : worker'[u].seen[m] <= row'[m].attempts
        BY <1>0, <1>1, <1>4 DEF DropInv, AttemptsFailed
    <2>2. \/ log[m].failed >= MAX_ATTEMPTS
          \/ row[m].attempts + Cardinality(FailedOn(m)) <= log[m].failed
        BY DEF DropInv, AttemptsFailed
    <2>3. /\ log[m].failed \in Int /\ row[m].attempts \in Int /\ MAX_ATTEMPTS \in Int
          /\ Cardinality(FailedOn(m)) \in Nat
        BY <1>0, FailedOnType, OutboxAssumption DEF LogKind, RowKind
    <2>4. CASE m = c /\ answer = "FAILED"
        <3>1. FailedOn(m)' = FailedOn(m) \cup {w} /\ w \notin FailedOn(m)
            BY <1>3, <1>5, <1>9, <2>4 DEF FailedOn
        <3>2. Cardinality(FailedOn(m)') = Cardinality(FailedOn(m)) + 1
            BY <3>1, FailedOnType, FS_AddElement
        <3> HIDE DEF FailedOn
        <3> QED
            BY <1>1, <1>8, <2>1, <2>2, <2>3, <2>4, <3>2
    <2>5. CASE ~(m = c /\ answer = "FAILED")
        <3>1. FailedOn(m)' = FailedOn(m)
            BY <1>3, <1>5, <1>9, <2>5 DEF FailedOn
        <3>2. log'[m].failed = log[m].failed
            BY <1>6, <1>8, <2>5
        <3> QED
            BY <1>1, <2>1, <2>2, <3>1, <3>2
    <2> QED
        BY <2>4, <2>5
<1>12. DroppedForCause'
    <2>1. \A m \in Msg : log[m].failed >= MAX_ATTEMPTS => log'[m].failed >= MAX_ATTEMPTS
        BY <1>0, <1>2, <1>6, <1>8, OutboxAssumption DEF LogKind
    <2> QED
        BY <1>1, <1>6, <2>1 DEF DropInv, DroppedForCause
<1> QED
    BY <1>10, <1>11, <1>12

LEMMA DeliverDrops ==
    ASSUME DropInv, NEW w \in Worker, deliver(w)
    PROVE  AnswersKnown' /\ AttemptsFailed' /\ DroppedForCause'
<1> DEFINE c == Current(w)
           answer == worker[w].answer
           counted == IF counts(answer) THEN 1 ELSE 0
<1>0. TypeInv /\ worker \in [Worker -> WorkerKind] /\ row \in [Msg -> RowKind]
      /\ log \in [Msg -> LogKind]
    BY DEF DropInv, TypeInv, TypeOK, WorkerKind, RowKind
<1>1. /\ worker' = [worker EXCEPT ![w] = Rest(w, c)] /\ log' = log
      /\ worker[w].at = "ANSWERED"
    BY DEF deliver
<1>2. c \in Msg
    BY <1>0, <1>1, CurrentInBatch DEF TypeInv, TypeOK
<1>3. /\ worker'[w] = Rest(w, c)
      /\ \A u \in Worker \ {w} : worker'[u] = worker[u]
      /\ \A u \in Worker \ {w} : \A m, a : Pending(u, m, a)' <=> Pending(u, m, a)
      /\ \A m, a : ~Pending(w, m, a)'
    <2>1. Rest(w, c).at # "ANSWERED"
        BY <1>0, RestType
    <2> QED
        BY <1>0, <1>1, <2>1, OneWorkerActs
<1>4. Pending(w, c, answer)
    BY <1>1 DEF Pending
<1>5. \A m \in Msg \ {c} : row'[m] = row[m]
    BY <1>0, <1>2 DEF deliver, RowKind
<1>6. \/ /\ Finished(answer, worker[w].seen[c])
         /\ row'[c].attempts = row[c].attempts
      \/ /\ row'[c].at # "GONE"
         /\ row'[c].attempts = row[c].attempts + counted
    <2>1. CASE Finished(answer, worker[w].seen[c])
        BY <1>0, <1>2, <2>1 DEF deliver, RowKind
    <2>2. CASE ~Finished(answer, worker[w].seen[c])
        <3>1. PICK t : row' = [row EXCEPT ![c].wait = t, ![c].attempts = @ + counted]
            BY <2>2 DEF deliver
        <3>2. row[c].at = "QUEUED"
            BY DEF deliver
        <3> HIDE DEF c, counted
        <3> QED
            BY <1>0, <1>2, <3>1, <3>2 DEF RowKind
    <2> QED
        BY <2>1, <2>2
<1>7. counted = (IF answer = "FAILED" THEN 1 ELSE 0)
    BY DEF counts
<1>8. \A m, a : Pending(w, m, a) <=> (m = c /\ a = answer)
    BY <1>1 DEF Pending
<1> HIDE DEF c, answer, counted
<1>9. AnswersKnown'
    <2>1. \A u \in Worker, m \in Msg : \A a : Pending(u, m, a)' => Pending(u, m, a)
        BY <1>3
    <2> QED
        BY <1>1, <2>1, AnswersKept DEF DropInv
<1>10. ASSUME NEW m \in Msg
       PROVE  /\ \/ log[m].failed >= MAX_ATTEMPTS
                 \/ row[m].attempts + Cardinality(FailedOn(m)) <= log[m].failed
              /\ \A u \in Worker : worker[u].seen[m] <= row[m].attempts
              /\ log[m].failed \in Int /\ row[m].attempts \in Nat /\ MAX_ATTEMPTS \in Int
              /\ Cardinality(FailedOn(m)) \in Nat /\ Cardinality(FailedOn(m)') \in Nat
              /\ \A u \in Worker : worker[u].seen[m] \in Nat
    <2>1. \A u \in Worker : worker[u].seen \in [Msg -> Nat]
        BY <1>0 DEF WorkerKind
    <2>2. FailedOn(m)' \subseteq FailedOn(m)
        BY <1>3 DEF FailedOn
    <2>3. Cardinality(FailedOn(m)') \in Nat
        BY <2>2, FailedOnType, FS_Subset, FS_CardinalityType
    <2> QED
        BY <1>0, <2>1, <2>3, FailedOnType, OutboxAssumption
           DEF DropInv, AttemptsFailed, LogKind, RowKind
<1>11. ASSUME NEW m \in Msg, m = c, answer = "FAILED"
       PROVE  /\ Cardinality(FailedOn(m)') = Cardinality(FailedOn(m)) - 1
              /\ Cardinality(FailedOn(m)) >= 1
    <2>1. w \in FailedOn(m)
        BY <1>4, <1>11 DEF FailedOn
    <2>2. FailedOn(m)' = FailedOn(m) \ {w}
        BY <1>3 DEF FailedOn
    <2>3. Cardinality(FailedOn(m)') = Cardinality(FailedOn(m)) - 1
        BY <2>1, <2>2, FailedOnType, FS_RemoveElement
    <2>4. Cardinality(FailedOn(m)') \in Nat /\ Cardinality(FailedOn(m)) \in Nat
        BY <1>10
    <2> QED
        BY <2>3, <2>4
<1>12. \A m \in Msg : m # c \/ answer # "FAILED" => FailedOn(m)' = FailedOn(m)
    BY <1>3, <1>8 DEF FailedOn
<1>13. AttemptsFailed'
    <2> SUFFICES ASSUME NEW m \in Msg
                 PROVE  /\ \/ log'[m].failed >= MAX_ATTEMPTS
                           \/ row'[m].attempts + Cardinality(FailedOn(m)') <= log'[m].failed
                        /\ \A u \in Worker : worker'[u].seen[m] <= row'[m].attempts
        BY DEF AttemptsFailed
    <2>1. row'[m].attempts \in {row[m].attempts, row[m].attempts + counted}
          /\ (m # c => row'[m].attempts = row[m].attempts)
        BY <1>5, <1>6
    <2>2. row'[m].attempts >= row[m].attempts
        BY <1>7, <1>10, <2>1
    <2>3. \A u \in Worker : worker'[u].seen[m] <= row[m].attempts
        <3>1. Rest(w, c).seen \in {worker[w].seen, [n \in Msg |-> 0]}
            BY <1>0, RestType
        <3>2. Rest(w, c).seen[m] <= row[m].attempts
            BY <3>1, ForgetsOrKeeps
        <3> QED
            BY <1>3, <1>10, <3>2
    <2>4. \A u \in Worker : worker'[u].seen[m] \in Nat
        <3>1. \A u \in Worker : worker'[u].seen \in [Msg -> Nat]
            BY <1>0, <1>3, RestType DEF WorkerKind
        <3> QED
            BY <3>1
    <2>5. \A u \in Worker : worker'[u].seen[m] <= row'[m].attempts
        <3>1. row'[m].attempts \in Nat
            BY <1>7, <1>10, <2>1
        <3> QED
            BY <1>10, <2>2, <2>3, <2>4, <3>1
    <2>6. \/ log'[m].failed >= MAX_ATTEMPTS
          \/ row'[m].attempts + Cardinality(FailedOn(m)') <= log'[m].failed
        <3>1. CASE m = c /\ answer = "FAILED"
            <4>1. counted = 1
                BY <1>7, <3>1
            <4>2. /\ Cardinality(FailedOn(m)') = Cardinality(FailedOn(m)) - 1
                  /\ Cardinality(FailedOn(m)) \in Nat
                BY <1>10, <1>11, <3>1
            <4>3. row'[m].attempts <= row[m].attempts + 1 /\ row'[m].attempts \in Nat
                  /\ row[m].attempts \in Nat
                BY <1>10, <2>1, <4>1
            <4> DEFINE n == Cardinality(FailedOn(m))
                       k == Cardinality(FailedOn(m)')
            <4> HIDE DEF n, k
            <4>4. \/ log[m].failed >= MAX_ATTEMPTS
                  \/ row[m].attempts + n <= log[m].failed
                BY <1>10 DEF n
            <4>5. k = n - 1 /\ n \in Nat
                BY <4>2 DEF n, k
            <4>6. \/ log'[m].failed >= MAX_ATTEMPTS
                  \/ row'[m].attempts + k <= log'[m].failed
                <5>1. log'[m].failed = log[m].failed /\ log[m].failed \in Int
                    BY <1>1, <1>10
                <5> QED
                    BY <4>3, <4>4, <4>5, <5>1
            <4> QED
                BY <4>6 DEF k
        <3>2. CASE ~(m = c /\ answer = "FAILED")
            BY <1>1, <1>7, <1>10, <1>12, <2>1, <3>2
        <3> QED
            BY <3>1, <3>2
    <2> QED
        BY <2>5, <2>6
<1>14. DroppedForCause'
    <2> SUFFICES ASSUME NEW m \in Msg, row'[m].at = "GONE"
                 PROVE  log[m].reached \/ log[m].answered \/ log[m].failed >= MAX_ATTEMPTS
        BY <1>1 DEF DroppedForCause
    <2>1. CASE m # c
        BY <1>5, <2>1 DEF DropInv, DroppedForCause
    <2>2. CASE m = c
        <3>1. Finished(answer, worker[w].seen[c])
            BY <1>6, <2>2
        <3>2. CASE answer \in {"OK", "REFUSED"}
            BY <1>2, <1>4, <2>2, <3>2 DEF DropInv, AnswersKnown
        <3>3. CASE answer = "FAILED" /\ worker[w].seen[c] + 1 >= MAX_ATTEMPTS
            BY <1>2, <1>10, <1>11, <2>2, <3>3
        <3> QED
            BY <3>1, <3>2, <3>3 DEF Finished, counts
    <2> QED
        BY <2>1, <2>2
<1> QED
    BY <1>9, <1>13, <1>14

LEMMA DeleteBannedDrops ==
    ASSUME DropInv, NEW w \in Worker, DeleteBanned(w)
    PROVE  AnswersKnown' /\ AttemptsFailed' /\ DroppedForCause'
<1> DEFINE c == Current(w)
<1>0. TypeInv /\ AnswersKnown /\ AttemptsFailed /\ DroppedForCause
      /\ row \in [Msg -> RowKind] /\ log \in [Msg -> LogKind]
    BY DEF DropInv, TypeInv, TypeOK, RowKind
<1>1. /\ row' = [row EXCEPT ![c].at = "GONE"]
      /\ log' = [log EXCEPT ![c].answered = TRUE]
      /\ worker' = [worker EXCEPT ![w] = Rest(w, c)]
      /\ worker[w].at = "LOOP"
    BY DEF DeleteBanned, Looping
<1>2. c \in Msg
    BY <1>0, <1>1, CurrentInBatch DEF TypeInv, TypeOK
<1>3. Rest(w, c).at # "ANSWERED" /\ Rest(w, c).seen \in {worker[w].seen, [n \in Msg |-> 0]}
    BY <1>0, RestType
<1>4. \A m \in Msg : /\ row'[m].attempts = row[m].attempts
                     /\ log'[m].failed = log[m].failed
                     /\ log[m].reached => log'[m].reached
                     /\ log[m].answered => log'[m].answered
                     /\ m # c => row'[m] = row[m]
                     /\ log'[c].answered
    BY <1>0, <1>1, <1>2 DEF RowKind, LogKind
<1> HIDE DEF c
<1>5. /\ worker'[w] = Rest(w, c)
      /\ \A u \in Worker \ {w} : worker'[u] = worker[u]
      /\ \A u \in Worker : \A m, a : Pending(u, m, a)' => Pending(u, m, a)
    BY <1>0, <1>1, <1>3, OneWorkerActs
<1>6. \A m \in Msg : Rest(w, c).seen[m] <= row[m].attempts
    BY <1>3, ForgetsOrKeeps
<1>7. AttemptsFailed'
    <2>1. \A u \in Worker, m \in Msg : worker'[u].seen[m] <= row[m].attempts
        BY <1>0, <1>5, <1>6 DEF AttemptsFailed
    <2> QED
        BY <1>0, <1>4, <1>5, <2>1, AttemptsKept
<1>8. AnswersKnown'
    BY <1>0, <1>4, <1>5, AnswersKept
<1>9. DroppedForCause'
    BY <1>0, <1>4 DEF DroppedForCause
<1> QED
    BY <1>7, <1>8, <1>9

\* Steps after which every worker has the answer and the memory it had.
LEMMA IdleStepDrops ==
    ASSUME DropInv,
           \A u \in Worker : /\ worker'[u].at = worker[u].at
                             /\ worker'[u].answer = worker[u].answer
                             /\ worker'[u].batch = worker[u].batch
                             /\ worker'[u].seen = worker[u].seen,
           \A m \in Msg : /\ row'[m].attempts = row[m].attempts
                          /\ row'[m].at = "GONE" => row[m].at = "GONE"
                          /\ log'[m].failed = log[m].failed
                          /\ log'[m].reached = log[m].reached
                          /\ log'[m].answered = log[m].answered
    PROVE  AnswersKnown' /\ AttemptsFailed' /\ DroppedForCause'
<1>0. TypeInv /\ AnswersKnown /\ AttemptsFailed /\ DroppedForCause
    BY DEF DropInv
<1>1. \A u \in Worker : \A m, a : Pending(u, m, a)' <=> Pending(u, m, a)
    BY SameAnswers
<1>2. \A u \in Worker, m \in Msg : worker'[u].seen[m] <= row[m].attempts
    BY <1>0 DEF AttemptsFailed
<1>3. AttemptsFailed'
    BY <1>0, <1>1, <1>2, AttemptsKept
<1>4. AnswersKnown' /\ DroppedForCause'
    BY <1>0, <1>1, AnswersKept, DroppedKept
<1> QED
    BY <1>3, <1>4

LEMMA DropStep == DropInv /\ [Next]_vars => DropInv'
<1> SUFFICES ASSUME DropInv, [Next]_vars
             PROVE  AnswersKnown' /\ AttemptsFailed' /\ DroppedForCause'
    BY TypeStep DEF DropInv
<1>0. TypeInv /\ worker \in [Worker -> WorkerKind] /\ row \in [Msg -> RowKind]
      /\ log \in [Msg -> LogKind]
    BY DEF DropInv, TypeInv, TypeOK, WorkerKind, RowKind
<1>1. ASSUME NEW w \in Worker, TakeBatch(w)
      PROVE  AnswersKnown' /\ AttemptsFailed' /\ DroppedForCause'
    <2> DEFINE read == [m \in Msg |-> row[m].attempts]
               took(b) == [Idle EXCEPT !.at = "TAKEN", !.batch = b, !.seen = read]
    <2>1. PICK b \in Batches :
            /\ row' = [m \in Msg |-> IF m \in b THEN takenRow(m) ELSE row[m]]
            /\ worker' = [worker EXCEPT ![w] = took(b)]
            /\ log' = log
        BY <1>1 DEF TakeBatch
    <2>2. \A m \in Msg : row'[m].at = row[m].at /\ row'[m].attempts = row[m].attempts
        BY <1>0, <2>1 DEF takenRow, RowKind
    <2>3. \A m \in Msg : read[m] <= row[m].attempts
        BY <1>0 DEF RowKind
    <2> HIDE DEF read
    <2>4. took(b).at = "TAKEN" /\ took(b).seen = read
        BY <1>0, LetGoTypes DEF WorkerKind
    <2> HIDE DEF took
    <2> QED
        BY <2>1, <2>2, <2>3, <2>4, QuietStepDrops
<1>2. ASSUME NEW w \in Worker, ReadBans(w)
      PROVE  AnswersKnown' /\ AttemptsFailed' /\ DroppedForCause'
    <2>1. /\ worker'[w].seen = worker[w].seen /\ worker'[w].at = "LOOP"
          /\ worker' = [worker EXCEPT ![w] = worker'[w]]
          /\ row' = row /\ log' = log
        BY <1>0, <1>2 DEF ReadBans, WorkerKind
    <2>2. \A m \in Msg : worker'[w].seen[m] <= row[m].attempts
        BY <2>1 DEF DropInv, AttemptsFailed
    <2> DEFINE v == worker'[w]
    <2>3. PICK x : x = v
        OBVIOUS
    <2> HIDE DEF v
    <2>4. /\ worker' = [worker EXCEPT ![w] = x] /\ x.at # "ANSWERED"
          /\ \A m \in Msg : x.seen[m] <= row[m].attempts
        BY <2>1, <2>2, <2>3 DEF v
    <2> QED
        BY <2>1, <2>4, QuietStepDrops
<1>3. ASSUME NEW w \in Worker, DeleteBanned(w)
      PROVE  AnswersKnown' /\ AttemptsFailed' /\ DroppedForCause'
    BY <1>3, DeleteBannedDrops
<1>4. ASSUME NEW w \in Worker, NEW answer \in Answers \ {"NONE"}, NEW reached \in BOOLEAN,
             Send(w, answer, reached)
      PROVE  AnswersKnown' /\ AttemptsFailed' /\ DroppedForCause'
    BY <1>4, SendDrops
<1>5. ASSUME NEW w \in Worker, deliver(w)
      PROVE  AnswersKnown' /\ AttemptsFailed' /\ DroppedForCause'
    BY <1>5, DeliverDrops
<1>6. ASSUME NEW w \in Worker
      PROVE  \A m \in Msg : /\ Unsettled(w)[m].failed = log[m].failed
                            /\ Unsettled(w)[m].reached = log[m].reached
                            /\ Unsettled(w)[m].answered = log[m].answered
    BY <1>0 DEF Unsettled, LogKind
<1>7. ASSUME NEW w \in Worker, RowGone(w) \/ DatabaseFails(w)
      PROVE  AnswersKnown' /\ AttemptsFailed' /\ DroppedForCause'
    <2>1. /\ worker' = [worker EXCEPT ![w] = GiveUpBatch(w)] /\ row' = row
          /\ log' \in {log, Unsettled(w)}
        BY <1>7 DEF RowGone, DatabaseFails
    <2>2. /\ GiveUpBatch(w).at # "ANSWERED"
          /\ \A m \in Msg : GiveUpBatch(w).seen[m] <= row[m].attempts
        BY <1>0, GiveUpType, ForgetsOrKeeps
    <2> QED
        BY <1>6, <2>1, <2>2, QuietStepDrops
<1>8. ASSUME NEW w \in Worker, Exit(w) \/ Crash(w) \/ onApplicationBootstrap(w)
      PROVE  AnswersKnown' /\ AttemptsFailed' /\ DroppedForCause'
    <2>1. PICK v \in {Down, Idle} :
            /\ worker' = [worker EXCEPT ![w] = v] /\ row' = row
            /\ log' \in {log, Unsettled(w)}
        BY <1>8 DEF Exit, Crash, onApplicationBootstrap
    <2>2. /\ v.at # "ANSWERED"
          /\ \A m \in Msg : v.seen[m] <= row[m].attempts
        BY <1>0, LetGoTypes, ForgetsOrKeeps
    <2> QED
        BY <1>6, <2>1, <2>2, QuietStepDrops
<1>9. ASSUME NEW w \in Worker, onApplicationShutdown(w)
      PROVE  AnswersKnown' /\ AttemptsFailed' /\ DroppedForCause'
    BY <1>0, <1>9, IdleStepDrops DEF onApplicationShutdown, WorkerKind
<1>10. ASSUME NEW to \in SUBSET Msg, Queued(to)
       PROVE  AnswersKnown' /\ AttemptsFailed' /\ DroppedForCause'
    BY <1>0, <1>10, QueuedRows, IdleStepDrops DEF Queued
<1>11. ASSUME NEW c \in Chat, Ban(c)
       PROVE  AnswersKnown' /\ AttemptsFailed' /\ DroppedForCause'
    BY <1>11, IdleStepDrops DEF Ban
<1>12. CASE Tick
    <2>1. ASSUME NEW u \in Worker
          PROVE  /\ worker'[u].at = worker[u].at /\ worker'[u].answer = worker[u].answer
                 /\ worker'[u].batch = worker[u].batch /\ worker'[u].seen = worker[u].seen
        BY <1>0, <1>12 DEF Tick, WorkerKind
    <2>2. ASSUME NEW m \in Msg
          PROVE  /\ row'[m].attempts = row[m].attempts /\ row'[m].at = row[m].at
                 /\ log'[m].failed = log[m].failed /\ log'[m].reached = log[m].reached
                 /\ log'[m].answered = log[m].answered
        BY <1>0, <1>12 DEF Tick, RowKind, LogKind
    <2> QED
        BY <2>1, <2>2, IdleStepDrops
<1>13. CASE UNCHANGED vars
    BY <1>13, IdleStepDrops DEF vars
<1> QED
    BY <1>1, <1>2, <1>3, <1>4, <1>5, <1>7, <1>8, <1>9, <1>10, <1>11, <1>12, <1>13,
       <1>0, RowsQueued DEF Next, Work, Environment

\* No message is given up while it could still be sent: for any number of workers, also
\* those that share a row after a lease has ended, floods and what another worker did
\* never use up its attempts.
THEOREM NeverDroppedEarly == Spec => []DroppedForCause
<1>1. DropInv => DroppedForCause
    BY DEF DropInv
<1> QED
    BY DropInit, DropStep, <1>1, PTL DEF Spec

=============================================================================
