--------------------------- MODULE Moderator_proofs ---------------------------
(***************************************************************************)
(* Theorems about Moderator for any moderators, objects, reports, edits    *)
(* and reviews, and any number of requests that break off: the decisions   *)
(* at the queue (Desk), the decisions on reports (Reports) and the pages   *)
(* of the lists (Lists).                                                   *)
(***************************************************************************)
EXTENDS Moderator, FiniteSetTheorems, SequenceTheorems, TLAPS

-----------------------------------------------------------------------------
(* Decisions at the queue: what is proved of every state *)

\* The fields of a request; what its screen showed may be anything.
IsRequest(r) ==
    /\ r = [at |-> r.at, what |-> r.what, shown |-> r.shown, ver |-> r.ver, from |-> r.from]
    /\ r.at \in {"idle", "sent", "committed", "first", "ok", "error"}

Rows == [at : D!Place, ver : Nat]

QueueTypes ==
    /\ item \in [Item -> Rows]
    /\ req = [m \in Moderators |-> [i \in Item |-> req[m][i]]]
    /\ \A m \in Moderators, i \in Item :
        /\ IsRequest(req[m][i])
        /\ KindOf[i] = "review" /\ req[m][i].at # "idle" =>
                req[m][i].what \in {"approve", "reject"}

Checked(what) == what \in {"approve", "reject"}

\* What a decision on the version an object still has leaves of its waiting.
Leaves(d) ==
    LET at == item[d.item].at
        k == KindOf[d.item]
    IN  /\ k \in {"order", "payout", "review"} \/ Checked(d.what) => at # "queued"
        /\ k = "video" /\ ~Checked(d.what) => at = "out"
        /\ k = "review" /\ at = "out" => d.what = "approve" /\ d.from = "queued"

DecisionsLast ==
    \A d \in decided :
        /\ d.item \in Item /\ d.ver \in Nat /\ d.ver <= item[d.item].ver
        /\ d.ver = item[d.item].ver => Leaves(d)
        /\ KindOf[d.item] = "review" => Checked(d.what)

DecisionInv == QueueTypes /\ DecisionsLast /\ OneDecision /\ DecidedAsShown

-----------------------------------------------------------------------------
(* The journal and the messages: what is proved of every state *)

Settled(d) ==
    /\ d \in journal
    /\ d \in told \/ (KindOf[d.item] = "review" /\ d.what = "reject")

\* The request that made the decision goes on with what follows it.
UnderWay(d) ==
    LET r == req[d.by][d.item] IN
    /\ r.at \in {"committed", "first"} /\ D!Decision(d.by, d.item) = d
    /\ r.at = "first" => IF KindOf[d.item] = "review" THEN d \in told ELSE d \in journal

MadeBySomebody ==
    \A d \in decided : d.item \in Item /\ d.by \in Moderators \cup {D!Timer}

SettledOrUnderWay ==
    \A d \in decided \ lost : d.by # D!Timer => Settled(d) \/ UnderWay(d)

\* Of all but a review the journal knows first.
LoggedFirst ==
    /\ \A m \in Moderators, i \in Item :
        req[m][i].at = "first" /\ KindOf[i] # "review" => D!Decision(m, i) \in journal
    /\ \A d \in told \ journal : KindOf[d.item] = "review"

AnnouncedInv == MadeBySomebody /\ SettledOrUnderWay /\ LoggedFirst

-----------------------------------------------------------------------------
(* Decisions on reports: what is proved of every state *)

\* The requests that have taken the measure and not yet told of it.
After == {"ban", "log", "logBan", "tell"}

IsResolving(r) ==
    /\ r = [op |-> r.op, on |-> r.on, actioned |-> r.actioned, ban |-> r.ban, at |-> r.at,
            toBan |-> r.toBan, seen |-> r.seen, marked |-> r.marked, closed |-> r.closed,
            didBan |-> r.didBan]
    /\ r.at \in {"idle", "author", "find", "mark", "measure"} \cup After
    /\ r.at \in {"author", "find", "mark", "measure", "logBan", "tell"} => r.op = "resolve"
    /\ r.op = "resolve" => r.on \in Object

RowAt == {"NONE", "OPEN", "ACTIONED", "DISMISSED"}
Decided(k) == row[k] \in {"ACTIONED", "DISMISSED"}

ReportTypes ==
    /\ row \in [R!Report -> RowAt]
    /\ by = [k \in R!Report |-> by[k]]
    /\ resolving = [m \in Moderators |-> resolving[m]]
    /\ \A m \in Moderators : IsResolving(resolving[m])
    /\ \A t \in taken : t[2] \in Object
    /\ \A t \in toldReporters : t.to \in R!Report /\ t.what \in {"ACTIONED", "DISMISSED"}

\* What a request has found and marked is there until it commits, and is nobody else's.
Marks ==
    /\ \A m \in Moderators :
        LET r == resolving[m] IN
        /\ r.op = "resolve" => r.seen \subseteq R!On(r.on)
        /\ r.at = "mark" => \A k \in r.seen : row[k] # "NONE"
        /\ r.at = "measure" => r.marked # {} /\ \A k \in r.seen \ r.marked : Decided(k)
        /\ r.at # "measure" => r.marked = {}
        /\ r.marked \subseteq r.seen /\ \A k \in r.marked : row[k] = "OPEN"
    /\ \A m, n \in Moderators : m # n => resolving[m].marked \cap resolving[n].marked = {}

\* A request that is to tell the reporters has decided on the object, and on all it found.
ToBeTold ==
    \A m \in Moderators :
        LET r == resolving[m] IN
        r.op = "resolve" /\ r.at \in After =>
            /\ \A k \in r.seen : Decided(k)
            /\ \E k \in R!On(r.on) : by[k] = m /\ row[k] = R!decision(m)

ReportInv == ReportTypes /\ Marks /\ MeasureForReports /\ ToBeTold /\ ToldOfADecision

-----------------------------------------------------------------------------
(* Steps at the queue *)

QueueRows == <<item, req, decided, journal, told, lost>>

\* A request of m for i is v now.
Becomes(m, i, v) ==
    /\ IsRequest(v)
    /\ KindOf[i] = "review" /\ v.at # "idle" => Checked(v.what)
    /\ req' = [req EXCEPT ![m][i] = v]

LEMMA RequestBecomes ==
    ASSUME QueueTypes, NEW m \in Moderators, NEW i \in Item, NEW v, Becomes(m, i, v),
           item' \in [Item -> Rows]
    PROVE  /\ QueueTypes'
           /\ req'[m][i] = v
           /\ \A n \in Moderators, j \in Item : n # m \/ j # i => req'[n][j] = req[n][j]
<1>1. /\ req = [n \in Moderators |-> [j \in Item |-> req[n][j]]]
      /\ \A n \in Moderators : req[n] = [j \in Item |-> req[n][j]]
    BY DEF QueueTypes
<1>2. req' = [n \in Moderators |-> IF n = m THEN [req[m] EXCEPT ![i] = v] ELSE req[n]]
    BY <1>1 DEF Becomes
<1>3. req'[m] = [j \in Item |-> IF j = i THEN v ELSE req[m][j]]
    BY <1>1, <1>2
<1>4. \A n \in Moderators : n # m => req'[n] = req[n]
    BY <1>2
<1>5. /\ req'[m][i] = v
      /\ \A n \in Moderators, j \in Item : n # m \/ j # i => req'[n][j] = req[n][j]
    BY <1>3, <1>4
<1>6. \A n \in Moderators : req'[n] = [j \in Item |-> req'[n][j]]
    BY <1>1, <1>3, <1>4
<1>7. req' = [n \in Moderators |-> [j \in Item |-> req'[n][j]]]
    BY <1>2, <1>6
<1>8. ASSUME NEW n \in Moderators, NEW j \in Item
      PROVE  /\ IsRequest(req'[n][j])
             /\ KindOf[j] = "review" /\ req'[n][j].at # "idle" => Checked(req'[n][j].what)
    <2>1. CASE n = m /\ j = i
        BY <1>5, <2>1 DEF Becomes
    <2>2. CASE n # m \/ j # i
        BY <1>5, <2>2 DEF QueueTypes, Checked
    <2> QED
        BY <2>1, <2>2
<1> QED
    BY <1>5, <1>7, <1>8 DEF QueueTypes, IsRequest, Checked

\* A request that was sent changes its place and nothing else.
Goes(m, i, a) == req' = [req EXCEPT ![m][i].at = a]

LEMMA PlaceBecomes ==
    ASSUME QueueTypes, NEW m \in Moderators, NEW i \in Item,
           NEW a \in {"committed", "first", "ok", "error"},
           req[m][i].at # "idle", Goes(m, i, a)
    PROVE  \E v : /\ Becomes(m, i, v)
                  /\ v.at = a /\ v.what = req[m][i].what /\ v.shown = req[m][i].shown
                  /\ v.ver = req[m][i].ver /\ v.from = req[m][i].from
<1> SUFFICES ASSUME NEW r, r = req[m][i], NEW v, v = [r EXCEPT !.at = a]
             PROVE  /\ Becomes(m, i, v)
                    /\ v.at = a /\ v.what = r.what /\ v.shown = r.shown
                    /\ v.ver = r.ver /\ v.from = r.from
    OBVIOUS
<1>1. IsRequest(r) /\ (KindOf[i] = "review" => Checked(r.what))
    BY DEF QueueTypes, Checked
<1>2. v = [at |-> a, what |-> r.what, shown |-> r.shown, ver |-> r.ver, from |-> r.from]
    BY <1>1 DEF IsRequest
<1>3. req' = [req EXCEPT ![m][i] = v]
    BY DEF Goes
<1> QED
    BY <1>1, <1>2, <1>3 DEF Becomes, IsRequest

\* What happens at the queue: the screens alone, the rows alone, or one request.
Sends(m, i) ==
    /\ \E what, ver :
        /\ KindOf[i] = "review" => Checked(what)
        /\ req' = [req EXCEPT ![m][i] =
                        [D!Idle EXCEPT !.at = "sent", !.what = what, !.shown = ver]]
    /\ req[m][i] = D!Idle
    /\ UNCHANGED <<item, decided, journal, told, lost>>

Returns(m, i) ==
    /\ req[m][i].at \in {"ok", "error"}
    /\ req' = [req EXCEPT ![m][i] = D!Idle]
    /\ UNCHANGED <<item, decided, journal, told, lost>>

LEMMA QueueSteps ==
    ASSUME D!Next
    PROVE  \/ UNCHANGED QueueRows
           \/ \E i \in Item : D!Edit(i) \/ D!Rate(i) \/ D!HoldEnds(i) \/ D!finalizeAutomatic(i)
           \/ \E m \in Moderators, i \in Item :
                \/ Sends(m, i) \/ Returns(m, i)
                \/ D!Commits(m, i) \/ D!Refused(m, i)
                \/ D!Logs(m, i) \/ D!Tells(m, i) \/ D!Fails(m, i)
<1> DEFINE Goal == \/ UNCHANGED QueueRows
                   \/ \E i \in Item : \/ D!Edit(i) \/ D!Rate(i) \/ D!HoldEnds(i)
                                      \/ D!finalizeAutomatic(i)
                   \/ \E m \in Moderators, i \in Item :
                        \/ Sends(m, i) \/ Returns(m, i)
                        \/ D!Commits(m, i) \/ D!Refused(m, i)
                        \/ D!Logs(m, i) \/ D!Tells(m, i) \/ D!Fails(m, i)
<1>1. ASSUME NEW m \in Moderators,
             \/ D!Arrives(m) \/ D!CardLoads(m) \/ D!Back(m)
             \/ \E t \in D!Tab : D!setTab(m, t)
             \/ \E i \in Item : D!Choose(m, i)
      PROVE  UNCHANGED QueueRows
    BY <1>1 DEF D!Arrives, D!CardLoads, D!Back, D!setTab, D!Choose, D!records, QueueRows
<1>2. ASSUME NEW m \in Moderators, NEW i \in Item, D!Answer(m, i)
      PROVE  Returns(m, i)
    BY <1>2 DEF D!Answer, D!Succeeds, D!Errs, D!Answered, D!At, D!records, Returns
<1>3. ASSUME NEW m \in Moderators, NEW i \in Item, NEW what,
             \/ D!decideVideo(m, i, what) \/ D!decideOrder(m, i, what)
             \/ D!decideReview(m, i, what) \/ D!decidePayout(m, i, what)
      PROVE  Sends(m, i)
    <2>1. KindOf[i] = "review" => Checked(what)
        BY <1>3 DEF D!decideVideo, D!decideOrder, D!decideReview, D!decidePayout,
                    D!offersReview, Checked
    <2>2. \E ver : D!send(m, i, what, ver)
        BY <1>3 DEF D!decideVideo, D!decideOrder, D!decideReview, D!decidePayout
    <2> QED
        BY <2>1, <2>2 DEF D!send, D!busy, D!records, Sends
<1> QED
    BY <1>1, <1>2, <1>3 DEF D!Next, D!Serve

Sent(r, what, ver) == [r EXCEPT !.at = "sent", !.what = what, !.shown = ver]

LEMMA SentRequest ==
    ASSUME NEW r, IsRequest(r), NEW what, NEW ver
    PROVE  /\ IsRequest(Sent(r, what, ver))
           /\ Sent(r, what, ver).at = "sent" /\ Sent(r, what, ver).what = what
<1> SUFFICES ASSUME NEW v, v = [r EXCEPT !.at = "sent", !.what = what, !.shown = ver]
             PROVE  IsRequest(v) /\ v.at = "sent" /\ v.what = what
    BY DEF Sent
<1>1. v = [at |-> "sent", what |-> what, shown |-> ver, ver |-> r.ver, from |-> r.from]
    BY DEF IsRequest
<1> QED
    BY <1>1 DEF IsRequest

\* What a request has become, by handler.
LEMMA RequestSteps ==
    ASSUME QueueTypes, NEW m \in Moderators, NEW i \in Item,
           \/ Sends(m, i) \/ Returns(m, i) \/ D!Refused(m, i)
           \/ D!Logs(m, i) \/ D!Tells(m, i) \/ D!Fails(m, i)
    PROVE  /\ \E v : Becomes(m, i, v)
           /\ item' = item /\ decided' = decided
<1>1. CASE Sends(m, i)
    <2>1. PICK what, ver :
            /\ KindOf[i] = "review" => Checked(what)
            /\ req' = [req EXCEPT ![m][i] = Sent(D!Idle, what, ver)]
        BY <1>1 DEF Sends, Sent
    <2>2. IsRequest(D!Idle)
        BY DEF IsRequest, D!Idle
    <2>3. Becomes(m, i, Sent(D!Idle, what, ver))
        BY <2>1, <2>2, SentRequest DEF Becomes
    <2> QED
        BY <1>1, <2>3 DEF Sends
<1>2. CASE Returns(m, i)
    <2>1. Becomes(m, i, D!Idle)
        BY <1>2 DEF Returns, Becomes, IsRequest, D!Idle
    <2> QED
        BY <1>2, <2>1 DEF Returns
<1>3. CASE D!Refused(m, i)
    BY <1>3, PlaceBecomes DEF Goes, D!Refused, D!At, D!records
<1>4. ASSUME NEW step, NEW n \in 1..2, D!Does(m, i, step, n)
      PROVE  \E v : Becomes(m, i, v)
    <2>1. req[m][i].at # "idle"
        <3>1. req[m][i].at = <<"committed", "first">>[n]
            BY <1>4 DEF D!Does, D!At
        <3>2. n = 1 \/ n = 2
            OBVIOUS
        <3> QED
            BY <3>1, <3>2
    <2>2. PICK a \in {"committed", "first", "ok", "error"} : Goes(m, i, a)
        BY <1>4 DEF D!Does, Goes
    <2>3. \E v : Becomes(m, i, v)
        BY <2>1, <2>2, PlaceBecomes
    <2> QED
        BY <2>3
<1>5. CASE D!Logs(m, i)
    <2>1. item' = item /\ decided' = decided
        BY <1>5 DEF D!Logs, D!Does
    <2> QED
        BY <1>4, <1>5, <2>1 DEF D!Logs
<1>6. CASE D!Tells(m, i)
    <2>1. item' = item /\ decided' = decided
        BY <1>6 DEF D!Tells, D!Does
    <2> QED
        BY <1>4, <1>6, <2>1 DEF D!Tells
<1>7. CASE D!Fails(m, i)
    BY <1>7, PlaceBecomes DEF Goes, D!Fails
<1> QED
    BY <1>1, <1>2, <1>3, <1>5, <1>6, <1>7

LEMMA CommitBecomes ==
    ASSUME QueueTypes, NEW m \in Moderators, NEW i \in Item, D!Commits(m, i)
    PROVE  \E v : /\ Becomes(m, i, v)
                  /\ v.at = "committed" /\ v.what = req[m][i].what
                  /\ v.shown = req[m][i].shown
                  /\ v.ver = item[i].ver /\ v.from = item[i].at
<1> SUFFICES ASSUME NEW r, r = req[m][i],
                    NEW v, v = [r EXCEPT !.at = "committed", !.ver = item[i].ver,
                                         !.from = item[i].at]
             PROVE  /\ Becomes(m, i, v)
                    /\ v.at = "committed" /\ v.what = r.what /\ v.shown = r.shown
                    /\ v.ver = item[i].ver /\ v.from = item[i].at
    OBVIOUS
<1>1. req' = [req EXCEPT ![m][i] = v] /\ r.at = "sent"
    BY DEF D!Commits, D!At
<1>2. IsRequest(r) /\ (KindOf[i] = "review" => Checked(r.what))
    BY <1>1 DEF QueueTypes, Checked
<1>3. v = [at |-> "committed", what |-> r.what, shown |-> r.shown, ver |-> item[i].ver,
           from |-> item[i].at]
    BY <1>2 DEF IsRequest
<1> HIDE DEF D!Commits
<1> QED
    BY <1>1, <1>2, <1>3 DEF Becomes, IsRequest

-----------------------------------------------------------------------------
(* One decision on each version of an object *)

LEMMA ItemBecomes ==
    ASSUME QueueTypes, NEW i \in Item, NEW v \in Rows, item' = [item EXCEPT ![i] = v]
    PROVE  item' \in [Item -> Rows] /\ item'[i] = v /\ \A j \in Item \ {i} : item'[j] = item[j]
BY DEF QueueTypes

LEMMA DecisionInit == Init => DecisionInv
<1> SUFFICES ASSUME Init
             PROVE  DecisionInv
    OBVIOUS
<1>1. D!Init
    BY DEF Init
<1>2. decided = {}
    BY <1>1 DEF D!Init
<1>3. item \in [Item -> Rows]
    BY <1>1 DEF D!Init, Rows, D!Place
<1>4. /\ req = [m \in Moderators |-> [i \in Item |-> D!Idle]]
    BY <1>1 DEF D!Init
<1>5. IsRequest(D!Idle) /\ D!Idle.at = "idle"
    BY DEF IsRequest, D!Idle
<1>6. QueueTypes
    BY <1>3, <1>4, <1>5 DEF QueueTypes
<1> QED
    BY <1>2, <1>6 DEF DecisionInv, DecisionsLast, OneDecision, D!OneDecision,
                      DecidedAsShown, D!DecidedAsShown

\* Nothing is decided, and a row is what it was or awaits a decision on a newer version.
LEMMA UndecidedStep ==
    ASSUME DecisionInv, QueueTypes', decided' = decided,
           NEW i \in Item, \A j \in Item \ {i} : item'[j] = item[j],
           \/ item'[i] = item[i]
           \/ item'[i].ver = item[i].ver + 1
           \/ item[i].at = "hold" /\ item'[i].ver = item[i].ver /\ item'[i].at = "due"
    PROVE  DecisionInv'
<1>1. QueueTypes /\ DecisionsLast /\ OneDecision /\ DecidedAsShown
    BY DEF DecisionInv
<1>2. OneDecision' /\ DecidedAsShown'
    BY <1>1 DEF OneDecision, D!OneDecision, DecidedAsShown, D!DecidedAsShown
<1>3. ASSUME NEW d \in decided
      PROVE  /\ d.item \in Item /\ d.ver \in Nat /\ d.ver <= item'[d.item].ver
             /\ d.ver = item'[d.item].ver => Leaves(d)'
             /\ KindOf[d.item] = "review" => Checked(d.what)
    <2>1. /\ d.item \in Item /\ d.ver \in Nat /\ d.ver <= item[d.item].ver
          /\ d.ver = item[d.item].ver => Leaves(d)
          /\ KindOf[d.item] = "review" => Checked(d.what)
        BY <1>1 DEF DecisionsLast
    <2>2. CASE item'[d.item] = item[d.item]
        BY <2>1, <2>2 DEF Leaves
    <2>3. CASE d.item = i /\ item'[i].ver = item[i].ver + 1
        <3>1. item[i].ver \in Nat
            BY <1>1 DEF QueueTypes, Rows
        <3> QED
            BY <2>1, <2>3, <3>1
    <2>4. CASE d.item = i /\ item[i].at = "hold" /\ item'[i].ver = item[i].ver
               /\ item'[i].at = "due"
        BY <2>1, <2>4 DEF Leaves
    <2> QED
        BY <2>1, <2>2, <2>3, <2>4
<1> QED
    BY <1>2, <1>3 DEF DecisionInv, DecisionsLast

\* One decision more, on the version an object has, and the object waits no longer.
LEMMA DecidedStep ==
    ASSUME DecisionInv, QueueTypes', NEW i \in Item, NEW c,
           c.item = i, c.ver = item[i].ver, c.from = item[i].at,
           decided' = decided \cup {c},
           \A j \in Item \ {i} : item'[j] = item[j],
           item'[i].ver = item[i].ver, Leaves(c)',
           KindOf[i] = "review" => Checked(c.what),
           KindOf[i] = "order" => c.shown = c.ver,
           \/ item[i].at = "queued"
           \/ KindOf[i] = "review" /\ c.what = "reject" /\ item[i].at = "out"
           \/ KindOf[i] = "video" /\ ~Checked(c.what) /\ item[i].at \in {"hold", "due"},
           item'[i].at \notin {"queued"},
           KindOf[i] = "video" /\ item[i].at # "queued" => item'[i].at = "out",
           KindOf[i] = "review" /\ item'[i].at = "out" => item[i].at = "queued",
           KindOf \in [Item -> D!Kind]
    PROVE  DecisionInv'
<1>1. QueueTypes /\ DecisionsLast /\ OneDecision /\ DecidedAsShown
    BY DEF DecisionInv
<1>2. item[i].ver \in Nat /\ KindOf[i] \in {"order", "video", "review", "payout"}
    BY <1>1 DEF QueueTypes, Rows, D!Kind
<1>3. DecidedAsShown'
    BY <1>1 DEF DecidedAsShown, D!DecidedAsShown
\* what was decided on this version before
<1>4. ASSUME NEW d \in decided, d.item = i, d.ver = item[i].ver
      PROVE  /\ KindOf[i] \in {"order", "payout"} => FALSE
             /\ KindOf[i] = "video" => ~(Checked(d.what) <=> Checked(c.what))
             /\ KindOf[i] = "review" => /\ d.what = "approve" /\ d.from = "queued"
                                        /\ c.what = "reject" /\ c.from = "out"
    <2>1. Leaves(d)
        BY <1>1, <1>4 DEF DecisionsLast
    <2> QED
        BY <1>4, <2>1 DEF Leaves
<1>5. ASSUME NEW d \in decided'
      PROVE  /\ d.item \in Item /\ d.ver \in Nat /\ d.ver <= item'[d.item].ver
             /\ d.ver = item'[d.item].ver => Leaves(d)'
             /\ KindOf[d.item] = "review" => Checked(d.what)
    <2>1. CASE d = c
        BY <1>2, <2>1
    <2>2. CASE d \in decided /\ d.item # i
        BY <1>1, <2>2 DEF DecisionsLast, Leaves
    <2>3. CASE d \in decided /\ d.item = i
        <3>1. /\ d.ver \in Nat /\ d.ver <= item[i].ver
              /\ d.ver = item[i].ver => Leaves(d)
              /\ KindOf[i] = "review" => Checked(d.what)
            BY <1>1, <2>3 DEF DecisionsLast
        <3>2. ASSUME d.ver = item[i].ver
              PROVE  Leaves(d)'
            BY <1>2, <1>4, <2>3, <3>1, <3>2 DEF Leaves
        <3> QED
            BY <2>3, <3>1, <3>2
    <2> QED
        BY <2>1, <2>2, <2>3
<1>6. ASSUME NEW d \in decided', NEW e \in decided', d.item = e.item, d.ver = e.ver,
             d.what \in {"approve", "reject"} <=> e.what \in {"approve", "reject"}
      PROVE  d = e \/ (KindOf[d.item] = "review" /\ {d.what, e.what} = {"approve", "reject"}
                       /\ {d.from, e.from} = {"queued", "out"})
    <2>1. CASE d \in decided /\ e \in decided
        BY <1>1, <1>6, <2>1 DEF OneDecision, D!OneDecision
    <2>2. CASE d = c /\ e = c
        BY <2>2
    <2>3. CASE d \in decided /\ e = c
        BY <1>2, <1>4, <1>6, <2>3 DEF Checked
    <2>4. CASE d = c /\ e \in decided
        BY <1>2, <1>4, <1>6, <2>4 DEF Checked
    <2> QED
        BY <2>1, <2>2, <2>3, <2>4
<1>7. OneDecision'
    BY <1>6 DEF OneDecision, D!OneDecision
<1> QED
    BY <1>3, <1>5, <1>7 DEF DecisionInv, DecisionsLast

LEMMA CommitDecides ==
    ASSUME DecisionInv, KindOf \in [Item -> D!Kind],
           NEW m \in Moderators, NEW i \in Item, D!Commits(m, i)
    PROVE  DecisionInv'
<1> SUFFICES ASSUME NEW c, c = [item |-> i, ver |-> item[i].ver, from |-> item[i].at,
                                shown |-> req[m][i].shown, by |-> m, what |-> req[m][i].what],
                    NEW at, at = D!result(i, req[m][i].what)
             PROVE  DecisionInv'
    OBVIOUS
<1>0. QueueTypes
    BY DEF DecisionInv
<1>1. /\ req[m][i].at = "sent"
      /\ D!stillWaits(i, c.what) /\ D!sameVersion(i, c.shown)
      /\ item' = [item EXCEPT ![i].at = at] /\ decided' = decided \cup {c}
    BY DEF D!Commits, D!At
<1>2. item[i] \in Rows /\ KindOf[i] \in {"order", "video", "review", "payout"}
      /\ (KindOf[i] = "review" => Checked(c.what))
    BY <1>0, <1>1 DEF QueueTypes, D!Kind, Checked
<1>3. at \in {"hold", "none", "out"}
      /\ (KindOf[i] = "video" => (at = "hold" /\ c.what = "approve") \/ (at = "out" /\ c.what # "approve"))
      /\ (KindOf[i] = "review" => at = IF c.what = "reject" THEN "none" ELSE "out")
    BY <1>2 DEF D!result
<1>4. /\ KindOf[i] \in {"order", "payout"} => item[i].at = "queued"
      /\ KindOf[i] = "video" =>
            item[i].at = "queued" \/ (~Checked(c.what) /\ item[i].at \in {"hold", "due"})
      /\ KindOf[i] = "review" =>
            item[i].at = "queued" \/ (c.what = "reject" /\ item[i].at = "out")
    BY <1>1, <1>2 DEF D!stillWaits, D!orderWaits, D!videoWaits, D!reviewWaits, D!payoutWaits,
                      Checked
<1>5. KindOf[i] = "order" => c.shown = c.ver
    BY <1>1 DEF D!sameVersion
<1> DEFINE v == [item[i] EXCEPT !.at = at]
<1>6. v \in Rows /\ v.at = at /\ v.ver = item[i].ver /\ item' = [item EXCEPT ![i] = v]
    BY <1>1, <1>2, <1>3 DEF Rows, D!Place
<1> HIDE DEF v
<1>7. item' \in [Item -> Rows] /\ item'[i] = v /\ \A j \in Item \ {i} : item'[j] = item[j]
    BY <1>0, <1>6, ItemBecomes
<1>8. QueueTypes'
    BY <1>0, <1>7, CommitBecomes, RequestBecomes
<1>9. KindOf[i] = "video" /\ item[i].at # "queued" => at = "out"
    BY <1>3, <1>4 DEF Checked
<1>10. KindOf[i] = "review" /\ at = "out" => item[i].at = "queued" /\ c.what = "approve"
    BY <1>2, <1>3, <1>4 DEF Checked
<1>11. Leaves(c)'
    BY <1>2, <1>3, <1>6, <1>7, <1>10 DEF Leaves, Checked
<1>12. item[i].at = "queued"
       \/ (KindOf[i] = "review" /\ c.what = "reject" /\ item[i].at = "out")
       \/ (KindOf[i] = "video" /\ ~Checked(c.what) /\ item[i].at \in {"hold", "due"})
    BY <1>2, <1>4
<1> QED
    BY <1>1, <1>2, <1>3, <1>5, <1>6, <1>7, <1>8, <1>9, <1>10, <1>11, <1>12, DecidedStep

LEMMA TimerDecides ==
    ASSUME DecisionInv, KindOf \in [Item -> D!Kind], NEW i \in Item, D!finalizeAutomatic(i)
    PROVE  DecisionInv'
<1> SUFFICES ASSUME NEW c, c = [item |-> i, ver |-> item[i].ver, from |-> "due", shown |-> 0,
                                by |-> D!Timer, what |-> "finalize"]
             PROVE  DecisionInv'
    OBVIOUS
<1>0. QueueTypes
    BY DEF DecisionInv
<1>1. /\ KindOf[i] = "video" /\ item[i].at = "due"
      /\ item' = [item EXCEPT ![i].at = "out"] /\ decided' = decided \cup {c}
      /\ req' = req
    BY DEF D!finalizeAutomatic
<1> DEFINE v == [item[i] EXCEPT !.at = "out"]
<1>2. v \in Rows /\ v.at = "out" /\ v.ver = item[i].ver /\ item' = [item EXCEPT ![i] = v]
    BY <1>0, <1>1 DEF QueueTypes, Rows, D!Place
<1> HIDE DEF v
<1>3. item' \in [Item -> Rows] /\ item'[i] = v /\ \A j \in Item \ {i} : item'[j] = item[j]
    BY <1>0, <1>2, ItemBecomes
<1>4. QueueTypes'
    BY <1>0, <1>1, <1>3 DEF QueueTypes
<1>5. Leaves(c)' /\ ~Checked(c.what)
    BY <1>1, <1>2, <1>3 DEF Leaves, Checked
<1> QED
    BY <1>1, <1>2, <1>3, <1>4, <1>5, DecidedStep

LEMMA RowsMove ==
    ASSUME DecisionInv, NEW i \in Item, D!Edit(i) \/ D!Rate(i) \/ D!HoldEnds(i)
    PROVE  DecisionInv'
<1>0. QueueTypes /\ item[i] \in Rows
    BY DEF DecisionInv, QueueTypes
<1>1. /\ decided' = decided /\ req' = req
      /\ item' = [item EXCEPT ![i] = item'[i]]
      /\ item'[i] \in Rows
      /\ \/ item'[i].ver = item[i].ver + 1
         \/ item[i].at = "hold" /\ item'[i].ver = item[i].ver /\ item'[i].at = "due"
    <2>1. ASSUME item' = [item EXCEPT ![i] = [at |-> "queued", ver |-> item[i].ver + 1]]
          PROVE  /\ item' = [item EXCEPT ![i] = item'[i]]
                 /\ item'[i] \in Rows /\ item'[i].ver = item[i].ver + 1
        BY <1>0, <2>1 DEF QueueTypes, Rows, D!Place
    <2>2. CASE D!Edit(i) \/ D!Rate(i)
        <3>1. item' = [item EXCEPT ![i] = [at |-> "queued", ver |-> item[i].ver + 1]]
              /\ decided' = decided /\ req' = req
            BY <2>2 DEF D!Edit, D!Rate, D!records
        <3> QED
            BY <2>1, <3>1
    <2>3. CASE D!HoldEnds(i)
        BY <1>0, <2>3 DEF D!HoldEnds, D!records, QueueTypes, Rows, D!Place
    <2> QED
        BY <2>2, <2>3
<1>2. item' \in [Item -> Rows] /\ \A j \in Item \ {i} : item'[j] = item[j]
    BY <1>0, <1>1, ItemBecomes
<1>3. QueueTypes'
    BY <1>0, <1>1, <1>2 DEF QueueTypes
<1> QED
    BY <1>1, <1>2, <1>3, UndecidedStep

LEMMA DecisionStep == DecisionInv /\ [Next]_vars => DecisionInv'
<1> SUFFICES ASSUME DecisionInv, [Next]_vars
             PROVE  DecisionInv'
    OBVIOUS
<1>0. QueueTypes /\ KindOf \in [Item -> D!Kind]
    BY ModeratorAssumption DEF DecisionInv, D!DeskAssumption
<1>1. CASE UNCHANGED QueueRows
    BY <1>1 DEF QueueRows, DecisionInv, QueueTypes, DecisionsLast, Leaves, OneDecision,
                D!OneDecision, DecidedAsShown, D!DecidedAsShown
<1>2. CASE \E i \in Item : D!Edit(i) \/ D!Rate(i) \/ D!HoldEnds(i) \/ D!finalizeAutomatic(i)
    BY <1>0, <1>2, RowsMove, TimerDecides
<1>3. ASSUME NEW m \in Moderators, NEW i \in Item,
             \/ Sends(m, i) \/ Returns(m, i) \/ D!Refused(m, i)
             \/ D!Logs(m, i) \/ D!Tells(m, i) \/ D!Fails(m, i)
      PROVE  DecisionInv'
    <2>1. item' = item /\ decided' = decided /\ \E v : Becomes(m, i, v)
        BY <1>0, <1>3, RequestSteps
    <2>2. QueueTypes'
        BY <1>0, <2>1, RequestBecomes DEF QueueTypes
    <2> QED
        BY <2>1, <2>2, UndecidedStep
<1>4. ASSUME NEW m \in Moderators, NEW i \in Item, D!Commits(m, i)
      PROVE  DecisionInv'
    BY <1>0, <1>4, CommitDecides
<1>5. CASE D!Next
    BY <1>1, <1>2, <1>3, <1>4, <1>5, QueueSteps
<1>6. CASE UNCHANGED deskVars
    BY <1>1, <1>6 DEF deskVars, QueueRows
<1> QED
    BY <1>5, <1>6 DEF Next, QueueStep, ReportsStep, ListsStep, vars

\* An object gets one decision on each of its versions, whatever screens any number of
\* moderators look at, whatever the timer decides beside them and however often an order
\* is edited; only a published review may be removed after it was approved.
THEOREM OneDecisionEach == Spec => []OneDecision
<1>1. DecisionInv => OneDecision
    BY DEF DecisionInv
<1> QED
    BY DecisionInit, DecisionStep, <1>1, PTL DEF Spec

\* No moderator ever decides about an order that was edited since he read its card.
THEOREM AlwaysAsShown == Spec => []DecidedAsShown
<1>1. DecisionInv => DecidedAsShown
    BY DEF DecisionInv
<1> QED
    BY DecisionInit, DecisionStep, <1>1, PTL DEF Spec

-----------------------------------------------------------------------------
(* What follows a decision *)

LEMMA StepsOf ==
    ASSUME KindOf \in [Item -> D!Kind], NEW i \in Item, NEW what
    PROVE  /\ KindOf[i] # "review" => D!steps(i, what) = <<"log", "tell">>
           /\ KindOf[i] = "review" /\ what = "approve" => D!steps(i, what) = <<"tell", "log">>
           /\ KindOf[i] = "review" /\ what # "approve" => D!steps(i, what) = <<"log">>
<1>1. KindOf[i] \in {"order", "video", "review", "payout"}
    BY DEF D!Kind
<1> QED
    BY <1>1 DEF D!steps, D!stepsOrder, D!stepsVideo, D!stepsPayout, D!stepsReview

\* Where a step is in its order, and where the request is after it.
LEMMA DoesInOrder ==
    ASSUME KindOf \in [Item -> D!Kind], NEW m \in Moderators, NEW i \in Item,
           NEW step \in {"log", "tell"}, NEW n \in 1..2, D!Does(m, i, step, n)
    PROVE  \E a \in {"first", "ok"} :
            LET from == req[m][i].at
                review == KindOf[i] = "review"
                approves == req[m][i].what = "approve"
            IN  /\ Goes(m, i, a)
                /\ step = "log" => \/ from = "committed" /\ ~review /\ a = "first"
                                   \/ from = "committed" /\ review /\ ~approves /\ a = "ok"
                                   \/ from = "first" /\ review /\ approves /\ a = "ok"
                /\ step = "tell" => \/ from = "committed" /\ review /\ approves /\ a = "first"
                                    \/ from = "first" /\ ~review /\ a = "ok"
<1> DEFINE todo == D!steps(i, req[m][i].what)
           a == IF n + 1 \in DOMAIN todo THEN "first" ELSE "ok"
           from == req[m][i].at
           review == KindOf[i] = "review"
           approves == req[m][i].what = "approve"
<1>1. n \in DOMAIN todo /\ todo[n] = step /\ from = <<"committed", "first">>[n]
    BY DEF D!Does, D!At
<1>2. a \in {"first", "ok"} /\ Goes(m, i, a)
    BY DEF D!Does, Goes
<1>3. (n = 1 /\ from = "committed") \/ (n = 2 /\ from = "first")
    BY <1>1
<1>4. ASSUME ~review
      PROVE  \/ from = "committed" /\ step = "log" /\ a = "first"
             \/ from = "first" /\ step = "tell" /\ a = "ok"
    <2>1. todo = <<"log", "tell">>
        BY <1>4, StepsOf
    <2> HIDE DEF todo
    <2> QED
        BY <1>1, <1>3, <2>1
<1>5. ASSUME review, approves
      PROVE  \/ from = "committed" /\ step = "tell" /\ a = "first"
             \/ from = "first" /\ step = "log" /\ a = "ok"
    <2>1. todo = <<"tell", "log">>
        BY <1>5, StepsOf
    <2> HIDE DEF todo
    <2> QED
        BY <1>1, <1>3, <2>1
<1>6. ASSUME review, ~approves
      PROVE  from = "committed" /\ step = "log" /\ a = "ok"
    <2>1. todo = <<"log">>
        BY <1>6, StepsOf
    <2> HIDE DEF todo
    <2> QED
        BY <1>1, <1>3, <2>1
<1> HIDE DEF a
<1>7. /\ step = "log" => \/ from = "committed" /\ ~review /\ a = "first"
                         \/ from = "committed" /\ review /\ ~approves /\ a = "ok"
                         \/ from = "first" /\ review /\ approves /\ a = "ok"
      /\ step = "tell" => \/ from = "committed" /\ review /\ approves /\ a = "first"
                          \/ from = "first" /\ ~review /\ a = "ok"
    BY <1>4, <1>5, <1>6
<1> QED
    BY <1>2, <1>7

\* One request goes on; no line of the journal and no message is taken back.
LEMMA FollowUpStep ==
    ASSUME AnnouncedInv, QueueTypes, item' \in [Item -> Rows],
           NEW m \in Moderators, NEW i \in Item, NEW v, Becomes(m, i, v),
           decided \subseteq decided', journal \subseteq journal', told \subseteq told',
           lost \subseteq lost',
           \A d \in decided' \ decided : d.item = i /\ d.by = m /\ UnderWay(d)',
           \A d \in decided \ lost' :
                d.by = m /\ d.item = i /\ UnderWay(d) => Settled(d)' \/ UnderWay(d)',
           v.at = "first" /\ KindOf[i] # "review" => D!Decision(m, i)' \in journal',
           \A d \in told' \ told : d \in journal' \/ KindOf[d.item] = "review"
    PROVE  AnnouncedInv'
<1>1. /\ req'[m][i] = v
      /\ \A n \in Moderators, j \in Item : n # m \/ j # i => req'[n][j] = req[n][j]
    BY RequestBecomes
<1>2. MadeBySomebody'
    BY DEF AnnouncedInv, MadeBySomebody
<1>3. ASSUME NEW d \in decided' \ lost', d.by # D!Timer
      PROVE  Settled(d)' \/ UnderWay(d)'
    <2>1. CASE d \notin decided
        BY <2>1
    <2>2. CASE d \in decided
        <3>1. Settled(d) \/ UnderWay(d)
            BY <1>3, <2>2 DEF AnnouncedInv, SettledOrUnderWay
        <3>2. Settled(d) => Settled(d)'
            BY DEF Settled
        <3>3. d.by \in Moderators /\ d.item \in Item
            BY <1>3, <2>2 DEF AnnouncedInv, MadeBySomebody
        <3>4. ASSUME d.by # m \/ d.item # i, UnderWay(d)
              PROVE  UnderWay(d)'
            <4>1. req'[d.by][d.item] = req[d.by][d.item]
                BY <1>1, <3>3, <3>4
            <4>2. D!Decision(d.by, d.item)' = D!Decision(d.by, d.item)
                BY <4>1 DEF D!Decision
            <4> QED
                BY <3>4, <4>1, <4>2 DEF UnderWay
        <3> QED
            BY <2>2, <3>1, <3>2, <3>4
    <2> QED
        BY <2>1, <2>2
<1>4. ASSUME NEW n \in Moderators, NEW j \in Item,
             req'[n][j].at = "first", KindOf[j] # "review"
      PROVE  D!Decision(n, j)' \in journal'
    <2>1. CASE n = m /\ j = i
        BY <1>1, <1>4, <2>1
    <2>2. CASE n # m \/ j # i
        <3>1. req'[n][j] = req[n][j]
            BY <1>1, <2>2
        <3>2. D!Decision(n, j)' = D!Decision(n, j)
            BY <3>1 DEF D!Decision
        <3>3. D!Decision(n, j) \in journal
            BY <1>4, <3>1 DEF AnnouncedInv, LoggedFirst
        <3> QED
            BY <3>2, <3>3
    <2> QED
        BY <2>1, <2>2
<1>5. \A d \in told' \ journal' : KindOf[d.item] = "review"
    BY DEF AnnouncedInv, LoggedFirst
<1> QED
    BY <1>2, <1>3, <1>4, <1>5 DEF AnnouncedInv, SettledOrUnderWay, LoggedFirst

LEMMA AnnouncedInit == Init => AnnouncedInv
<1> SUFFICES ASSUME Init
             PROVE  AnnouncedInv
    OBVIOUS
<1>1. /\ decided = {} /\ told = {}
      /\ req = [m \in Moderators |-> [i \in Item |-> D!Idle]]
    BY DEF Init, D!Init
<1>2. D!Idle.at = "idle"
    BY DEF D!Idle
<1> QED
    BY <1>1, <1>2 DEF AnnouncedInv, MadeBySomebody, SettledOrUnderWay, LoggedFirst

\* Nobody is at work on a decision of m on i.
LEMMA NotUnderWay ==
    ASSUME NEW m \in Moderators, NEW i \in Item, req[m][i].at \notin {"committed", "first"}
    PROVE  \A d : d.by = m /\ d.item = i => ~UnderWay(d)
BY DEF UnderWay

LEMMA QuietAnnounced ==
    ASSUME AnnouncedInv, UNCHANGED <<req, journal, told, lost>>,
           \A d \in decided' \ decided : d.item \in Item /\ d.by = D!Timer,
           decided \subseteq decided'
    PROVE  AnnouncedInv'
<1>1. \A d : /\ Settled(d)' <=> Settled(d)
             /\ D!Decision(d.by, d.item)' = D!Decision(d.by, d.item)
    BY DEF Settled, D!Decision
<1>2. \A d : UnderWay(d)' <=> UnderWay(d)
    BY <1>1 DEF UnderWay
<1>3. \A m \in Moderators, i \in Item : D!Decision(m, i)' = D!Decision(m, i)
    BY DEF D!Decision
<1> QED
    BY <1>1, <1>2, <1>3 DEF AnnouncedInv, MadeBySomebody, SettledOrUnderWay, LoggedFirst

LEMMA RequestAnnounced ==
    ASSUME AnnouncedInv, DecisionInv, NEW m \in Moderators, NEW i \in Item,
           \/ Sends(m, i) \/ Returns(m, i) \/ D!Refused(m, i)
    PROVE  AnnouncedInv'
<1>0. QueueTypes
    BY DEF DecisionInv
<1>1. /\ req[m][i].at \notin {"committed", "first"}
      /\ UNCHANGED <<item, decided, journal, told, lost>>
    <2>1. D!Idle.at = "idle"
        BY DEF D!Idle
    <2>2. CASE Sends(m, i)
        BY <2>1, <2>2 DEF Sends
    <2>3. CASE Returns(m, i)
        BY <2>3 DEF Returns
    <2>4. CASE D!Refused(m, i)
        BY <2>4 DEF D!Refused, D!At, D!records
    <2> QED
        BY <2>2, <2>3, <2>4
<1>2. \E v : Becomes(m, i, v) /\ v.at # "first"
    <2>1. CASE Sends(m, i)
        <3>1. PICK what, ver :
                /\ KindOf[i] = "review" => Checked(what)
                /\ req' = [req EXCEPT ![m][i] = Sent(D!Idle, what, ver)]
            BY <2>1 DEF Sends, Sent
        <3>2. IsRequest(D!Idle)
            BY DEF IsRequest, D!Idle
        <3>3. Becomes(m, i, Sent(D!Idle, what, ver)) /\ Sent(D!Idle, what, ver).at # "first"
            BY <3>1, <3>2, SentRequest DEF Becomes
        <3> QED
            BY <3>3
    <2>2. CASE Returns(m, i)
        <3>1. Becomes(m, i, D!Idle) /\ D!Idle.at # "first"
            BY <2>2 DEF Returns, Becomes, IsRequest, D!Idle
        <3> QED
            BY <3>1
    <2>3. CASE D!Refused(m, i)
        BY <1>0, <2>3, PlaceBecomes DEF Goes, D!Refused, D!At, D!records
    <2> QED
        BY <2>1, <2>2, <2>3
<1>3. item' \in [Item -> Rows]
    BY <1>0, <1>1 DEF QueueTypes
<1> QED
    BY <1>0, <1>1, <1>2, <1>3, NotUnderWay, FollowUpStep

LEMMA CommitAnnounced ==
    ASSUME AnnouncedInv, DecisionInv, DecisionInv', NEW m \in Moderators, NEW i \in Item,
           D!Commits(m, i)
    PROVE  AnnouncedInv'
<1>0. QueueTypes /\ item' \in [Item -> Rows]
    BY DEF DecisionInv, QueueTypes
<1> SUFFICES ASSUME NEW c, c = [item |-> i, ver |-> item[i].ver, from |-> item[i].at,
                                shown |-> req[m][i].shown, by |-> m, what |-> req[m][i].what]
             PROVE  AnnouncedInv'
    OBVIOUS
<1>1. /\ req[m][i].at = "sent" /\ decided' = decided \cup {c}
      /\ UNCHANGED <<journal, told, lost>>
    BY DEF D!Commits, D!At
<1>2. PICK v : /\ Becomes(m, i, v)
               /\ v.at = "committed" /\ v.what = req[m][i].what /\ v.shown = req[m][i].shown
               /\ v.ver = item[i].ver /\ v.from = item[i].at
    BY <1>0, CommitBecomes
<1>3. req'[m][i] = v
    BY <1>0, <1>2, RequestBecomes
<1>4. c.item = i /\ c.by = m
    OBVIOUS
<1>5. D!Decision(m, i)' = c
    BY <1>2, <1>3 DEF D!Decision
<1>6. UnderWay(c)'
    BY <1>2, <1>3, <1>4, <1>5 DEF UnderWay
<1> QED
    BY <1>0, <1>1, <1>2, <1>4, <1>6, NotUnderWay, FollowUpStep

\* The decision a request has made stays the same as it goes on.
LEMMA SameDecision ==
    ASSUME QueueTypes, item' \in [Item -> Rows], NEW m \in Moderators, NEW i \in Item,
           NEW a \in {"first", "ok", "error"}, req[m][i].at # "idle",
           Goes(m, i, a)
    PROVE  /\ \E v : Becomes(m, i, v) /\ v.at = a
           /\ req'[m][i].at = a
           /\ D!Decision(m, i)' = D!Decision(m, i)
<1>0. a \in {"committed", "first", "ok", "error"}
    OBVIOUS
<1>1. PICK v : /\ Becomes(m, i, v)
               /\ v.at = a /\ v.what = req[m][i].what /\ v.shown = req[m][i].shown
               /\ v.ver = req[m][i].ver /\ v.from = req[m][i].from
    BY <1>0, PlaceBecomes
<1>2. req'[m][i] = v
    BY <1>1, RequestBecomes
<1> QED
    BY <1>1, <1>2 DEF D!Decision

LEMMA LogAnnounced ==
    ASSUME AnnouncedInv, DecisionInv, KindOf \in [Item -> D!Kind],
           NEW m \in Moderators, NEW i \in Item, D!Logs(m, i)
    PROVE  AnnouncedInv'
<1> SUFFICES ASSUME NEW c, c = D!Decision(m, i)
             PROVE  AnnouncedInv'
    OBVIOUS
<1>1. PICK n \in 1..2 : D!Does(m, i, "log", n)
    BY DEF D!Logs
<1>2. QueueTypes /\ item' \in [Item -> Rows]
    BY <1>1 DEF DecisionInv, QueueTypes, D!Does
<1>3. journal' = journal \cup {c} /\ UNCHANGED <<decided, told, lost>>
    BY <1>1 DEF D!Logs, D!Does
<1>4. PICK a \in {"first", "ok", "error"} :
        /\ Goes(m, i, a)
        /\ \/ req[m][i].at = "committed" /\ KindOf[i] # "review" /\ a = "first"
           \/ req[m][i].at = "committed" /\ KindOf[i] = "review"
                /\ req[m][i].what # "approve" /\ a = "ok"
           \/ req[m][i].at = "first" /\ KindOf[i] = "review"
                /\ req[m][i].what = "approve" /\ a = "ok"
    BY <1>1, DoesInOrder
<1>5. PICK v : Becomes(m, i, v) /\ v.at = a
    BY <1>2, <1>4, SameDecision
<1>6. req'[m][i].at = a /\ D!Decision(m, i)' = c
    BY <1>2, <1>4, SameDecision
<1>7. c.item = i /\ c.by = m /\ c.what = req[m][i].what
    BY DEF D!Decision
<1>8. KindOf[i] = "review" => Checked(c.what)
    BY <1>2, <1>4, <1>7 DEF QueueTypes, Checked
<1>9. ASSUME NEW d \in decided \ lost', d.by = m, d.item = i, UnderWay(d)
      PROVE  Settled(d)' \/ UnderWay(d)'
    <2>1. d = c /\ (req[m][i].at = "first" /\ KindOf[i] = "review" => c \in told)
        BY <1>9 DEF UnderWay
    <2>2. CASE KindOf[i] # "review"
        BY <1>3, <1>4, <1>6, <1>7, <2>1, <2>2 DEF UnderWay
    <2>3. CASE KindOf[i] = "review"
        BY <1>3, <1>4, <1>7, <1>8, <2>1, <2>3 DEF Settled, Checked
    <2> QED
        BY <2>2, <2>3
<1> QED
    BY <1>2, <1>3, <1>5, <1>6, <1>9, FollowUpStep

LEMMA TellAnnounced ==
    ASSUME AnnouncedInv, DecisionInv, KindOf \in [Item -> D!Kind],
           NEW m \in Moderators, NEW i \in Item, D!Tells(m, i)
    PROVE  AnnouncedInv'
<1> SUFFICES ASSUME NEW c, c = D!Decision(m, i)
             PROVE  AnnouncedInv'
    OBVIOUS
<1>1. PICK n \in 1..2 : D!Does(m, i, "tell", n)
    BY DEF D!Tells
<1>2. QueueTypes /\ item' \in [Item -> Rows]
    BY <1>1 DEF DecisionInv, QueueTypes, D!Does
<1>3. told' = told \cup {c} /\ UNCHANGED <<decided, journal, lost>>
    BY <1>1 DEF D!Tells, D!Does
<1>4. PICK a \in {"first", "ok", "error"} :
        /\ Goes(m, i, a)
        /\ \/ req[m][i].at = "committed" /\ KindOf[i] = "review"
                /\ req[m][i].what = "approve" /\ a = "first"
           \/ req[m][i].at = "first" /\ KindOf[i] # "review" /\ a = "ok"
    BY <1>1, DoesInOrder
<1>5. PICK v : Becomes(m, i, v) /\ v.at = a
    BY <1>2, <1>4, SameDecision
<1>6. req'[m][i].at = a /\ D!Decision(m, i)' = c
    BY <1>2, <1>4, SameDecision
<1>7. c.item = i /\ c.by = m
    BY DEF D!Decision
<1>8. KindOf[i] # "review" => c \in journal
    BY <1>4 DEF AnnouncedInv, LoggedFirst
<1>9. ASSUME NEW d \in decided \ lost', d.by = m, d.item = i, UnderWay(d)
      PROVE  Settled(d)' \/ UnderWay(d)'
    <2>1. d = c
        BY <1>9 DEF UnderWay
    <2>2. CASE KindOf[i] # "review"
        BY <1>3, <1>8, <2>1, <2>2 DEF Settled
    <2>3. CASE KindOf[i] = "review"
        BY <1>3, <1>4, <1>6, <1>7, <2>1, <2>3 DEF UnderWay
    <2> QED
        BY <2>2, <2>3
<1> QED
    BY <1>2, <1>3, <1>4, <1>5, <1>6, <1>7, <1>8, <1>9, FollowUpStep

LEMMA FailAnnounced ==
    ASSUME AnnouncedInv, DecisionInv, NEW m \in Moderators, NEW i \in Item, D!Fails(m, i)
    PROVE  AnnouncedInv'
<1>1. /\ QueueTypes /\ item' \in [Item -> Rows]
      /\ req[m][i].at # "idle" /\ Goes(m, i, "error")
      /\ UNCHANGED <<decided, journal, told>> /\ lost \subseteq lost'
      /\ req[m][i].at # "sent" => D!Decision(m, i) \in lost'
    BY DEF DecisionInv, QueueTypes, Goes, D!Fails, D!At
<1>2. \E v : Becomes(m, i, v) /\ v.at = "error"
    BY <1>1, SameDecision
<1>3. \A d \in decided \ lost' : ~(d.by = m /\ d.item = i /\ UnderWay(d))
    BY <1>1 DEF UnderWay
<1> QED
    BY <1>1, <1>2, <1>3, FollowUpStep

LEMMA AnnouncedStep == AnnouncedInv /\ DecisionInv /\ DecisionInv' /\ [Next]_vars => AnnouncedInv'
<1> SUFFICES ASSUME AnnouncedInv, DecisionInv, DecisionInv', [Next]_vars
             PROVE  AnnouncedInv'
    OBVIOUS
<1>0. KindOf \in [Item -> D!Kind]
    BY ModeratorAssumption DEF D!DeskAssumption
<1>1. CASE UNCHANGED QueueRows
    BY <1>1, QuietAnnounced DEF QueueRows
<1>2. CASE \E i \in Item : D!Edit(i) \/ D!Rate(i) \/ D!HoldEnds(i)
    BY <1>2, QuietAnnounced DEF D!Edit, D!Rate, D!HoldEnds, D!records
<1>3. ASSUME NEW i \in Item, D!finalizeAutomatic(i)
      PROVE  AnnouncedInv'
    <2>1. PICK c : c.item = i /\ c.by = D!Timer /\ decided' = decided \cup {c}
        BY <1>3 DEF D!finalizeAutomatic
    <2> QED
        BY <1>3, <2>1, QuietAnnounced DEF D!finalizeAutomatic
<1>4. CASE D!Next
    BY <1>0, <1>1, <1>2, <1>3, <1>4, QueueSteps, RequestAnnounced, CommitAnnounced,
       LogAnnounced, TellAnnounced, FailAnnounced
<1>5. CASE UNCHANGED deskVars
    BY <1>1, <1>5 DEF deskVars, QueueRows
<1> QED
    BY <1>4, <1>5 DEF Next, QueueStep, ReportsStep, ListsStep, vars

\* A decision is in the journal and the people concerned know of it once the moderator has
\* his answer, and nobody hears of a decision the journal does not have: whatever two
\* moderators decide at once and wherever their requests break off.
THEOREM AnnouncedOnce == Spec => []Announced
<1>1. AnnouncedInv => Announced
    BY DEF AnnouncedInv, SettledOrUnderWay, Settled, UnderWay, LoggedFirst, Announced,
           D!Announced, D!Idle
<1> QED
    BY DecisionInit, DecisionStep, AnnouncedInit, AnnouncedStep, <1>1, PTL DEF Spec

-----------------------------------------------------------------------------
(* Decisions on reports *)

LEMMA ReportInit == Init => ReportInv
<1> SUFFICES ASSUME Init
             PROVE  ReportInv
    OBVIOUS
<1>1. /\ row = [k \in R!Report |-> "NONE"] /\ by = [k \in R!Report |-> NoObject]
      /\ resolving = [m \in Moderators |-> R!Idle]
      /\ taken = {} /\ toldReporters = {}
    BY DEF Init, R!Init
<1>2. IsResolving(R!Idle) /\ R!Idle.op = "none" /\ R!Idle.at = "idle" /\ R!Idle.marked = {}
      /\ R!Idle.seen = {}
    BY DEF IsResolving, R!Idle
<1>3. ReportTypes
    BY <1>1, <1>2 DEF ReportTypes, RowAt
<1>4. Marks /\ ToBeTold
    BY <1>1, <1>2 DEF Marks, ToBeTold, After
<1>5. MeasureForReports /\ ToldOfADecision
    BY <1>1 DEF MeasureForReports, R!MeasureForReports, ToldOfADecision, R!ToldOfADecision
<1> QED
    BY <1>3, <1>4, <1>5 DEF ReportInv

\* The request of m is v now.
Proceeds(m, v) ==
    /\ IsResolving(v)
    /\ resolving' = [resolving EXCEPT ![m] = v]

LEMMA ResolvingBecomes ==
    ASSUME ReportTypes, NEW m \in Moderators, NEW v, Proceeds(m, v)
    PROVE  /\ resolving' = [n \in Moderators |-> resolving'[n]]
           /\ \A n \in Moderators : IsResolving(resolving'[n])
           /\ resolving'[m] = v
           /\ \A n \in Moderators \ {m} : resolving'[n] = resolving[n]
<1>1. /\ resolving = [n \in Moderators |-> resolving[n]]
      /\ \A n \in Moderators : IsResolving(resolving[n])
    BY DEF ReportTypes
<1>2. resolving' = [n \in Moderators |-> IF n = m THEN v ELSE resolving[n]]
    BY <1>1 DEF Proceeds
<1>3. resolving'[m] = v /\ \A n \in Moderators \ {m} : resolving'[n] = resolving[n]
    BY <1>2
<1>4. resolving' = [n \in Moderators |-> resolving'[n]]
    BY <1>2
<1>5. \A n \in Moderators : IsResolving(resolving'[n])
    BY <1>1, <1>3 DEF Proceeds
<1> QED
    BY <1>3, <1>4, <1>5

\* What a moderator's request must be in itself: the parts of Marks and ToBeTold that are
\* about one request.
Sound(m, r) ==
    /\ r.op = "resolve" => r.seen \subseteq R!On(r.on)
    /\ r.at = "mark" => \A k \in r.seen : row[k] # "NONE"
    /\ r.at = "measure" => r.marked # {} /\ \A k \in r.seen \ r.marked : Decided(k)
    /\ r.at # "measure" => r.marked = {}
    /\ r.marked \subseteq r.seen /\ \A k \in r.marked : row[k] = "OPEN"
    /\ r.op = "resolve" /\ r.at \in After =>
            /\ \A k \in r.seen : Decided(k)
            /\ \E k \in R!On(r.on) :
                    by[k] = m /\ row[k] = IF r.actioned THEN "ACTIONED" ELSE "DISMISSED"

LEMMA SoundRequests ==
    (\A m \in Moderators : Sound(m, resolving[m])) /\
        (\A m, n \in Moderators : m # n => resolving[m].marked \cap resolving[n].marked = {})
            <=> Marks /\ ToBeTold
<1>1. \A m \in Moderators :
        R!decision(m) = IF resolving[m].actioned THEN "ACTIONED" ELSE "DISMISSED"
    BY DEF R!decision
<1> QED
    BY <1>1 DEF Sound, Marks, ToBeTold

LEMMA SoundRequestsNext ==
    (\A m \in Moderators : Sound(m, resolving[m])') /\
        (\A m, n \in Moderators : m # n => resolving'[m].marked \cap resolving'[n].marked = {})
            => Marks' /\ ToBeTold'
<1>1. \A m \in Moderators :
        R!decision(m)' = IF resolving'[m].actioned THEN "ACTIONED" ELSE "DISMISSED"
    BY DEF R!decision
<1> QED
    BY <1>1 DEF Sound, Marks, ToBeTold

\* One request goes on and no row changes; a message goes to those it has decided about.
LEMMA RequestStepReports ==
    ASSUME ReportInv, NEW m \in Moderators, NEW v, Proceeds(m, v), Sound(m, v),
           UNCHANGED <<row, by, taken>>,
           v.marked = {} \/ \A n \in Moderators \ {m} : v.marked \cap resolving[n].marked = {},
           toldReporters \subseteq toldReporters',
           \A t \in toldReporters' \ toldReporters :
                /\ t.to \in R!Report /\ t.what \in {"ACTIONED", "DISMISSED"}
                /\ Decided(t.to)
                /\ \E k \in R!On(t.to[2]) : by[k] = t.by /\ row[k] = t.what
    PROVE  ReportInv'
<1>0. ReportTypes /\ Marks /\ ToBeTold /\ MeasureForReports /\ ToldOfADecision
    BY DEF ReportInv
<1>1. /\ resolving' = [n \in Moderators |-> resolving'[n]]
      /\ \A n \in Moderators : IsResolving(resolving'[n])
      /\ resolving'[m] = v
      /\ \A n \in Moderators \ {m} : resolving'[n] = resolving[n]
    BY <1>0, ResolvingBecomes
<1>2. ReportTypes'
    BY <1>0, <1>1 DEF ReportTypes, IsResolving
<1>3. ASSUME NEW n \in Moderators
      PROVE  Sound(n, resolving[n])'
    <2>1. Sound(n, resolving'[n])
        <3>1. CASE n = m
            BY <1>1, <3>1
        <3>2. CASE n # m
            BY <1>0, <1>1, <3>2, SoundRequests
        <3> QED
            BY <3>1, <3>2
    <2> QED
        BY <2>1 DEF Sound, Decided
<1>4. ASSUME NEW n \in Moderators, NEW u \in Moderators, n # u
      PROVE  resolving'[n].marked \cap resolving'[u].marked = {}
    <2>1. resolving[n].marked \cap resolving[u].marked = {}
        BY <1>0, <1>4 DEF Marks
    <2>2. CASE n = m
        BY <1>1, <1>4, <2>2
    <2>3. CASE u = m
        BY <1>1, <1>4, <2>3
    <2>4. CASE n # m /\ u # m
        BY <1>1, <2>1, <2>4
    <2> QED
        BY <2>2, <2>3, <2>4
<1>5. Marks' /\ ToBeTold'
    BY <1>3, <1>4, SoundRequestsNext
<1>6. MeasureForReports'
    BY <1>0 DEF MeasureForReports, R!MeasureForReports
<1>7. ToldOfADecision'
    BY <1>0 DEF ToldOfADecision, R!ToldOfADecision, Decided
<1> QED
    BY <1>2, <1>5, <1>6, <1>7 DEF ReportInv

\* The request r, further on.
Later(r, at, toBan, seen, marked, closed, didBan) ==
    [op |-> r.op, on |-> r.on, actioned |-> r.actioned, ban |-> r.ban, at |-> at,
     toBan |-> toBan, seen |-> seen, marked |-> marked, closed |-> closed,
     didBan |-> didBan]

LEMMA LaterIsResolving ==
    ASSUME NEW r, IsResolving(r), NEW at, NEW toBan, NEW seen, NEW marked, NEW closed, NEW didBan,
           at \in {"idle", "author", "find", "mark", "measure"} \cup After,
           at \in {"author", "find", "mark", "measure", "logBan", "tell"} => r.op = "resolve",
           NEW v, v = Later(r, at, toBan, seen, marked, closed, didBan)
    PROVE  /\ IsResolving(v)
           /\ v.op = r.op /\ v.on = r.on /\ v.actioned = r.actioned /\ v.at = at
           /\ v.toBan = toBan /\ v.seen = seen /\ v.marked = marked
<1>1. v = [op |-> r.op, on |-> r.on, actioned |-> r.actioned, ban |-> r.ban, at |-> at,
           toBan |-> toBan, seen |-> seen, marked |-> marked, closed |-> closed,
           didBan |-> didBan]
    BY DEF Later
<1>2. r.op = "resolve" => r.on \in Object
    BY DEF IsResolving
<1> QED
    BY <1>1, <1>2 DEF IsResolving

\* Steps that only move a request on, and what each leaves as it was.
CanMove(r, at) ==
    \/ r.at = "author" /\ at = "find"
    \/ r.at = "ban" /\ at = "log"
    \/ r.at = "log" /\ at \in {"logBan", "tell"} /\ r.op = "resolve"
    \/ r.at = "logBan" /\ at = "tell"

MovesTo(m, at, toBan, closed, didBan) ==
    LET r == resolving[m] IN
    /\ CanMove(r, at)
    /\ resolving' = [resolving EXCEPT
            ![m] = Later(r, at, toBan, r.seen, r.marked, closed, didBan)]
    /\ UNCHANGED <<row, by, taken, toldReporters>>

LEMMA MovesOn ==
    ASSUME ReportInv, NEW m \in Moderators, NEW at, NEW toBan, NEW closed, NEW didBan,
           MovesTo(m, at, toBan, closed, didBan)
    PROVE  ReportInv'
<1> SUFFICES ASSUME NEW r, r = resolving[m],
                    NEW v, v = Later(r, at, toBan, r.seen, r.marked, closed, didBan)
             PROVE  ReportInv'
    OBVIOUS
<1>0. /\ CanMove(r, at) /\ resolving' = [resolving EXCEPT ![m] = v]
      /\ UNCHANGED <<row, by, taken, toldReporters>>
    BY DEF MovesTo
<1>1. IsResolving(r) /\ Sound(m, r)
    BY SoundRequests DEF ReportInv, ReportTypes
<1>2. at \in {"find", "log", "logBan", "tell"}
      /\ (at \in {"find", "logBan", "tell"} => r.op = "resolve")
    BY <1>0, <1>1 DEF IsResolving, CanMove
<1>3. /\ at \in {"idle", "author", "find", "mark", "measure"} \cup After
      /\ at \in {"author", "find", "mark", "measure", "logBan", "tell"} => r.op = "resolve"
    BY <1>2 DEF After
<1>4. /\ IsResolving(v)
      /\ v.op = r.op /\ v.on = r.on /\ v.actioned = r.actioned /\ v.at = at
      /\ v.seen = r.seen /\ v.marked = r.marked
    BY <1>1, <1>3, LaterIsResolving
<1>5. r.at # "measure" /\ (at \in After => r.at \in After)
    BY <1>0, <1>2 DEF After, CanMove
<1>6. Sound(m, v)
    BY <1>1, <1>2, <1>4, <1>5 DEF Sound
<1>7. v.marked = {}
    BY <1>1, <1>4, <1>5 DEF Sound
<1>8. Proceeds(m, v)
    BY <1>0, <1>4 DEF Proceeds
<1> QED
    BY <1>0, <1>6, <1>7, <1>8, RequestStepReports

\* A request is over, or has just begun.
LEMMA BeginsOrEnds ==
    ASSUME ReportInv, NEW m \in Moderators, NEW v, IsResolving(v),
           v.seen = {}, v.marked = {}, v.at \notin {"mark", "measure"},
           v.op = "resolve" => v.at \notin After,
           resolving' = [resolving EXCEPT ![m] = v],
           UNCHANGED <<row, by, taken>>,
           toldReporters \subseteq toldReporters',
           \A t \in toldReporters' \ toldReporters :
                /\ t.to \in R!Report /\ t.what \in {"ACTIONED", "DISMISSED"}
                /\ Decided(t.to)
                /\ \E k \in R!On(t.to[2]) : by[k] = t.by /\ row[k] = t.what
    PROVE  ReportInv'
<1>1. Sound(m, v)
    BY DEF Sound
<1>2. Proceeds(m, v)
    BY DEF Proceeds
<1> QED
    BY <1>1, <1>2, RequestStepReports

LEMMA IdleResolving ==
    /\ IsResolving(R!Idle) /\ R!Idle.seen = {} /\ R!Idle.marked = {}
    /\ R!Idle.at = "idle" /\ R!Idle.op = "none"
BY DEF IsResolving, R!Idle

LEMMA EndsReports ==
    ASSUME ReportInv, NEW m \in Moderators, resolving' = [resolving EXCEPT ![m] = R!Idle],
           UNCHANGED <<row, by, taken, toldReporters>>
    PROVE  ReportInv'
BY IdleResolving, BeginsOrEnds DEF After

LEMMA ReadStep ==
    ASSUME ReportInv, NEW m \in Moderators, R!ReadAuthor(m)
    PROVE  ReportInv'
<1> SUFFICES ASSUME NEW r, r = resolving[m],
                    NEW b, b = IF r.ban /\ AuthorOf[r.on] \notin banned THEN AuthorOf[r.on]
                               ELSE NoObject,
                    NEW v, v = [r EXCEPT !.at = "find", !.toBan = b]
             PROVE  ReportInv'
    OBVIOUS
<1>1. /\ r.at = "author" /\ resolving' = [resolving EXCEPT ![m] = v]
      /\ UNCHANGED <<row, by, taken, toldReporters>>
    BY DEF R!ReadAuthor, R!At
<1>0. IsResolving(r)
    BY DEF ReportInv, ReportTypes
<1>2. v = Later(r, "find", b, r.seen, r.marked, r.closed, r.didBan)
    BY <1>0 DEF IsResolving, Later
<1>3. MovesTo(m, "find", b, r.closed, r.didBan)
    BY <1>1, <1>2 DEF MovesTo, CanMove
<1> QED
    BY <1>3, MovesOn

LEMMA FindStep ==
    ASSUME ReportInv, NEW m \in Moderators, R!FindReports(m)
    PROVE  ReportInv'
<1> SUFFICES ASSUME NEW r, r = resolving[m], NEW s, s = R!Open(R!On(r.on)),
                    NEW v, v = [r EXCEPT !.at = "mark", !.seen = s]
             PROVE  ReportInv'
    OBVIOUS
<1>1. /\ r.at = "find" /\ resolving' = [resolving EXCEPT ![m] = v]
      /\ UNCHANGED <<row, by, taken, toldReporters>>
    BY DEF R!FindReports, R!At
<1>2. IsResolving(r) /\ Sound(m, r)
    BY SoundRequests DEF ReportInv, ReportTypes
<1>3. v = Later(r, "mark", r.toBan, s, r.marked, r.closed, r.didBan)
    BY <1>2 DEF IsResolving, Later
<1>4. IsResolving(v) /\ v.op = r.op /\ v.on = r.on /\ v.at = "mark" /\ v.seen = s
      /\ v.marked = r.marked
    BY <1>1, <1>2, <1>3, LaterIsResolving DEF IsResolving
<1>5. v.marked = {}
    BY <1>1, <1>2, <1>4 DEF Sound
<1>6. s \subseteq R!On(r.on) /\ \A k \in s : row[k] # "NONE"
    BY DEF R!Open
<1>7. Sound(m, v)
    BY <1>4, <1>5, <1>6 DEF Sound, After
<1>8. Proceeds(m, v)
    BY <1>1, <1>4 DEF Proceeds
<1> QED
    BY <1>1, <1>5, <1>7, <1>8, RequestStepReports

LEMMA MarkStep ==
    ASSUME ReportInv, NEW m \in Moderators, R!MarkReports(m)
    PROVE  ReportInv'
<1> SUFFICES ASSUME NEW r, r = resolving[m], NEW k, k = R!stillOpen(m),
                    NEW v, v = [r EXCEPT !.at = "measure", !.marked = k]
             PROVE  ReportInv'
    OBVIOUS
<1>1. /\ r.at = "mark" /\ k # {} /\ r.seen \cap R!Locked(m) = {}
      /\ resolving' = [resolving EXCEPT ![m] = v]
      /\ UNCHANGED <<row, by, taken, toldReporters>>
    BY DEF R!MarkReports, R!At
<1>2. /\ IsResolving(r) /\ Sound(m, r) /\ row \in [R!Report -> RowAt]
      /\ r.op = "resolve" /\ r.on \in Object
    BY <1>1, SoundRequests DEF ReportInv, ReportTypes, IsResolving
<1>3. v = Later(r, "measure", r.toBan, r.seen, k, r.closed, r.didBan)
    BY <1>2 DEF IsResolving, Later
<1>4. IsResolving(v) /\ v.op = r.op /\ v.on = r.on /\ v.at = "measure" /\ v.seen = r.seen
      /\ v.marked = k
    BY <1>1, <1>2, <1>3, LaterIsResolving DEF IsResolving
<1>5. k = {j \in r.seen : row[j] = "OPEN"}
    BY DEF R!stillOpen, R!Open
<1>6. ASSUME NEW n \in Moderators \ {m}
      PROVE  k \cap resolving[n].marked = {}
    BY <1>1, <1>5 DEF R!Locked
<1>7. ASSUME NEW j \in r.seen \ k
      PROVE  Decided(j)
    <2>1. j \in R!Report
        BY <1>2 DEF Sound, R!On, R!Report
    <2>2. row[j] # "NONE" /\ row[j] # "OPEN"
        BY <1>1, <1>2, <1>5 DEF Sound
    <2> QED
        BY <1>2, <2>1, <2>2 DEF Decided, RowAt
<1>8. Sound(m, v)
    BY <1>1, <1>2, <1>4, <1>5, <1>7 DEF Sound, After
<1>9. Proceeds(m, v)
    BY <1>1, <1>4 DEF Proceeds
<1> QED
    BY <1>1, <1>4, <1>6, <1>8, <1>9, RequestStepReports

\* The reports marked are decided and the measure is taken, in one transaction.
LEMMA MeasureStep ==
    ASSUME ReportInv, NEW m \in Moderators, R!Measure(m)
    PROVE  ReportInv'
<1> SUFFICES ASSUME NEW r, r = resolving[m],
                    NEW a, a = IF r.toBan = NoObject THEN "log" ELSE "ban",
                    NEW c, c = (r.actioned /\ r.on \in up),
                    NEW v, v = [r EXCEPT !.marked = {}, !.closed = c, !.at = a],
                    NEW verdict, verdict = IF r.actioned THEN "ACTIONED" ELSE "DISMISSED"
             PROVE  ReportInv'
    OBVIOUS
<1>0. ReportTypes /\ Marks /\ ToBeTold /\ MeasureForReports /\ ToldOfADecision
    BY DEF ReportInv
<1>1. /\ r.at = "measure" /\ resolving' = [resolving EXCEPT ![m] = v]
      /\ row' = [k \in R!Report |-> IF k \in r.marked THEN verdict ELSE row[k]]
      /\ by' = [k \in R!Report |-> IF k \in r.marked THEN m ELSE by[k]]
      /\ taken' = IF r.actioned THEN taken \cup {<<m, r.on>>} ELSE taken
      /\ toldReporters' = toldReporters
    BY DEF R!Measure, R!At, R!decision
<1>2. /\ IsResolving(r) /\ Sound(m, r) /\ row \in [R!Report -> RowAt]
      /\ r.op = "resolve" /\ r.on \in Object
    BY <1>0, <1>1, SoundRequests DEF ReportTypes, IsResolving
<1>3. v = Later(r, a, r.toBan, r.seen, {}, c, r.didBan)
    BY <1>2 DEF IsResolving, Later
<1>4. a \in After
    BY DEF After
<1>5. IsResolving(v) /\ v.op = r.op /\ v.on = r.on /\ v.actioned = r.actioned /\ v.at = a
      /\ v.seen = r.seen /\ v.marked = {}
    BY <1>2, <1>3, <1>4, LaterIsResolving DEF After
<1>6. Proceeds(m, v)
    BY <1>1, <1>5 DEF Proceeds
<1>7. /\ resolving' = [n \in Moderators |-> resolving'[n]]
      /\ \A n \in Moderators : IsResolving(resolving'[n])
      /\ resolving'[m] = v
      /\ \A n \in Moderators \ {m} : resolving'[n] = resolving[n]
    BY <1>0, <1>6, ResolvingBecomes
<1>8. /\ r.seen \subseteq R!On(r.on) /\ r.seen \subseteq R!Report
      /\ r.marked # {} /\ r.marked \subseteq r.seen
      /\ \A k \in r.marked : row[k] = "OPEN"
      /\ \A k \in r.seen \ r.marked : Decided(k)
    BY <1>1, <1>2 DEF Sound, R!On, R!Report
\* what was decided stays decided
<1>9. ASSUME NEW k \in R!Report
      PROVE  /\ k \in r.marked => row'[k] = verdict /\ by'[k] = m
             /\ k \notin r.marked => row'[k] = row[k] /\ by'[k] = by[k]
             /\ Decided(k) => k \notin r.marked
    BY <1>1, <1>8 DEF Decided
<1>10. ReportTypes'
    <2>1. row' \in [R!Report -> RowAt]
        BY <1>1, <1>2 DEF RowAt
    <2>2. by' = [k \in R!Report |-> by'[k]]
        BY <1>1
    <2>3. \A t \in taken' : t[2] \in Object
        BY <1>0, <1>1, <1>2 DEF ReportTypes
    <2> QED
        BY <1>0, <1>1, <1>7, <2>1, <2>2, <2>3 DEF ReportTypes, IsResolving
<1>11. ASSUME NEW n \in Moderators
       PROVE  Sound(n, resolving[n])'
    <2>1. CASE n = m
        <3>1. \A k \in r.seen : Decided(k)'
            BY <1>8, <1>9 DEF Decided
        <3>2. \E k \in R!On(r.on) : by'[k] = m /\ row'[k] = verdict
            BY <1>8, <1>9
        <3>3. v.at \notin {"mark", "measure"} /\ v.at \in After
            BY <1>4, <1>5 DEF After
        <3>4. resolving'[n] = v
            BY <1>7, <2>1
        <3> QED
            BY <1>5, <1>8, <2>1, <3>1, <3>2, <3>3, <3>4 DEF Sound
    <2>2. CASE n # m
        <3> SUFFICES ASSUME NEW q, q = resolving[n]
                     PROVE  Sound(n, resolving[n])'
            OBVIOUS
        <3>1. Sound(n, q) /\ resolving'[n] = q /\ IsResolving(q)
            BY <1>0, <1>7, <2>2, SoundRequests DEF ReportTypes
        <3>2. q.marked \cap r.marked = {}
            BY <1>0, <2>2 DEF Marks
        <3>3. q.op = "resolve" => q.seen \subseteq R!Report
            BY <3>1 DEF Sound, IsResolving, R!On, R!Report
        <3>4. q.at \in {"mark", "measure"} \/ q.marked # {} => q.op = "resolve"
            BY <3>1 DEF Sound, IsResolving
        <3>5. q.at = "mark" => \A k \in q.seen : row'[k] # "NONE"
            BY <1>9, <3>1, <3>3, <3>4 DEF Sound
        <3>6. q.at = "measure" => \A k \in q.seen \ q.marked : Decided(k)'
            BY <1>9, <3>1, <3>3, <3>4 DEF Sound, Decided
        <3>7. \A k \in q.marked : row'[k] = "OPEN"
            BY <1>9, <3>1, <3>2, <3>3, <3>4 DEF Sound
        <3>8. ASSUME q.op = "resolve", q.at \in After
              PROVE  /\ \A k \in q.seen : Decided(k)'
                     /\ \E k \in R!On(q.on) : by'[k] = n /\ row'[k] =
                            IF q.actioned THEN "ACTIONED" ELSE "DISMISSED"
            <4>1. \A k \in q.seen : Decided(k)'
                BY <1>9, <3>1, <3>3, <3>8 DEF Sound, Decided
            <4>2. PICK k \in R!On(q.on) :
                    by[k] = n /\ row[k] = IF q.actioned THEN "ACTIONED" ELSE "DISMISSED"
                BY <3>1, <3>8 DEF Sound
            <4>3. k \in R!Report /\ Decided(k)
                BY <3>1, <3>8, <4>2 DEF IsResolving, R!On, R!Report, Decided
            <4> QED
                BY <1>9, <4>1, <4>2, <4>3
        <3> QED
            BY <3>1, <3>5, <3>6, <3>7, <3>8 DEF Sound
    <2> QED
        BY <2>1, <2>2
<1>12. ASSUME NEW n \in Moderators, NEW u \in Moderators, n # u
       PROVE  resolving'[n].marked \cap resolving'[u].marked = {}
    <2>1. resolving[n].marked \cap resolving[u].marked = {}
        BY <1>0, <1>12 DEF Marks
    <2>2. CASE n = m \/ u = m
        BY <1>5, <1>7, <2>2
    <2>3. CASE n # m /\ u # m
        BY <1>7, <2>1, <2>3
    <2> QED
        BY <2>2, <2>3
<1>13. Marks' /\ ToBeTold'
    BY <1>11, <1>12, SoundRequestsNext
<1>14. MeasureForReports'
    <2>1. ASSUME NEW t \in taken'
          PROVE  \E k \in R!On(t[2]) : row'[k] = "ACTIONED" /\ by'[k] = t[1]
        <3>1. CASE t \in taken
            <4>1. PICK k \in R!On(t[2]) : row[k] = "ACTIONED" /\ by[k] = t[1]
                BY <1>0, <3>1 DEF MeasureForReports, R!MeasureForReports
            <4>2. k \in R!Report
                BY <1>0, <3>1, <4>1 DEF ReportTypes, R!On, R!Report
            <4> QED
                BY <1>9, <4>1, <4>2 DEF Decided
        <3>2. CASE r.actioned /\ t = <<m, r.on>>
            <4>1. PICK k \in r.marked : TRUE
                BY <1>8
            <4>2. k \in R!On(r.on) /\ row'[k] = "ACTIONED" /\ by'[k] = m
                BY <1>8, <1>9, <3>2
            <4> QED
                BY <3>2, <4>2
        <3> QED
            BY <1>1, <3>1, <3>2
    <2>2. ASSUME NEW k \in R!Report, row'[k] = "ACTIONED"
          PROVE  <<by'[k], k[2]>> \in taken'
        <3>1. CASE k \in r.marked
            <4>1. r.actioned /\ by'[k] = m /\ k[2] = r.on
                BY <1>8, <1>9, <2>2, <3>1 DEF R!On
            <4> QED
                BY <1>1, <4>1
        <3>2. CASE k \notin r.marked
            BY <1>0, <1>1, <1>9, <2>2, <3>2 DEF MeasureForReports, R!MeasureForReports
        <3> QED
            BY <3>1, <3>2
    <2> QED
        BY <2>1, <2>2 DEF MeasureForReports, R!MeasureForReports
<1>15. ToldOfADecision'
    <2>1. ASSUME NEW t \in toldReporters
          PROVE  /\ row'[t.to] \in {"ACTIONED", "DISMISSED"}
                 /\ \E k \in R!On(t.to[2]) : by'[k] = t.by /\ row'[k] = t.what
        <3>1. /\ t.to \in R!Report /\ t.what \in {"ACTIONED", "DISMISSED"}
              /\ Decided(t.to)
            BY <1>0 DEF ReportTypes, ToldOfADecision, R!ToldOfADecision, Decided
        <3>2. PICK k \in R!On(t.to[2]) : by[k] = t.by /\ row[k] = t.what
            BY <1>0 DEF ToldOfADecision, R!ToldOfADecision
        <3>3. k \in R!Report
            BY <3>1 DEF R!On, R!Report
        <3>4. Decided(k)
            BY <3>1, <3>2 DEF Decided
        <3> QED
            BY <1>9, <3>1, <3>2, <3>3, <3>4 DEF Decided
    <2> QED
        BY <1>1, <2>1 DEF ToldOfADecision, R!ToldOfADecision
<1> QED
    BY <1>10, <1>13, <1>14, <1>15 DEF ReportInv

\* A step that only names the next one.
LEMMA GoesOn ==
    ASSUME ReportInv, NEW m \in Moderators, NEW at, CanMove(resolving[m], at), R!Goes(m, at),
           UNCHANGED <<row, by, taken, toldReporters>>
    PROVE  ReportInv'
<1> SUFFICES ASSUME NEW r, r = resolving[m], NEW v, v = [r EXCEPT !.at = at]
             PROVE  ReportInv'
    OBVIOUS
<1>1. resolving' = [resolving EXCEPT ![m] = v]
    BY DEF R!Goes
<1>2. IsResolving(r)
    BY DEF ReportInv, ReportTypes
<1>3. v = Later(r, at, r.toBan, r.seen, r.marked, r.closed, r.didBan)
    BY <1>2 DEF IsResolving, Later
<1>4. MovesTo(m, at, r.toBan, r.closed, r.didBan)
    BY <1>1, <1>3 DEF MovesTo
<1> QED
    BY <1>4, MovesOn

LEMMA BanStep ==
    ASSUME ReportInv, NEW m \in Moderators, R!BanAuthor(m)
    PROVE  ReportInv'
<1> SUFFICES ASSUME NEW r, r = resolving[m], NEW d, d = (r.toBan \notin banned),
                    NEW v, v = [r EXCEPT !.at = "log", !.didBan = d]
             PROVE  ReportInv'
    OBVIOUS
<1>1. /\ r.at = "ban" /\ resolving' = [resolving EXCEPT ![m] = v]
      /\ UNCHANGED <<row, by, taken, toldReporters>>
    BY DEF R!BanAuthor, R!At
<1>2. IsResolving(r)
    BY DEF ReportInv, ReportTypes
<1>3. v = Later(r, "log", r.toBan, r.seen, r.marked, r.closed, d)
    BY <1>2 DEF IsResolving, Later
<1>4. MovesTo(m, "log", r.toBan, r.closed, d)
    BY <1>1, <1>3 DEF MovesTo, CanMove
<1> QED
    BY <1>4, MovesOn

LEMMA EndsOver ==
    ASSUME ReportInv, NEW m \in Moderators, R!Over(m),
           UNCHANGED <<row, by, taken, toldReporters>>
    PROVE  ReportInv'
BY EndsReports DEF R!Over

LEMMA LogStep ==
    ASSUME ReportInv, NEW m \in Moderators,
           \/ R!Log(m) \/ R!LogBan(m)
           \/ R!BanUser(m) \/ R!UnbanUser(m) \/ R!LogUser(m)
           \/ R!AlreadyResolved(m) \/ R!Fail(m)
    PROVE  ReportInv'
<1>1. CASE R!Log(m)
    <2>1. \E at \in {"logBan", "tell"} : CanMove(resolving[m], at) /\ R!Goes(m, at)
        BY <1>1 DEF R!Log, R!At, CanMove
    <2> QED
        BY <1>1, <2>1, GoesOn DEF R!Log
<1>2. CASE R!LogBan(m)
    <2>1. CanMove(resolving[m], "tell") /\ R!Goes(m, "tell")
        BY <1>2 DEF R!LogBan, R!At, CanMove
    <2> QED
        BY <1>2, <2>1, GoesOn DEF R!LogBan
<1>3. CASE R!BanUser(m) \/ R!UnbanUser(m)
    <2>1. R!Over(m) \/ (CanMove(resolving[m], "log") /\ R!Goes(m, "log"))
        BY <1>3 DEF R!BanUser, R!UnbanUser, R!At, CanMove
    <2>2. UNCHANGED <<row, by, taken, toldReporters>>
        BY <1>3 DEF R!BanUser, R!UnbanUser
    <2> QED
        BY <2>1, <2>2, GoesOn, EndsOver
<1>4. CASE R!LogUser(m)
    BY <1>4, EndsOver DEF R!LogUser
<1>5. CASE R!AlreadyResolved(m)
    BY <1>5, EndsOver DEF R!AlreadyResolved
<1>6. CASE R!Fail(m)
    BY <1>6, EndsOver DEF R!Fail
<1> QED
    BY <1>1, <1>2, <1>3, <1>4, <1>5, <1>6

\* Those whose reports the request found are told, and all of these are decided by now.
LEMMA TellStep ==
    ASSUME ReportInv, NEW m \in Moderators, R!Tell(m)
    PROVE  ReportInv'
<1> SUFFICES ASSUME NEW r, r = resolving[m],
                    NEW verdict, verdict = IF r.actioned THEN "ACTIONED" ELSE "DISMISSED"
             PROVE  ReportInv'
    OBVIOUS
<1>1. /\ r.at = "tell" /\ resolving' = [resolving EXCEPT ![m] = R!Idle]
      /\ UNCHANGED <<row, by, taken>>
      /\ toldReporters' = toldReporters
            \cup {[to |-> k, by |-> m, what |-> verdict] : k \in r.seen}
    BY DEF R!Tell, R!At, R!Over, R!reporters, R!decision
<1>2. Sound(m, r) /\ r.op = "resolve" /\ r.on \in Object
    BY <1>1, SoundRequests DEF ReportInv, ReportTypes, IsResolving
<1>3. /\ r.seen \subseteq R!On(r.on) /\ \A k \in r.seen : Decided(k)
      /\ \E k \in R!On(r.on) : by[k] = m /\ row[k] = verdict
    BY <1>1, <1>2 DEF Sound, After
<1>4. ASSUME NEW t \in toldReporters' \ toldReporters
      PROVE  /\ t.to \in R!Report /\ t.what \in {"ACTIONED", "DISMISSED"}
             /\ Decided(t.to)
             /\ \E k \in R!On(t.to[2]) : by[k] = t.by /\ row[k] = t.what
    <2>1. PICK k \in r.seen : t = [to |-> k, by |-> m, what |-> verdict]
        BY <1>1
    <2>2. t.to = k /\ t.by = m /\ t.what = verdict
        BY <2>1
    <2>3. k \in R!Report /\ k[2] = r.on
        BY <1>2, <1>3 DEF R!On, R!Report
    <2> QED
        BY <1>3, <2>2, <2>3
<1> QED
    BY <1>1, <1>4, IdleResolving, BeginsOrEnds DEF After

LEMMA BeginStep ==
    ASSUME ReportInv, NEW m \in Moderators,
           \/ \E o \in Object, actioned, ban \in BOOLEAN : R!Resolve(m, o, actioned, ban)
           \/ \E u \in User : R!Ban(m, u) \/ R!Unban(m, u)
    PROVE  ReportInv'
<1>1. ASSUME NEW v, IsResolving(v), v.seen = {}, v.marked = {}, v.at \notin {"mark", "measure"},
             v.op = "resolve" => v.at \notin After, R!Begins(m, v)
      PROVE  ReportInv'
    BY <1>1, BeginsOrEnds DEF R!Begins
<1>2. ASSUME NEW o \in Object, NEW actioned \in BOOLEAN, NEW ban \in BOOLEAN,
             R!Resolve(m, o, actioned, ban)
      PROVE  ReportInv'
    <2> SUFFICES ASSUME NEW v, v = R!parseReportDecision(o, actioned, ban)
                 PROVE  ReportInv'
        OBVIOUS
    <2>1. /\ IsResolving(v) /\ v.seen = {} /\ v.marked = {} /\ v.at = "author"
          /\ v.op = "resolve"
        BY DEF R!parseReportDecision, R!Idle, IsResolving
    <2> QED
        BY <1>1, <1>2, <2>1 DEF R!Resolve, After
<1>3. ASSUME NEW u \in User, NEW op \in {"ban", "unban"}, NEW v,
             v = [R!Idle EXCEPT !.op = op, !.on = u, !.at = "ban"], R!Begins(m, v)
      PROVE  ReportInv'
    <2>1. /\ IsResolving(v) /\ v.seen = {} /\ v.marked = {} /\ v.at = "ban"
          /\ v.op = op
        BY <1>3 DEF R!Idle, IsResolving, After
    <2> QED
        BY <1>1, <1>3, <2>1 DEF After
<1> QED
    BY <1>2, <1>3 DEF R!Ban, R!Unban

LEMMA CreateStep ==
    ASSUME ReportInv, NEW r \in Reporter, NEW o \in Object, R!create(r, o)
    PROVE  ReportInv'
<1> SUFFICES ASSUME NEW c, c = <<r, o>>
             PROVE  ReportInv'
    OBVIOUS
<1>0. ReportTypes /\ Marks /\ ToBeTold /\ MeasureForReports /\ ToldOfADecision
    BY DEF ReportInv
<1>1. /\ row[c] = "NONE" /\ row' = [row EXCEPT ![c] = "OPEN"] /\ c \in R!Report
      /\ UNCHANGED <<by, resolving, taken, toldReporters>>
    BY DEF R!create, R!Report
<1>2. row \in [R!Report -> RowAt]
    BY <1>0 DEF ReportTypes
<1>3. row' \in [R!Report -> RowAt]
    BY <1>1, <1>2 DEF RowAt
<1>4. \A k : /\ row[k] # "NONE" => row'[k] = row[k]
             /\ Decided(k) => Decided(k)'
             /\ row'[k] = "ACTIONED" => row[k] = "ACTIONED"
    BY <1>1, <1>2 DEF Decided
<1>5. ReportTypes'
    BY <1>0, <1>1, <1>3 DEF ReportTypes, IsResolving
<1>6. ASSUME NEW n \in Moderators
      PROVE  Sound(n, resolving[n])'
    <2>1. Sound(n, resolving[n]) /\ resolving'[n] = resolving[n]
        BY <1>0, <1>1, SoundRequests
    <2> QED
        BY <1>1, <1>4, <2>1 DEF Sound
<1>7. Marks' /\ ToBeTold'
    BY <1>0, <1>1, <1>6, SoundRequestsNext DEF Marks
<1>8. MeasureForReports'
    <2>1. \A k : row[k] = "ACTIONED" => row'[k] = "ACTIONED"
        BY <1>4
    <2> QED
        BY <1>0, <1>1, <1>4, <2>1 DEF MeasureForReports, R!MeasureForReports
<1>9. ASSUME NEW t \in toldReporters
      PROVE  /\ row'[t.to] \in {"ACTIONED", "DISMISSED"}
             /\ \E k \in R!On(t.to[2]) : by[k] = t.by /\ row'[k] = t.what
    <2>1. Decided(t.to) /\ t.what \in {"ACTIONED", "DISMISSED"}
        BY <1>0 DEF ToldOfADecision, R!ToldOfADecision, ReportTypes, Decided
    <2>2. PICK k \in R!On(t.to[2]) : by[k] = t.by /\ row[k] = t.what
        BY <1>0 DEF ToldOfADecision, R!ToldOfADecision
    <2> QED
        BY <1>4, <2>1, <2>2 DEF Decided
<1>10. ToldOfADecision'
    BY <1>1, <1>9 DEF ToldOfADecision, R!ToldOfADecision
<1> QED
    BY <1>5, <1>7, <1>8, <1>10 DEF ReportInv

LEMMA ReportStep == ReportInv /\ [Next]_vars => ReportInv'
<1> SUFFICES ASSUME ReportInv, [Next]_vars
             PROVE  ReportInv'
    OBVIOUS
<1>1. CASE UNCHANGED <<row, by, resolving, taken, toldReporters>>
    BY <1>1 DEF ReportInv, ReportTypes, IsResolving, Marks, ToBeTold, Decided, R!decision,
       MeasureForReports, R!MeasureForReports, ToldOfADecision, R!ToldOfADecision
<1>2. ASSUME NEW o \in Object, R!Restore(o)
      PROVE  ReportInv'
    BY <1>1, <1>2 DEF R!Restore
<1>3. CASE R!Next
    BY <1>2, <1>3, CreateStep, ReadStep, FindStep, MarkStep, MeasureStep, BanStep, LogStep,
       TellStep, BeginStep DEF R!Next, R!Step
<1>4. CASE UNCHANGED reportVars
    BY <1>1, <1>4 DEF reportVars
<1> QED
    BY <1>3, <1>4 DEF Next, QueueStep, ReportsStep, ListsStep, vars

\* Every measure has a report marked by the moderator who took it, and every report marked
\* as acted on has had its measure, however many moderators decide at once, whatever is
\* reported in between and wherever a request breaks off.
THEOREM MeasureAlwaysForReports == Spec => []MeasureForReports
<1>1. ReportInv => MeasureForReports
    BY DEF ReportInv
<1> QED
    BY ReportInit, ReportStep, <1>1, PTL DEF Spec

\* Whoever is told of a decision has his report decided, and the moderator named has
\* decided as the message says on a report of the same object.
THEOREM AlwaysToldOfADecision == Spec => []ToldOfADecision
<1>1. ReportInv => ToldOfADecision
    BY DEF ReportInv
<1> QED
    BY ReportInit, ReportStep, <1>1, PTL DEF Spec

-----------------------------------------------------------------------------
(* The pages of the lists: what is proved of every state *)

Upto(k, n) == IF k < n THEN k ELSE n

PagedFields ==
    {"filter", "items", "total", "loading", "error", "page", "lastRequest", "timer"}

IsPaged(p) ==
    /\ p = [f \in PagedFields |-> p[f]]
    /\ p.page \in Int /\ p.page >= -1 /\ p.lastRequest \in Nat

\* A page asked for, with what has been read of it.
IsAsked(c) ==
    /\ c = [id |-> c.id, filter |-> c.filter, page |-> c.page, items |-> c.items,
            total |-> c.total]
    /\ c.id \in Nat

\* What was read of a page is still what the list has.
StillTrue(c) ==
    /\ c.items \in {Missing, L!listAll(c.filter, c.page)}
    /\ c.total \in {Missing, Cardinality(L!Matching(c.filter))}

\* Only the last request counts; once the list has started over, it is for the page
\* after those shown.
AsksOn ==
    /\ \A c \in asking : IsAsked(c) /\ c.id <= paged.lastRequest
    /\ \A c, d \in asking : c.id = d.id => c = d
    /\ ~paged.timer => \A c \in asking : c.id = paged.lastRequest =>
            /\ c.filter = paged.filter /\ c.page = paged.page + 1
            /\ ~changed => StillTrue(c)

PagesInv == IsPaged(paged) /\ AsksOn /\ PagesOfFilter

-----------------------------------------------------------------------------
(* Pages *)

\* The rows that match are listed each once: there are as many as are counted.
LEMMA ListedIs ==
    ASSUME NEW filter
    PROVE  LET sortedRows == L!newestFirst(L!Matching(filter)) IN
           /\ Len(sortedRows) = Cardinality(L!Matching(filter)) /\ Len(sortedRows) \in Nat
           /\ \E S : sortedRows \in Seq(S)
<1> DEFINE rows == L!Matching(filter)
           n == Cardinality(rows)
           e(i) == CHOOSE r \in rows : Cardinality({newer \in rows : newer > r}) = i - 1
<1>1. n \in Nat
    <2>1. IsFiniteSet(Row)
        BY ModeratorAssumption DEF L!ListsAssumption, L!IsFiniteSet, IsFiniteSet
    <2>2. rows \subseteq Row
        BY DEF L!Matching
    <2> QED
        BY <2>1, <2>2, FS_Subset, FS_CardinalityType
<1>2. L!newestFirst(rows) = [i \in 1..n |-> e(i)]
    BY DEF L!newestFirst, L!Cardinality, Cardinality
<1> HIDE DEF rows, n, e
<1>3. [i \in 1..n |-> e(i)] \in [1..n -> {e(i) : i \in 1..n}]
    OBVIOUS
<1>4. [i \in 1..n |-> e(i)] \in Seq({e(i) : i \in 1..n})
    BY <1>1, <1>3
<1>5. Len([i \in 1..n |-> e(i)]) = n
    BY <1>1
<1> QED
    BY <1>1, <1>2, <1>4, <1>5 DEF rows, n

\* The next page goes on where those shown end.
LEMMA PagesJoin ==
    ASSUME NEW S, NEW s \in Seq(S), NEW k \in Nat, NEW size \in Nat
    PROVE  SubSeq(s, 1, Upto(k, Len(s))) \o SubSeq(s, k + 1, Upto(k + size, Len(s)))
               = SubSeq(s, 1, Upto(k + size, Len(s)))
<1>1. Len(s) \in Nat
    OBVIOUS
<1>2. CASE k < Len(s)
    <2>1. Upto(k, Len(s)) = k /\ Upto(k + size, Len(s)) \in k..Len(s)
        BY <1>1, <1>2 DEF Upto
    <2> DEFINE n == Upto(k + size, Len(s))
    <2>2. 1 \in 1..Len(s) + 1 /\ k \in 1 - 1..Len(s) /\ n \in k..Len(s)
        BY <1>1, <1>2, <2>1
    <2> HIDE DEF n
    <2>3. SubSeq(s, 1, k) \o SubSeq(s, k + 1, n) = SubSeq(s, 1, n)
        BY <2>2, ConcatAdjacentSubSeq
    <2> QED
        BY <2>1, <2>3 DEF n
<1>3. CASE ~(k < Len(s))
    <2>1. Upto(k, Len(s)) = Len(s) /\ Upto(k + size, Len(s)) = Len(s)
        BY <1>1, <1>3 DEF Upto
    <2>2. SubSeq(s, k + 1, Len(s)) = <<>>
        BY <1>1, <1>3, SubSeqEmpty
    <2>3. SubSeq(s, 1, Len(s)) = s /\ s \o <<>> = s
        BY SubSeqFull, ConcatEmptySeq
    <2> QED
        BY <2>1, <2>2, <2>3
<1> QED
    BY <1>2, <1>3

LEMMA PagesInit == Init => PagesInv
<1> SUFFICES ASSUME Init PROVE PagesInv
    OBVIOUS
<1>1. paged = L!Blank /\ asking = {}
    BY DEF Init, L!Init
<1>2. IsPaged(paged) /\ paged.timer
    BY <1>1 DEF L!Blank, IsPaged, PagedFields
<1>3. PagesOfFilter
    BY <1>2 DEF PagesOfFilter, L!PagesOfFilter
<1> QED
    BY <1>1, <1>2, <1>3 DEF PagesInv, AsksOn

-----------------------------------------------------------------------------
(* Steps at a list *)

\* What the list shows, once it has started over.
Shows(p) ==
    LET sortedRows == L!newestFirst(L!Matching(p.filter)) IN
    /\ p.items = SubSeq(sortedRows, 1, Upto((p.page + 1) * PAGE_SIZE, Len(sortedRows)))
    /\ p.page >= 0 => p.total = Len(sortedRows)

LEMMA PagesAre == PagesOfFilter <=> paged.timer \/ changed \/ Shows(paged)
BY DEF PagesOfFilter, L!PagesOfFilter, Shows, Upto

LEMMA PagesAreNext == PagesOfFilter' <=> paged'.timer \/ changed' \/ Shows(paged)'
BY DEF PagesOfFilter, L!PagesOfFilter, Shows, Upto

\* The rows are as they were: what was true of a page is.
LEMMA SameRows ==
    ASSUME status' = status
    PROVE  /\ \A c : StillTrue(c)' <=> StillTrue(c)
           /\ \A p : Shows(p) <=> Shows(p)'
BY DEF StillTrue, Shows, L!listAll, L!Matching

\* The page the component remembers is as it was, but for what does not matter.
LEMMA KeptPages ==
    ASSUME PagesInv, IsPaged(paged'), status' = status, changed' = changed,
           asking' \subseteq asking,
           paged'.filter = paged.filter, paged'.items = paged.items,
           paged'.total = paged.total, paged'.page = paged.page,
           paged'.lastRequest = paged.lastRequest, paged'.timer = paged.timer
    PROVE  PagesInv'
<1>1. AsksOn'
    BY SameRows DEF PagesInv, AsksOn, IsAsked
<1>2. Shows(paged) => Shows(paged)'
    BY DEF Shows, L!Matching
<1>3. PagesOfFilter'
    BY <1>2, PagesAre, PagesAreNext DEF PagesInv
<1> QED
    BY <1>1, <1>3 DEF PagesInv, IsPaged

LEMMA AlterPages ==
    ASSUME PagesInv, NEW r \in Row, L!Alter(r)
    PROVE  PagesInv'
<1>1. changed' /\ paged' = paged /\ asking' = asking
    BY DEF L!Alter
<1>2. AsksOn'
    BY <1>1 DEF PagesInv, AsksOn, IsAsked
<1> QED
    BY <1>1, <1>2, PagesAreNext DEF PagesInv, IsPaged

\* What the two queries of a page leave.
LEMMA ItemsRead ==
    ASSUME NEW c, IsAsked(c), NEW v
    PROVE  LET d == [c EXCEPT !.items = v] IN
           /\ IsAsked(d) /\ d.id = c.id /\ d.filter = c.filter /\ d.page = c.page
           /\ d.total = c.total /\ d.items = v
<1> DEFINE d == [c EXCEPT !.items = v]
<1>1. d = [id |-> c.id, filter |-> c.filter, page |-> c.page, items |-> v, total |-> c.total]
    BY DEF IsAsked
<1> QED
    BY <1>1 DEF IsAsked

LEMMA TotalRead ==
    ASSUME NEW c, IsAsked(c), NEW v
    PROVE  LET d == [c EXCEPT !.total = v] IN
           /\ IsAsked(d) /\ d.id = c.id /\ d.filter = c.filter /\ d.page = c.page
           /\ d.items = c.items /\ d.total = v
<1> DEFINE d == [c EXCEPT !.total = v]
<1>1. d = [id |-> c.id, filter |-> c.filter, page |-> c.page, items |-> c.items, total |-> v]
    BY DEF IsAsked
<1> QED
    BY <1>1 DEF IsAsked

LEMMA QueryPages ==
    ASSUME PagesInv, NEW c \in asking, NEW part \in {"items", "total"}, L!Query(c, part)
    PROVE  PagesInv'
<1> DEFINE read == IF part = "items" THEN L!listAll(c.filter, c.page)
                   ELSE Cardinality(L!Matching(c.filter))
           d == [c EXCEPT ![part] = read]
<1>1. /\ asking' = (asking \ {c}) \cup {d}
      /\ status' = status /\ paged' = paged /\ changed' = changed
    BY DEF L!Query, L!Cardinality, Cardinality
<1>2. IsAsked(c) /\ c.id <= paged.lastRequest
    BY DEF PagesInv, AsksOn
<1>3. /\ IsAsked(d) /\ d.id = c.id /\ d.filter = c.filter /\ d.page = c.page
      /\ StillTrue(c) => StillTrue(d)
    <2>1. CASE part = "items"
        <3>1. d = [c EXCEPT !.items = L!listAll(c.filter, c.page)]
            BY <2>1
        <3> QED
            BY <1>2, <3>1, ItemsRead DEF StillTrue
    <2>2. CASE part = "total"
        <3>1. d = [c EXCEPT !.total = Cardinality(L!Matching(c.filter))]
            BY <2>2
        <3> QED
            BY <1>2, <3>1, TotalRead DEF StillTrue
    <2> QED
        BY <2>1, <2>2
<1> HIDE DEF d
<1>4. AsksOn'
    <2>1. \A e \in asking' : IsAsked(e)' /\ e.id <= paged'.lastRequest
        BY <1>1, <1>2, <1>3 DEF PagesInv, AsksOn, IsAsked
    <2>2. \A e, f \in asking' : e.id = f.id => e = f
        BY <1>1, <1>3 DEF PagesInv, AsksOn
    <2>3. ASSUME ~paged'.timer, NEW e \in asking', e.id = paged'.lastRequest
          PROVE  e.filter = paged'.filter /\ e.page = paged'.page + 1 /\ (~changed' => StillTrue(e)')
        BY <1>1, <1>3, <2>3, SameRows DEF PagesInv, AsksOn
    <2> QED
        BY <2>1, <2>2, <2>3 DEF AsksOn
<1>5. PagesOfFilter'
    <2>1. Shows(paged) => Shows(paged)'
        BY <1>1 DEF Shows, L!Matching
    <2> QED
        BY <1>1, <2>1, PagesAre, PagesAreNext DEF PagesInv
<1> QED
    BY <1>1, <1>4, <1>5 DEF PagesInv, IsPaged

\* A list starts over.
LEMMA ClearedOf ==
    ASSUME NEW p, IsPaged(p)
    PROVE  LET q == [p EXCEPT !.page = -1, !.items = <<>>, !.error = FALSE, !.timer = FALSE]
           IN  /\ IsPaged(q) /\ q.filter = p.filter /\ q.items = <<>> /\ q.page = -1
               /\ q.lastRequest = p.lastRequest
<1> DEFINE n == [p EXCEPT !.page = -1]
           q == [n EXCEPT !.items = <<>>, !.error = FALSE, !.timer = FALSE]
<1>1. /\ IsPaged(n) /\ n.filter = p.filter /\ n.page = -1 /\ n.lastRequest = p.lastRequest
    BY DEF IsPaged, PagedFields
<1> HIDE DEF n
<1>2. /\ IsPaged(q) /\ q.filter = p.filter /\ q.items = <<>> /\ q.page = -1
      /\ q.lastRequest = p.lastRequest
    BY <1>1 DEF IsPaged, PagedFields
<1>3. q = [p EXCEPT !.page = -1, !.items = <<>>, !.error = FALSE, !.timer = FALSE]
    BY Zenon DEF n
<1> QED
    BY <1>2, <1>3

\* A list waits for the page it has asked for.
LEMMA AskedOf ==
    ASSUME NEW p, IsPaged(p), NEW id \in Nat
    PROVE  LET q == [p EXCEPT !.lastRequest = id, !.loading = TRUE] IN
           /\ IsPaged(q) /\ q.filter = p.filter /\ q.items = p.items /\ q.total = p.total
           /\ q.page = p.page /\ q.lastRequest = id /\ q.timer = p.timer
BY DEF IsPaged, PagedFields

\* A page is asked for: the first after a change of the filter, or the next.
LEMMA AskPages ==
    ASSUME PagesInv, L!StartOver \/ L!More
    PROVE  PagesInv'
<1> DEFINE id == paged.lastRequest + 1
           c == [id |-> id, filter |-> paged'.filter, page |-> paged'.page + 1,
                 items |-> Missing, total |-> Missing]
<1>1. /\ status' = status /\ IsPaged(paged') /\ paged'.filter = paged.filter
      /\ paged'.lastRequest = id /\ asking' = asking \cup {c}
    <2>1. CASE L!StartOver
        <3> DEFINE p == [paged EXCEPT !.page = -1, !.items = <<>>, !.error = FALSE,
                                      !.timer = FALSE]
        <3>1. /\ status' = status /\ paged' = [p EXCEPT !.lastRequest = id, !.loading = TRUE]
              /\ asking' = asking \cup {[id |-> id, filter |-> p.filter, page |-> p.page + 1,
                                         items |-> Missing, total |-> Missing]}
            BY <2>1 DEF L!StartOver, L!loadMore
        <3>2. id \in Nat
            BY DEF PagesInv, IsPaged
        <3>3. /\ IsPaged(p) /\ p.filter = paged.filter
            BY ClearedOf DEF PagesInv
        <3> HIDE DEF p, id
        <3>4. /\ IsPaged(paged') /\ paged'.filter = p.filter /\ paged'.page = p.page
              /\ paged'.lastRequest = id
            BY <3>1, <3>2, <3>3, AskedOf
        <3> QED
            BY <3>1, <3>3, <3>4
    <2>2. CASE L!More
        <3>1. /\ status' = status
              /\ paged' = [paged EXCEPT !.lastRequest = id, !.loading = TRUE]
              /\ asking' = asking \cup {[id |-> id, filter |-> paged.filter,
                                         page |-> paged.page + 1,
                                         items |-> Missing, total |-> Missing]}
            BY <2>2 DEF L!More, L!loadMore
        <3>2. id \in Nat
            BY DEF PagesInv, IsPaged
        <3> HIDE DEF id
        <3>3. /\ IsPaged(paged') /\ paged'.filter = paged.filter
              /\ paged'.page = paged.page /\ paged'.lastRequest = id
            BY <3>1, <3>2, AskedOf DEF PagesInv
        <3> QED
            BY <3>1, <3>3
    <2> QED
        BY <2>1, <2>2
<1>2. \A d \in asking : d.id < id
    BY DEF PagesInv, AsksOn, IsAsked, IsPaged
<1>3. IsAsked(c) /\ c.id = id
    BY DEF IsAsked, PagesInv, IsPaged
<1>4. /\ c.filter = paged'.filter /\ c.page = paged'.page + 1
      /\ c.items = Missing /\ c.total = Missing
    OBVIOUS
<1>5. id \in Nat /\ \A d \in asking : d.id \in Nat
    BY DEF PagesInv, AsksOn, IsAsked, IsPaged
<1> HIDE DEF c, id
<1>6. AsksOn'
    <2>1. \A e \in asking' : IsAsked(e)' /\ e.id <= paged'.lastRequest
        BY <1>1, <1>2, <1>3, <1>5 DEF PagesInv, AsksOn, IsAsked
    <2>2. \A e, f \in asking' : e.id = f.id => e = f
        BY <1>1, <1>2, <1>3, <1>5 DEF PagesInv, AsksOn
    <2>3. ASSUME NEW e \in asking', e.id = paged'.lastRequest
          PROVE  e.filter = paged'.filter /\ e.page = paged'.page + 1 /\ StillTrue(e)'
        <3>1. e = c
            BY <1>1, <1>2, <1>5, <2>3
        <3> QED
            BY <1>4, <3>1 DEF StillTrue
    <2> QED
        BY <2>1, <2>2, <2>3 DEF AsksOn
<1>7. PagesOfFilter'
    <2>1. CASE L!StartOver
        <3>1. paged'.items = <<>> /\ paged'.page = -1
            BY <2>1 DEF L!StartOver, L!loadMore, PagesInv, IsPaged
        <3> DEFINE sortedRows == L!newestFirst(L!Matching(paged'.filter))
        <3>2. Len(sortedRows) \in Nat
            BY ListedIs
        <3>3. PAGE_SIZE \in Nat
            BY ModeratorAssumption DEF L!ListsAssumption
        <3>4. Upto((paged'.page + 1) * PAGE_SIZE, Len(sortedRows)) = 0
            BY <3>1, <3>2, <3>3 DEF Upto
        <3>5. SubSeq(sortedRows, 1, 0) = <<>>
            BY SubSeqEmpty
        <3>6. Shows(paged')
            BY <3>1, <3>4, <3>5 DEF Shows
        <3>7. Shows(paged)'
            BY <1>1, <3>6 DEF Shows, L!Matching
        <3> QED
            BY <3>7, PagesAreNext
    <2>2. CASE L!More
        <3>1. /\ paged'.items = paged.items /\ paged'.page = paged.page
              /\ paged'.total = paged.total /\ paged'.timer = paged.timer /\ changed' = changed
            BY <2>2 DEF L!More, L!loadMore, PagesInv, IsPaged
        <3>2. Shows(paged) => Shows(paged)'
            BY <1>1, <3>1 DEF Shows, L!Matching
        <3> QED
            BY <3>1, <3>2, PagesAre, PagesAreNext DEF PagesInv
    <2> QED
        BY <2>1, <2>2
<1> QED
    BY <1>1, <1>6, <1>7 DEF PagesInv, IsPaged

LEMMA FilterPages ==
    ASSUME PagesInv, NEW f \in FILTERS, L!setFilter(f)
    PROVE  PagesInv'
<1>1. /\ paged'.timer /\ IsPaged(paged') /\ paged'.lastRequest = paged.lastRequest
      /\ asking' = asking
    BY DEF L!setFilter, PagesInv, IsPaged, PagedFields
<1>2. AsksOn'
    BY <1>1 DEF PagesInv, AsksOn, IsAsked
<1> QED
    BY <1>1, <1>2, PagesAreNext DEF PagesInv, IsPaged

\* What a list is besides what it shows of loading and of an error.
LEMMA LoadingOf ==
    ASSUME NEW p, IsPaged(p), NEW loading
    PROVE  LET q == [p EXCEPT !.loading = loading] IN
           /\ IsPaged(q) /\ q.filter = p.filter /\ q.items = p.items /\ q.total = p.total
           /\ q.page = p.page /\ q.lastRequest = p.lastRequest /\ q.timer = p.timer
BY DEF IsPaged, PagedFields

LEMMA ErrorOf ==
    ASSUME NEW p, IsPaged(p)
    PROVE  LET q == [p EXCEPT !.error = TRUE, !.loading = FALSE] IN
           /\ IsPaged(q) /\ q.filter = p.filter /\ q.items = p.items /\ q.total = p.total
           /\ q.page = p.page /\ q.lastRequest = p.lastRequest /\ q.timer = p.timer
BY DEF IsPaged, PagedFields

\* The answer that counts is for the page after those shown, and the list goes on with
\* it; another changes nothing that is shown.
LEMMA AnsweredPages ==
    ASSUME PagesInv, NEW c \in asking, L!Answered(c)
    PROVE  PagesInv'
<1>1. /\ asking' = asking \ {c} /\ status' = status /\ changed' = changed
      /\ Missing \notin {c.items, c.total}
    BY DEF L!Answered
<1>2. CASE ~L!current(c)
    <2> DEFINE loading == paged.loading /\ ~L!Heeds(c)
    <2>1. paged' = [paged EXCEPT !.loading = loading]
        BY <1>2, Zenon DEF L!Answered
    <2> HIDE DEF loading
    <2>2. /\ IsPaged(paged') /\ paged'.filter = paged.filter /\ paged'.items = paged.items
          /\ paged'.total = paged.total /\ paged'.page = paged.page
          /\ paged'.lastRequest = paged.lastRequest /\ paged'.timer = paged.timer
        BY <2>1, LoadingOf DEF PagesInv
    <2> QED
        BY <1>1, <2>2, KeptPages
<1>3. CASE L!current(c)
    <2>1. c.id = paged.lastRequest
        BY <1>3 DEF L!current
    <2>2. /\ IsPaged(paged') /\ paged'.filter = paged.filter
          /\ paged'.items = paged.items \o c.items /\ paged'.total = c.total
          /\ paged'.page = paged.page + 1
          /\ paged'.lastRequest = paged.lastRequest /\ paged'.timer = paged.timer
        <3> DEFINE items == paged.items \o c.items
                   page == paged.page + 1
                   q == [paged EXCEPT !.items = items, !.total = c.total, !.page = page,
                                      !.loading = FALSE]
        <3>1. paged' = q
            BY <1>3 DEF L!Answered
        <3>2. page \in Int /\ page >= -1
            BY DEF PagesInv, IsPaged
        <3> HIDE DEF items, page
        <3>3. /\ IsPaged(q) /\ q.filter = paged.filter /\ q.items = items
              /\ q.total = c.total /\ q.page = page
              /\ q.lastRequest = paged.lastRequest /\ q.timer = paged.timer
            BY <3>2 DEF PagesInv, IsPaged, PagedFields
        <3> HIDE DEF q
        <3> QED
            BY <3>1, <3>3 DEF items, page
    <2>3. \A d \in asking' : d \in asking /\ d.id # paged.lastRequest
        BY <1>1, <2>1 DEF PagesInv, AsksOn
    <2>4. AsksOn'
        BY <2>2, <2>3 DEF PagesInv, AsksOn, IsAsked
    <2>5. ASSUME ~paged.timer, ~changed
          PROVE  Shows(paged')
        <3> DEFINE sortedRows == L!newestFirst(L!Matching(paged.filter))
                   k == (paged.page + 1) * PAGE_SIZE
        <3>1. /\ paged.items = SubSeq(sortedRows, 1, Upto(k, Len(sortedRows)))
            BY <2>5, PagesAre DEF PagesInv, Shows
        <3>2. /\ c.filter = paged.filter /\ c.page = paged.page + 1
              /\ c.items = L!listAll(c.filter, c.page)
              /\ c.total = Cardinality(L!Matching(c.filter))
            BY <1>1, <2>1, <2>5 DEF PagesInv, AsksOn, StillTrue
        <3>3. c.items = SubSeq(sortedRows, k + 1, Upto(k + PAGE_SIZE, Len(sortedRows)))
            BY <3>2 DEF L!listAll, Upto
        <3>4. PAGE_SIZE \in Nat /\ paged.page + 1 \in Nat
            BY ModeratorAssumption DEF L!ListsAssumption, PagesInv, IsPaged
        <3>5. k \in Nat /\ (paged'.page + 1) * PAGE_SIZE = k + PAGE_SIZE
            <4> DEFINE p == paged.page + 1
            <4>1. p \in Nat /\ paged'.page + 1 = p + 1
                BY <2>2, <3>4 DEF PagesInv, IsPaged
            <4> HIDE DEF p
            <4>2. p * PAGE_SIZE \in Nat /\ (p + 1) * PAGE_SIZE = p * PAGE_SIZE + PAGE_SIZE
                BY <3>4, <4>1
            <4> QED
                BY <4>1, <4>2 DEF p
        <3>6. /\ Len(sortedRows) = Cardinality(L!Matching(paged.filter))
              /\ \E S : sortedRows \in Seq(S)
            BY ListedIs
        <3> HIDE DEF sortedRows, k
        <3>7. paged.items \o c.items = SubSeq(sortedRows, 1, Upto(k + PAGE_SIZE, Len(sortedRows)))
            BY <3>1, <3>3, <3>4, <3>5, <3>6, PagesJoin
        <3> QED
            BY <2>2, <3>2, <3>5, <3>6, <3>7 DEF Shows, sortedRows
    <2>6. Shows(paged') => Shows(paged)'
        BY <1>1 DEF Shows, L!Matching
    <2>7. PagesOfFilter'
        BY <1>1, <2>2, <2>5, <2>6, PagesAreNext
    <2> QED
        BY <2>2, <2>4, <2>7 DEF PagesInv, IsPaged
<1> QED
    BY <1>2, <1>3

LEMMA MissedPages ==
    ASSUME PagesInv, NEW c \in asking, L!Missed(c)
    PROVE  PagesInv'
<1>1. asking' \subseteq asking /\ status' = status /\ changed' = changed
    BY DEF L!Missed
<1>2. paged' = paged \/ paged' = [paged EXCEPT !.error = TRUE, !.loading = FALSE]
    BY DEF L!Missed
<1>3. /\ IsPaged(paged') /\ paged'.filter = paged.filter /\ paged'.items = paged.items
      /\ paged'.total = paged.total /\ paged'.page = paged.page
      /\ paged'.lastRequest = paged.lastRequest /\ paged'.timer = paged.timer
    BY <1>2, ErrorOf DEF PagesInv
<1> QED
    BY <1>1, <1>3, KeptPages

LEMMA PagesStep == PagesInv /\ [Next]_vars => PagesInv'
<1> SUFFICES ASSUME PagesInv, [Next]_vars PROVE PagesInv'
    OBVIOUS
<1>1. CASE L!Next
    BY <1>1, AlterPages, QueryPages, AskPages, FilterPages, AnsweredPages, MissedPages DEF L!Next
<1>2. CASE UNCHANGED listVars
    BY <1>2, KeptPages DEF listVars, PagesInv
<1> QED
    BY <1>1, <1>2 DEF Next, QueueStep, ReportsStep, ListsStep, vars

\* Whatever answers come late, twice over or not at all, a list that has started over
\* shows the pages of its filter in order, each once, until a row changes (usePaged.ts,
\* ModUsersView, ModAllOrdersView).
THEOREM PagesAlwaysOfFilter == Spec => []PagesOfFilter
<1>1. PagesInv => PagesOfFilter
    BY DEF PagesInv
<1> QED
    BY PagesInit, PagesStep, <1>1, PTL DEF Spec
=============================================================================
