-------------------------- MODULE Advertiser_proofs --------------------------
(***************************************************************************)
(* What holds of the screens of an advertiser for any number of orders,    *)
(* forms, videos and faults: of "my orders" (Cabinet), of the report on an *)
(* order (OrderReport), and of the order form (OrderForm). Each part first *)
(* describes the state by an invariant every step keeps, and then draws    *)
(* what the screens promise from it.                                       *)
(***************************************************************************)
EXTENDS Advertiser, FiniteSetTheorems, SequenceTheorems, TLAPS

-----------------------------------------------------------------------------
(* The card of an order: reminders *)

MyFields == {"status", "published", "deadline", "requested", "reminded", "overtaken"}
AskedFields == {"kind", "days", "at", "shown", "frozen", "deadline", "burned", "rows",
                "burnt", "published"}

\* What the requests and the tasks compute with: times, the fields of the row, and
\* those of a request.
CardType ==
    /\ now \in Int
    /\ DOMAIN my = MyFields /\ my = [f \in MyFields |-> my[f]]
    /\ my.deadline \in Int /\ my.requested \in Int
    /\ my.reminded \in BOOLEAN /\ my.overtaken \in BOOLEAN
    /\ DOMAIN jobs = {"soon", "overdue"}
    /\ asked # C!NoRequest =>
        /\ DOMAIN asked = AskedFields /\ asked.kind \in {"close", "extend", "remove"}
        /\ asked.at \in {"sent", "read"} => asked.deadline \in Int /\ asked.days \in Int

\* What the reminder of an order rests on: one that is reviewed has none, as an edit
\* takes it back; and a task that has seen a deadline has seen one within a day.
Reminders ==
    /\ my.status \in {"PENDING_MODERATION", "EDIT_REJECTED", "REJECTED"} => ~my.reminded
    /\ jobs.soon # None => jobs.soon \in Int /\ jobs.soon < now + DAY
    /\ C!ReminderTrue

ReminderInv == CardType /\ Reminders

LEMMA CabinetInit == Init => C!Init
BY DEF Init

LEMMA CabinetStep == [Next]_vars => [C!Next]_(C!vars)
BY DEF Next, FormStep, OrdersStep, ReportStep, vars, cabinetVars, C!vars, C!outside, C!bounds

LEMMA CabinetConstants ==
    /\ DAY \in Int /\ DAY > 0
    /\ \A days \in Days : days \in Int
<1>1. DAY \in Nat \ {0} /\ Days \subseteq Nat \ {0}
  BY AdvertiserAssumption DEF C!CabinetAssumption
<1> QED BY <1>1

LEMMA ReminderInit == C!Init => ReminderInv
<1> SUFFICES ASSUME C!Init PROVE ReminderInv  OBVIOUS
<1>1. /\ now = 0 /\ asked = C!NoRequest /\ jobs = [soon |-> None, overdue |-> FALSE]
      /\ my \in [status : {"OPEN", "PENDING_MODERATION"}, published : BOOLEAN,
                 deadline : {0, DAY - 1}, requested : {0}, reminded : {FALSE},
                 overtaken : {FALSE}]
  BY DEF C!Init
<1>2. DAY - 1 \in Int /\ 0 \in Int  BY CabinetConstants
<1> QED BY <1>1, <1>2 DEF ReminderInv, CardType, Reminders, C!ReminderTrue, MyFields

LEMMA CardTypeStep == CardType /\ C!Next => CardType'
<1> SUFFICES ASSUME CardType, C!Next PROVE CardType'  OBVIOUS
<1>0. /\ DAY \in Int /\ DAY > 0 /\ \A days \in Days : days \in Int  BY CabinetConstants
<1>1. CASE C!Tick
  BY <1>1 DEF CardType, C!Tick, C!outside, C!bounds
<1>2. CASE \/ \E c \in Creator : C!ClaimCheck(c) \/ C!Claim(c)
           \/ \E i \in DOMAIN slots : C!SlotOver(i)
  BY <1>2 DEF CardType, C!ClaimCheck, C!Claim, C!SlotOver, C!outside, C!bounds
<1>3. CASE \E keep \in BOOLEAN : C!Edit(keep)
  <2>1. PICK deadline :
            /\ deadline \in {0, my.deadline, my.deadline + (now - my.requested)}
            /\ my' = [my EXCEPT !.status = "PENDING_MODERATION", !.requested = now,
                         !.reminded = FALSE, !.overtaken = FALSE, !.deadline = deadline]
    BY <1>3 DEF CardType, MyFields, C!Edit
  <2>2. now' = now /\ jobs' = jobs /\ asked' = asked  BY <1>3 DEF C!Edit, C!outside
  <2>3. deadline \in Int  BY <2>1 DEF CardType
  <2> QED BY <2>1, <2>2, <2>3 DEF CardType, MyFields
<1>4. CASE C!moderatorApprove
  <2>1. /\ now' = now /\ jobs' = jobs /\ asked' = C!seenPublished(asked)
        /\ my' = [my EXCEPT !.status = "OPEN", !.published = TRUE,
                  !.deadline = IF @ = 0 THEN 0 ELSE @ + (now - my.requested)]
    BY <1>4 DEF C!moderatorApprove, C!outside
  <2>2. asked' # C!NoRequest =>
        /\ DOMAIN asked' = AskedFields /\ asked'.kind \in {"close", "extend", "remove"}
        /\ asked'.at \in {"sent", "read"} => asked'.deadline \in Int /\ asked'.days \in Int
    BY <2>1 DEF CardType, AskedFields, C!seenPublished, C!NoRequest
  <2>3. PICK deadline :
            /\ deadline \in {0, my.deadline + (now - my.requested)}
            /\ my' = [my EXCEPT !.status = "OPEN", !.published = TRUE, !.deadline = deadline]
    BY <2>1 DEF CardType, MyFields
  <2>4. deadline \in Int  BY <2>3 DEF CardType
  <2> QED BY <2>1, <2>2, <2>3, <2>4 DEF CardType, MyFields
<1>5. CASE C!moderatorReject \/ C!moderatorClose
  BY <1>5 DEF CardType, MyFields, C!moderatorReject, C!moderatorClose, C!outside, C!bounds
<1>6. CASE C!Elsewhere
  <2>1. /\ now' = now /\ jobs' = jobs /\ asked' = asked
        /\ \/ \E s \in {"CLOSED", "GONE"} : my' = [my EXCEPT !.status = s]
           \/ \E days \in Days : my' = C!extended(my, C!extendedDeadline(my.deadline, days))
    BY <1>6 DEF C!Elsewhere, C!outside
  <2>2. ASSUME NEW days \in Days PROVE C!extendedDeadline(my.deadline, days) \in Int
    <3>1. days \in Int /\ my.deadline \in Int /\ now \in Int  BY <1>0 DEF CardType
    <3>2. days * DAY \in Int  BY <1>0, <3>1
    <3> QED BY <3>1, <3>2 DEF C!extendedDeadline
  <2> QED BY <2>1, <2>2 DEF CardType, MyFields, C!extended
<1>7. CASE C!Tasks
  BY <1>7 DEF CardType, MyFields, C!Tasks, C!listDeadlineSoon, C!markDeadlineReminded,
     C!listOverdue, C!expire, C!bounds
<1>8. CASE C!Extend
  BY <1>8 DEF CardType, C!Extend, C!outside, C!bounds
<1>9. CASE \/ \E kind \in {"close", "remove"} : C!Press(kind, 0)
           \/ \E days \in Days : C!Press("extend", days)
  BY <1>0, <1>9 DEF CardType, AskedFields, C!Press, C!outside, C!bounds
<1>10. CASE C!Read
  <2>1. /\ asked # C!NoRequest /\ asked.at = "sent"
        /\ now' = now /\ jobs' = jobs /\ my' = my
        /\ asked' = CASE asked.kind = "close" ->
                 [asked EXCEPT !.at = "read", !.frozen = C!isFrozen(my),
                               !.burned = C!burned, !.rows = C!Rows]
            [] asked.kind = "extend" -> [asked EXCEPT !.at = "read", !.deadline = my.deadline]
            [] asked.kind = "remove" -> [asked EXCEPT !.at = "read"]
    BY <1>10 DEF C!Read, C!busy, C!outside
  <2> QED BY <2>1 DEF CardType, AskedFields
<1>11. CASE C!Write
  <2>1. /\ asked # C!NoRequest /\ asked.at = "read" /\ now' = now /\ jobs' = jobs
        /\ \/ \E s \in {"CLOSED", "GONE"} : my' = [my EXCEPT !.status = s]
           \/ my' = C!extended(my, C!extendedDeadline(asked.deadline, asked.days))
        /\ \/ asked' = C!written(asked)
           \/ \E S : asked' = [C!written(asked) EXCEPT !.burnt = S]
    BY <1>11 DEF C!Write, C!Close, C!ExtendTo, C!Remove, C!busy, C!outside
  <2>2. C!extendedDeadline(asked.deadline, asked.days) \in Int
    <3>1. asked.days \in Int /\ asked.deadline \in Int /\ now \in Int  BY <2>1 DEF CardType
    <3>2. asked.days * DAY \in Int  BY <1>0, <3>1
    <3> QED BY <3>1, <3>2 DEF C!extendedDeadline
  <2>3. /\ DOMAIN asked' = AskedFields /\ asked'.at = "written"
        /\ asked'.kind \in {"close", "extend", "remove"}
    BY <2>1 DEF CardType, AskedFields, C!written
  <2> QED BY <2>1, <2>2, <2>3 DEF CardType, MyFields, C!extended
<1>12. CASE C!Answered \/ C!Refused \/ C!Lost
  BY <1>12 DEF CardType, C!Answered, C!Refused, C!Lost, C!outside, C!bounds
<1>13. CASE C!List
  BY <1>13 DEF CardType, C!List, C!Loaded, C!LoadFailed, C!Retry, C!outside, C!bounds
<1> QED BY <1>1, <1>2, <1>3, <1>4, <1>5, <1>6, <1>7, <1>8, <1>9, <1>10, <1>11, <1>12, <1>13
    DEF C!Next, C!Others, C!Card

LEMMA ReminderStep == ReminderInv /\ [C!Next]_(C!vars) => ReminderInv'
<1> SUFFICES ASSUME ReminderInv, [C!Next]_(C!vars) PROVE ReminderInv'  OBVIOUS
<1>0. DAY \in Int /\ DAY > 0  BY CabinetConstants
<1>1. CASE UNCHANGED C!vars
  BY <1>1 DEF ReminderInv, CardType, Reminders, C!ReminderTrue, C!vars, C!outside, C!bounds
<1>2. CASE C!Next
  <2>1. CardType /\ CardType' /\ Reminders  BY <1>2, CardTypeStep DEF ReminderInv
  <2> SUFFICES Reminders'  BY <2>1 DEF ReminderInv
  <2>2. CASE C!Tick
    BY <1>0, <2>1, <2>2 DEF CardType, Reminders, C!ReminderTrue, C!Tick, C!outside, C!bounds
  <2>3. CASE UNCHANGED <<now, my, jobs>>
    BY <2>1, <2>3 DEF Reminders, C!ReminderTrue
  <2>4. CASE now' = now /\ jobs' = jobs /\ ~my'.reminded
    BY <2>1, <2>4 DEF Reminders, C!ReminderTrue
  <2>5. CASE /\ now' = now /\ jobs' = jobs
             /\ \/ my'.status \in {"CLOSED", "EXPIRED", "GONE"}
                \/ /\ my.status = "PENDING_MODERATION"
                   /\ my'.reminded = my.reminded
    BY <2>1, <2>5 DEF Reminders, C!ReminderTrue
  <2>6. CASE C!listDeadlineSoon
    BY <1>0, <2>1, <2>6 DEF CardType, Reminders, C!ReminderTrue, C!listDeadlineSoon, C!bounds
  <2>7. CASE C!markDeadlineReminded
    <3>1. /\ now' = now /\ jobs.soon # None /\ jobs' = [jobs EXCEPT !.soon = None]
          /\ my' = IF my.status = "OPEN" /\ ~my.reminded
                   THEN [my EXCEPT !.reminded = TRUE, !.overtaken = my.deadline # jobs.soon]
                   ELSE my
      BY <2>7 DEF C!markDeadlineReminded
    <3>2. jobs'.soon = None  BY <2>1, <3>1 DEF CardType
    <3>3. CASE my' = my
      BY <2>1, <3>1, <3>2, <3>3 DEF Reminders, C!ReminderTrue
    <3>4. CASE /\ my.status = "OPEN"
               /\ my' = [my EXCEPT !.reminded = TRUE, !.overtaken = my.deadline # jobs.soon]
      <4>1. /\ my'.status = "OPEN" /\ my'.deadline = my.deadline
            /\ my'.overtaken = (my.deadline # jobs.soon)
        BY <2>1, <3>4 DEF CardType, MyFields
      <4> QED BY <2>1, <3>1, <3>2, <4>1 DEF Reminders, C!ReminderTrue
    <3> QED BY <3>1, <3>3, <3>4
  <2>8. CASE C!moderatorApprove \/ C!moderatorReject
    <3>1. /\ now' = now /\ jobs' = jobs /\ my.status = "PENDING_MODERATION"
          /\ my'.reminded = my.reminded
      BY <2>1, <2>8 DEF C!moderatorApprove, C!moderatorReject, C!outside, CardType, MyFields
    <3> QED BY <2>5, <3>1
  <2>9. CASE C!moderatorClose
    <3>1. now' = now /\ jobs' = jobs /\ my'.status = "CLOSED"
      BY <2>1, <2>9 DEF C!moderatorClose, C!outside, CardType, MyFields
    <3> QED BY <2>5, <3>1
  <2>10. CASE \E keep \in BOOLEAN : C!Edit(keep)
    <3>1. now' = now /\ jobs' = jobs /\ my'.reminded = FALSE
      BY <2>1, <2>10 DEF C!Edit, C!outside, CardType, MyFields
    <3> QED BY <2>4, <3>1
  <2>11. CASE C!Elsewhere
    <3>1. /\ now' = now /\ jobs' = jobs
          /\ my'.status \in {"CLOSED", "GONE"} \/ my'.reminded = FALSE
      BY <2>1, <2>11 DEF C!Elsewhere, C!extended, C!outside, CardType, MyFields
    <3> QED BY <2>4, <2>5, <3>1
  <2>12. CASE C!listOverdue
    BY <2>1, <2>12 DEF C!listOverdue, CardType, Reminders, C!ReminderTrue, C!bounds
  <2>13. CASE C!expire
    <3>1. /\ now' = now /\ jobs'.soon = jobs.soon
          /\ my' = my \/ my'.status = "EXPIRED"
      BY <2>1, <2>13 DEF C!expire, CardType, MyFields
    <3> QED BY <2>1, <3>1 DEF Reminders, C!ReminderTrue
  <2>14. CASE C!Write
    <3>1. /\ now' = now /\ jobs' = jobs
          /\ my'.status \in {"CLOSED", "GONE"} \/ my'.reminded = FALSE
      BY <2>1, <2>14
      DEF C!Write, C!Close, C!ExtendTo, C!Remove, C!extended, C!outside, CardType, MyFields
    <3> QED BY <2>4, <2>5, <3>1
  <2>15. \/ C!Tick \/ UNCHANGED <<now, my, jobs>> \/ C!listDeadlineSoon
         \/ C!markDeadlineReminded \/ C!moderatorApprove \/ C!moderatorReject
         \/ C!moderatorClose \/ (\E keep \in BOOLEAN : C!Edit(keep)) \/ C!Elsewhere
         \/ C!listOverdue \/ C!expire \/ C!Write
    BY <1>2 DEF C!Next, C!Others, C!Tasks, C!Card, C!List, C!ClaimCheck, C!Claim, C!SlotOver,
       C!Extend, C!Press, C!Read, C!Answered, C!Refused, C!Lost, C!Loaded, C!LoadFailed,
       C!Retry, C!outside, C!bounds
  <2> QED BY <2>1, <2>2, <2>3, <2>6, <2>7, <2>8, <2>9, <2>10, <2>11, <2>12, <2>13, <2>14, <2>15
      DEF ReminderInv
<1> QED BY <1>1, <1>2

\* The creators of an open order were reminded of the deadline it has, unless it moved
\* between the task's list and its mark (OrdersService.markDeadlineReminded, extend):
\* for any times, deadlines, extensions and requests.
THEOREM RemindersAlwaysTrue == Spec => []ReminderTrue
<1>1. Init => ReminderInv  BY CabinetInit, ReminderInit
<1>2. ReminderInv /\ [Next]_vars => ReminderInv'  BY CabinetStep, ReminderStep
<1>3. ReminderInv => ReminderTrue  BY DEF ReminderInv, Reminders, ReminderTrue
<1> QED BY <1>1, <1>2, <1>3, PTL DEF Spec

-----------------------------------------------------------------------------
(* The card of an order: a closing *)

SlotRow == [creator : Creator, status : {"IN_PROGRESS", "VIDEO", "SLOT_EXPIRED", "DELETED"}]
Over == {"CLOSED", "REJECTED"}

\* What a closing has read, while the order is there: the slots it took for burned are
\* all that were being worked on, and as long as nobody has approved the order they
\* are worked on still or gone, unless the order is over.
ReadTrue ==
    /\ asked.rows \subseteq DOMAIN slots /\ asked.burned \subseteq DOMAIN slots
    /\ asked.frozen => \A i \in asked.rows : slots[i].status = "IN_PROGRESS" => i \in asked.burned
    /\ ~asked.frozen => asked.burned = {}
    /\ asked.frozen /\ ~asked.published =>
        \/ my.status \in Over
        \/ /\ my.status \in C!FROZEN
           /\ \A i \in asked.burned : slots[i].status \in {"IN_PROGRESS", "DELETED"}

\* What it has done: the slots that burned were taken for burned or came later, and
\* those taken for burned have burned or are gone, unless the order was approved.
WrittenTrue ==
    /\ asked.burned \subseteq DOMAIN slots
    /\ asked.burnt \cap asked.rows \subseteq asked.burned
    /\ asked.published \/ \A i \in asked.burned : i \in asked.burnt \/ slots[i].status = "DELETED"

Closing ==
    asked # C!NoRequest /\ asked.kind = "close" /\ my.status # "GONE" =>
        /\ asked.frozen \in BOOLEAN /\ asked.published \in BOOLEAN
        /\ asked.at = "read" => ReadTrue
        /\ asked.at = "written" => WrittenTrue

ClosingInv == CardType /\ slots \in Seq(SlotRow) /\ Closing

\* What becomes of slots: a slot over is over, one deleted is deleted, and each stays
\* its creator's; of an order under review one is only deleted.
SlotsMove ==
    /\ DOMAIN slots \subseteq DOMAIN slots'
    /\ \A i \in DOMAIN slots :
        /\ slots'[i].status = "IN_PROGRESS" => slots[i].status = "IN_PROGRESS"
        /\ slots[i].status = "DELETED" => slots'[i].status = "DELETED"
        /\ my'.status \in C!FROZEN /\ slots[i].status = "IN_PROGRESS" =>
                slots'[i].status \in {"IN_PROGRESS", "DELETED"}

\* An order under review stays there or is over, unless it is approved.
StatusMove ==
    /\ my.status \in Over => my'.status \in Over
    /\ my.status \in C!FROZEN => my'.status \in C!FROZEN \cup Over

LEMMA Untouched ==
    ASSUME ClosingInv, asked' = asked, my.status = "GONE" => my'.status = "GONE",
           my'.status # "GONE" => SlotsMove /\ StatusMove
    PROVE  Closing'
BY DEF ClosingInv, Closing, ReadTrue, WrittenTrue, SlotsMove, StatusMove, Over, C!FROZEN

LEMMA SlotsAre ==
    ASSUME slots \in Seq(SlotRow)
    PROVE  /\ Len(slots) \in Nat /\ DOMAIN slots = 1 .. Len(slots)
           /\ \A i \in DOMAIN slots : slots[i] \in SlotRow
OBVIOUS

\* Slots that burn.
LEMMA Burning ==
    ASSUME slots \in Seq(SlotRow), slots' = C!expired(C!InProgress)
    PROVE  /\ slots' \in Seq(SlotRow) /\ DOMAIN slots' = DOMAIN slots
           /\ \A i \in DOMAIN slots :
                /\ i \in C!InProgress => slots'[i].status = "SLOT_EXPIRED"
                /\ i \notin C!InProgress => slots'[i] = slots[i]
<1>1. /\ Len(slots) \in Nat /\ DOMAIN slots = 1 .. Len(slots)
      /\ \A i \in DOMAIN slots : slots[i] \in SlotRow
  BY SlotsAre
<1>2. slots' = [i \in 1 .. Len(slots) |->
            IF i \in C!InProgress THEN [slots[i] EXCEPT !.status = "SLOT_EXPIRED"] ELSE slots[i]]
  BY <1>1 DEF C!expired
<1>3. \A i \in 1 .. Len(slots) : [slots[i] EXCEPT !.status = "SLOT_EXPIRED"] \in SlotRow
  BY <1>1 DEF SlotRow
<1>4. slots' \in [1 .. Len(slots) -> SlotRow]  BY <1>1, <1>2, <1>3
<1>5. slots' \in Seq(SlotRow)  BY <1>1, <1>4
<1>6. ASSUME NEW i \in DOMAIN slots, i \in C!InProgress
      PROVE  slots'[i].status = "SLOT_EXPIRED"
  BY <1>1, <1>2, <1>6 DEF SlotRow
<1> QED BY <1>1, <1>2, <1>5, <1>6

LEMMA ClosingInit == C!Init => ClosingInv
<1> SUFFICES ASSUME C!Init PROVE ClosingInv  OBVIOUS
<1>1. CardType  BY ReminderInit DEF ReminderInv
<1>2. slots \in Seq(SlotRow)
  <2>1. slots = <<>> \/ \E c \in Creator : slots = <<[creator |-> c, status |-> "IN_PROGRESS"]>>
    BY DEF C!Init
  <2>2. \A c \in Creator : [creator |-> c, status |-> "IN_PROGRESS"] \in SlotRow
    BY DEF SlotRow
  <2>3. <<>> \in Seq(SlotRow)  OBVIOUS
  <2>4. \A r \in SlotRow : <<r>> \in Seq(SlotRow)  OBVIOUS
  <2> QED BY <2>1, <2>2, <2>3, <2>4
<1> QED BY <1>1, <1>2 DEF ClosingInv, Closing, C!Init

LEMMA ClosingStep == ClosingInv /\ [C!Next]_(C!vars) => ClosingInv'
<1> SUFFICES ASSUME ClosingInv, [C!Next]_(C!vars) PROVE ClosingInv'  OBVIOUS
<1>1. CASE UNCHANGED C!vars
  BY <1>1 DEF ClosingInv, CardType, Closing, ReadTrue, WrittenTrue, C!vars, C!outside, C!bounds
<1>2. CASE C!Next
  <2>1. CardType /\ CardType' /\ slots \in Seq(SlotRow) /\ Closing
    BY <1>2, CardTypeStep DEF ClosingInv
  <2> SUFFICES slots' \in Seq(SlotRow) /\ Closing'  BY <2>1 DEF ClosingInv
  <2>2. /\ Len(slots) \in Nat /\ DOMAIN slots = 1 .. Len(slots)
        /\ \A i \in DOMAIN slots : slots[i] \in SlotRow
    BY <2>1, SlotsAre
  <2>3. CASE UNCHANGED <<my, slots, asked>>
    BY <2>1, <2>3 DEF Closing, ReadTrue, WrittenTrue
  <2>4. CASE asked' = C!NoRequest /\ slots' = slots
    BY <2>1, <2>4 DEF Closing
  <2>5. CASE \E c \in Creator : C!Claim(c)
    <3>1. PICK c \in Creator : C!Claim(c)  BY <2>5
    <3>2. my' = my /\ asked' = asked  BY <3>1 DEF C!Claim
    <3>3. CASE slots' = slots  BY <2>3, <3>2, <3>3
    <3>4. CASE slots' = Append(slots, [creator |-> c, status |-> "IN_PROGRESS"])
      <4>1. [creator |-> c, status |-> "IN_PROGRESS"] \in SlotRow  BY DEF SlotRow
      <4>2. /\ slots' \in Seq(SlotRow) /\ DOMAIN slots' = 1 .. Len(slots) + 1
            /\ \A i \in 1 .. Len(slots) : slots'[i] = slots[i]
        BY <2>1, <3>4, <4>1
      <4>3. SlotsMove /\ StatusMove
        BY <2>2, <3>2, <4>2 DEF SlotsMove, StatusMove
      <4> QED BY <3>2, <4>2, <4>3, Untouched
    <3> QED BY <3>1, <3>3, <3>4 DEF C!Claim
  <2>6. CASE \E i \in DOMAIN slots : C!SlotOver(i)
    <3>1. PICK i \in DOMAIN slots, status \in {"VIDEO", "SLOT_EXPIRED", "DELETED"} :
            /\ slots[i].status = "IN_PROGRESS"
            /\ status # "DELETED" => my.status \in {"OPEN", "CLOSED"}
            /\ slots' = [slots EXCEPT ![i].status = status]
            /\ my' = my /\ asked' = asked
      BY <2>6 DEF C!SlotOver, C!InProgress
    <3>2. [slots[i] EXCEPT !.status = status] \in SlotRow  BY <2>2 DEF SlotRow
    <3>3. /\ slots' \in [1 .. Len(slots) -> SlotRow]
          /\ slots'[i].status = status
          /\ \A j \in DOMAIN slots : j # i => slots'[j] = slots[j]
      <4>1. slots[i] \in SlotRow  BY <2>2
      <4> QED BY <2>2, <3>1, <3>2, <4>1 DEF SlotRow
    <3>4. slots' \in Seq(SlotRow) /\ DOMAIN slots' = DOMAIN slots  BY <2>2, <3>3
    <3>5. SlotsMove /\ StatusMove
      BY <3>1, <3>3, <3>4 DEF SlotsMove, StatusMove, C!FROZEN
    <3> QED BY <3>1, <3>4, <3>5, Untouched
  <2>7. CASE (\E keep \in BOOLEAN : C!Edit(keep)) \/ C!moderatorReject \/ C!expire
    <3>1. /\ slots' = slots /\ asked' = asked
          /\ \/ my' = my
             \/ /\ my.status \in C!FROZEN \cup {"OPEN"}
                /\ my'.status \in C!FROZEN \cup {"EXPIRED", "REJECTED"}
                /\ my.status \in C!FROZEN => my'.status # "EXPIRED"
      BY <2>1, <2>7 DEF C!Edit, C!moderatorReject, C!expire, C!overdue, C!outside, CardType,
         MyFields, C!FROZEN
    <3>2. SlotsMove  BY <3>1 DEF SlotsMove
    <3>3. StatusMove  BY <3>1 DEF StatusMove, Over, C!FROZEN
    <3> QED BY <2>1, <3>1, <3>2, <3>3, Untouched DEF C!FROZEN
  <2>8. CASE C!moderatorApprove
    <3>1. /\ my.status = "PENDING_MODERATION" /\ slots' = slots
          /\ asked' = C!seenPublished(asked) /\ my'.status = "OPEN"
      BY <2>1, <2>8 DEF C!moderatorApprove, C!outside, CardType, MyFields
    <3>2. CASE asked.kind = "close" /\ asked.at = "read" /\ asked # C!NoRequest
      <4>1. /\ asked'.kind = "close" /\ asked'.at = "read" /\ asked'.published = TRUE
            /\ asked'.frozen = asked.frozen /\ asked'.rows = asked.rows
            /\ asked'.burned = asked.burned
        BY <2>1, <3>1, <3>2 DEF C!seenPublished, CardType, AskedFields
      <4>2. ReadTrue /\ asked.frozen \in BOOLEAN
        BY <2>1, <3>1, <3>2 DEF Closing
      <4> QED BY <2>1, <3>1, <4>1, <4>2 DEF Closing, ReadTrue
    <3>3. CASE asked' = asked /\ asked.at # "read"
      BY <2>1, <3>1, <3>3 DEF Closing, WrittenTrue
    <3>4. CASE asked' = asked /\ asked = C!NoRequest
      BY <2>1, <3>1, <3>4 DEF Closing
    <3>5. CASE asked' = asked /\ asked.kind # "close"
      BY <2>1, <3>1, <3>5 DEF Closing
    <3>6. asked = C!NoRequest => asked' = asked
      BY <3>1 DEF C!seenPublished, C!NoRequest
    <3> QED BY <3>1, <3>2, <3>3, <3>4, <3>5, <3>6 DEF C!seenPublished
  <2>9. CASE C!moderatorClose
    <3>1. /\ my.status \in {"OPEN", "EXPIRED"} /\ my'.status = "CLOSED"
          /\ asked' = asked /\ slots' = C!expired(C!InProgress)
      BY <2>1, <2>9 DEF C!moderatorClose, C!outside, CardType, MyFields
    <3>2. SlotsMove
      BY <2>1, <3>1, Burning DEF SlotsMove, C!FROZEN, C!InProgress
    <3>3. StatusMove  BY <3>1 DEF StatusMove, Over, C!FROZEN
    <3> QED BY <2>1, <3>1, <3>2, <3>3, Burning, Untouched
  <2>10. CASE C!Elsewhere
    <3>1. /\ asked' = asked /\ my.status # "GONE"
          /\ \/ my'.status = "CLOSED" /\ slots' \in {slots, C!expired(C!InProgress)}
             \/ my.status \in {"OPEN", "EXPIRED"} /\ slots' = slots
             \/ my'.status = "GONE" /\ slots' = <<>>
      BY <2>1, <2>10 DEF C!Elsewhere, C!extended, C!outside, CardType, MyFields
    <3>2. slots' \in Seq(SlotRow)
      <4>1. <<>> \in Seq(SlotRow)  OBVIOUS
      <4>2. slots' = C!expired(C!InProgress) => slots' \in Seq(SlotRow)  BY <2>1, Burning
      <4> QED BY <2>1, <3>1, <4>1, <4>2
    <3>3. my'.status # "GONE" => SlotsMove
      BY <2>1, <3>1, Burning DEF SlotsMove, C!FROZEN, C!InProgress
    <3>4. my'.status # "GONE" => StatusMove  BY <3>1 DEF StatusMove, Over, C!FROZEN
    <3> QED BY <3>1, <3>2, <3>3, <3>4, Untouched
  <2>11. CASE \/ \E kind \in {"close", "remove"} : C!Press(kind, 0)
              \/ \E days \in Days : C!Press("extend", days)
    <3>1. /\ my' = my /\ slots' = slots /\ asked'.at = "sent"
          /\ asked'.frozen = FALSE /\ asked'.published = FALSE
      BY <2>11 DEF C!Press, C!outside
    <3> QED BY <2>1, <3>1 DEF Closing
  <2>12. CASE C!Read
    <3>1. /\ asked # C!NoRequest /\ asked.at = "sent" /\ my.status # "GONE"
          /\ my' = my /\ slots' = slots
          /\ asked.kind # "close" => asked'.kind # "close"
          /\ asked.kind = "close" =>
                asked' = [asked EXCEPT !.at = "read", !.frozen = C!isFrozen(my),
                                       !.burned = C!burned, !.rows = C!Rows]
      BY <2>1, <2>12 DEF C!Read, C!busy, C!outside, CardType, AskedFields
    <3>2. CASE asked.kind = "close"
      <4>1. /\ asked'.at = "read" /\ asked'.rows = C!Rows /\ asked'.burned = C!burned
            /\ asked'.frozen = C!isFrozen(my) /\ asked'.published = asked.published
        BY <2>1, <3>1, <3>2 DEF CardType, AskedFields
      <4>2. asked.published \in BOOLEAN  BY <2>1, <3>1, <3>2 DEF Closing
      <4>3. C!isFrozen(my) \in BOOLEAN  BY DEF C!isFrozen
      <4>4. ReadTrue'
        BY <3>1, <4>1 DEF ReadTrue, C!Rows, C!burned, C!isFrozen, C!InProgress
      <4> QED BY <2>1, <3>1, <4>1, <4>2, <4>3, <4>4 DEF Closing
    <3>3. CASE asked.kind # "close"  BY <2>1, <3>1, <3>3 DEF Closing
    <3> QED BY <3>2, <3>3
  <2>13. CASE C!Write
    <3>1. asked # C!NoRequest /\ asked.at = "read" /\ C!found  BY <2>13 DEF C!Write, C!busy
    <3>2. CASE asked.kind = "close" /\ C!Close
      <4>1. /\ my'.status = "CLOSED"
            /\ slots' = IF asked.frozen THEN C!expired(C!InProgress) ELSE slots
            /\ asked'.at = "written" /\ asked'.kind = "close"
            /\ asked'.rows = asked.rows /\ asked'.burned = asked.burned
            /\ asked'.burnt = IF asked.frozen THEN C!InProgress ELSE {}
            /\ asked'.frozen = asked.frozen /\ asked'.published = asked.published
        BY <2>1, <3>1, <3>2 DEF C!Close, C!written, CardType, AskedFields, MyFields
      <4>2. my.status \in (IF asked.frozen THEN C!FROZEN ELSE {"OPEN"})
        BY <3>1, <3>2 DEF C!found
      <4>3. ReadTrue /\ asked.frozen \in BOOLEAN /\ asked.published \in BOOLEAN
        BY <2>1, <3>1, <3>2, <4>2 DEF Closing, C!FROZEN
      <4>4. slots' \in Seq(SlotRow) /\ DOMAIN slots' = DOMAIN slots
            /\ \A i \in DOMAIN slots : slots[i].status = "DELETED" => slots'[i].status = "DELETED"
        BY <2>1, <4>1, Burning DEF C!InProgress
      <4>5. WrittenTrue'
        BY <4>1, <4>2, <4>3, <4>4 DEF ReadTrue, WrittenTrue, C!InProgress, C!FROZEN, Over
      <4> QED BY <4>1, <4>3, <4>4, <4>5 DEF Closing
    <3>3. CASE asked.kind = "extend" /\ C!ExtendTo
      <4>1. slots' = slots /\ asked'.kind = "extend"
        BY <2>1, <3>1, <3>3 DEF C!ExtendTo, C!written, CardType, AskedFields
      <4> QED BY <2>1, <4>1 DEF Closing
    <3>4. CASE asked.kind = "remove" /\ C!Remove
      <4>1. slots' = <<>> /\ asked'.kind = "remove"
        BY <2>1, <3>1, <3>4 DEF C!Remove, C!written, CardType, AskedFields
      <4> QED BY <4>1 DEF Closing
    <3> QED BY <2>13, <3>2, <3>3, <3>4 DEF C!Write
  <2>14. \/ UNCHANGED <<my, slots, asked>> \/ (asked' = C!NoRequest /\ slots' = slots)
         \/ (\E c \in Creator : C!Claim(c)) \/ (\E i \in DOMAIN slots : C!SlotOver(i))
         \/ (\E keep \in BOOLEAN : C!Edit(keep)) \/ C!moderatorReject \/ C!expire
         \/ C!moderatorApprove \/ C!moderatorClose \/ C!Elsewhere
         \/ (\E kind \in {"close", "remove"} : C!Press(kind, 0))
         \/ (\E days \in Days : C!Press("extend", days))
         \/ C!Read \/ C!Write \/ C!markDeadlineReminded
    BY <1>2 DEF C!Next, C!Others, C!Tasks, C!Card, C!List, C!ClaimCheck, C!Tick,
       C!Extend, C!Answered, C!Refused, C!Lost, C!Loaded, C!LoadFailed,
       C!Retry, C!outside, C!bounds, C!listDeadlineSoon, C!listOverdue
  <2>15. CASE C!markDeadlineReminded
    <3>1. slots' = slots /\ asked' = asked /\ my'.status = my.status
      BY <2>1, <2>15 DEF C!markDeadlineReminded, CardType, MyFields
    <3>2. SlotsMove /\ StatusMove  BY <3>1 DEF SlotsMove, StatusMove
    <3> QED BY <2>1, <3>1, <3>2, Untouched
  <2> QED BY <2>3, <2>4, <2>5, <2>6, <2>7, <2>8, <2>9, <2>10, <2>11, <2>12, <2>13, <2>14, <2>15
<1> QED BY <1>1, <1>2

\* On a closing every creator learns what became of his slot
\* (MyOrdersController.close, OrdersService.close): for any creators and slots.
THEOREM AlwaysToldWhatBecame == Spec => []ToldWhatBecame
<1>1. Init => ClosingInv  BY CabinetInit, ClosingInit
<1>2. ClosingInv /\ [Next]_vars => ClosingInv'  BY CabinetStep, ClosingStep
<1>3. ClosingInv => ToldWhatBecame
  <2> SUFFICES ASSUME ClosingInv, asked.kind = "close", asked.at = "written",
                      my.status # "GONE"
               PROVE
                 /\ \A i \in asked.burnt \cap asked.rows :
                        slots[i].creator \in C!orderClosedSlotsBurned \/ asked.published
                 /\ asked.published \/ C!orderClosedSlotsBurned \subseteq
                      C!creatorsOf({i \in DOMAIN slots :
                                      i \in asked.burnt \/ slots[i].status = "DELETED"})
                 /\ \A c \in C!orderClosedSlotsBurned \cap C!orderClosed :
                      C!Cardinality({i \in DOMAIN slots : slots[i].creator = c}) > 1
    BY DEF ToldWhatBecame, C!ToldWhatBecame
  <2>1. asked # C!NoRequest  BY DEF C!NoRequest
  <2>2. WrittenTrue  BY <2>1 DEF ClosingInv, Closing
  <2>3. Len(slots) \in Nat /\ DOMAIN slots = 1 .. Len(slots)
    BY SlotsAre DEF ClosingInv
  <2>4. ASSUME NEW c \in C!orderClosedSlotsBurned \cap C!orderClosed
        PROVE  C!Cardinality({i \in DOMAIN slots : slots[i].creator = c}) > 1
    <3> DEFINE his == {i \in DOMAIN slots : slots[i].creator = c}
    <3>1. PICK i \in asked.burned \cap DOMAIN slots : slots[i].creator = c
      BY DEF C!orderClosedSlotsBurned, C!creatorsOf
    <3>2. PICK j \in C!Rows \ asked.burned : slots[j].creator = c
      BY DEF C!orderClosed, C!creatorsOf
    <3>3. i # j /\ {i, j} \subseteq his  BY <3>1, <3>2 DEF C!Rows
    <3>4. IsFiniteSet(his)
      <4>1. IsFiniteSet(DOMAIN slots)  BY <2>3, FS_Interval
      <4> QED BY <4>1, FS_Subset
    <3> HIDE DEF his
    <3>5. IsFiniteSet({j}) /\ Cardinality({j}) = 1  BY FS_Singleton
    <3>6. IsFiniteSet({i, j}) /\ Cardinality({i, j}) = 2
      <4>1. i \notin {j}  BY <3>3
      <4>2. IsFiniteSet({j} \cup {i}) /\ Cardinality({j} \cup {i}) = Cardinality({j}) + 1
        BY <3>5, <4>1, FS_AddElement
      <4>3. {j} \cup {i} = {i, j}  OBVIOUS
      <4> QED BY <3>5, <4>2, <4>3
    <3>7. Cardinality({i, j}) <= Cardinality(his)  BY <3>3, <3>4, FS_Subset
    <3>8. Cardinality(his) \in Nat  BY <3>4, FS_CardinalityType
    <3>9. Cardinality(his) > 1  BY <3>6, <3>7, <3>8
    <3> QED BY <3>9 DEF his, C!Cardinality, Cardinality
  <2>5. \A i \in asked.burnt \cap asked.rows : slots[i].creator \in C!orderClosedSlotsBurned
    BY <2>2 DEF WrittenTrue, C!orderClosedSlotsBurned, C!creatorsOf
  <2>6. asked.published \/ C!orderClosedSlotsBurned \subseteq
            C!creatorsOf({i \in DOMAIN slots :
                            i \in asked.burnt \/ slots[i].status = "DELETED"})
    BY <2>2 DEF WrittenTrue, C!orderClosedSlotsBurned, C!creatorsOf
  <2> QED BY <2>4, <2>5, <2>6
<1> QED BY <1>1, <1>2, <1>3, PTL DEF Spec

-----------------------------------------------------------------------------
(* The report: what is left of the budget *)

LEMMA CentsOfOne ==
    ASSUME NEW x, NEW n \in Nat
    PROVE  IsFiniteSet({x} \X (1 .. n))
<1>1. IsFiniteSet({x})  BY FS_Singleton
<1>2. IsFiniteSet(1 .. n)  BY FS_Interval
<1> QED BY <1>1, <1>2, FS_Product

\* The payouts of some videos are a number of cents.
LEMMA PaidForType ==
    ASSUME NEW r, NEW status
    PROVE  R!paidFor(r, status) \in Nat
<1> DEFINE S == R!InStatus(r, status)
           own(v) == {v} \X (1 .. PayoutOf[v])
           parts == {own(v) : v \in S}
           f == [v \in S |-> own(v)]
<1>1. IsFiniteSet(Video) /\ PayoutOf \in [Video -> Nat]
  BY AdvertiserAssumption DEF R!OrderReportAssumption, R!IsFiniteSet, IsFiniteSet
<1>2. S \in SUBSET Video  BY DEF R!InStatus
<1>3. IsFiniteSet(S)  BY <1>1, <1>2, FS_Subset
<1>4. f \in Surjection(S, parts)  BY DEF Surjection
<1>5. IsFiniteSet(parts)
  <2> HIDE DEF f, parts, S
  <2> QED BY <1>3, <1>4, FS_Surjection
<1>6. \A T \in parts : IsFiniteSet(T)
  <2> SUFFICES ASSUME NEW v \in S PROVE IsFiniteSet(own(v))  OBVIOUS
  <2>1. PayoutOf[v] \in Nat  BY <1>1, <1>2
  <2> QED BY <2>1, CentsOfOne
<1>7. IsFiniteSet(UNION parts)
  <2> HIDE DEF parts
  <2> QED BY <1>5, <1>6, FS_UNION
<1>8. Cardinality(UNION parts) \in Nat  BY <1>7, FS_CardinalityType
<1> QED BY <1>8 DEF R!paidFor, R!Cardinality, Cardinality

\* A quotient rounded down is the greatest number that fits.
LEMMA Quotient ==
    ASSUME NEW a \in Int, NEW n \in Nat, n > 0
    PROVE  /\ a \div n \in Int
           /\ n * (a \div n) <= a /\ a < n * (a \div n) + n
BY Z3

LEMMA LessThanOne ==
    ASSUME NEW x \in Int, NEW y \in Int, 100 * x < 100 * y + 100
    PROVE  x <= y
OBVIOUS

\* Rounding spent money up takes at least its pool off what is left: of a budget b at
\* a share of k percent, of which h was paid out or is reserved.
LEMMA SpentCovers ==
    ASSUME NEW b \in Int, NEW h \in Int, NEW k \in 1 .. 100,
           NEW s \in Int, s * k >= h * 100
    PROVE  ((b - s) * k) \div 100 <= (b * k) \div 100 - h
<1> DEFINE x == ((b - s) * k) \div 100
           y == (b * k) \div 100
<1>1. (b - s) * k = b * k - s * k  BY Z3
<1>2. (b - s) * k \in Int /\ b * k \in Int /\ s * k \in Int  OBVIOUS
<1>3. x \in Int /\ 100 * x <= (b - s) * k  BY <1>2, Quotient
<1>4. y \in Int /\ b * k < 100 * y + 100  BY <1>2, Quotient
<1> HIDE DEF x, y
<1>5. 100 * x < 100 * (y - h) + 100  BY <1>1, <1>2, <1>3, <1>4
<1>6. x <= y - h  BY <1>3, <1>4, <1>5, LessThanOne
<1> QED BY <1>6 DEF x, y

\* What a report shows as left is no more than the fund can pay.
PoolFits(left, held) == R!B!payoutPool(left, fee) <= R!B!free(budget, fee, held)

LEMMA LeftFits ==
    ASSUME NEW r
    PROVE  LET rep == R!buildOrderReport(r) IN PoolFits(rep.left, rep.held)
<1> DEFINE paid == R!paidFor(r, "MODERATOR_APPROVED")
           h == paid + R!paidFor(r, "SUBMITTED")
           k == 100 - fee
           up(p) == -((-(p * 100)) \div k)
           s(p) == IF budget <= up(p) THEN budget ELSE up(p)
           rest == budget - s(paid) - (s(h) - s(paid))
           left == IF 0 >= rest THEN 0 ELSE rest
           pool(b) == (b * k) \div 100
<1>1. budget \in Int /\ budget > 0 /\ k \in 1 .. 100 /\ k \in Int
  <2>1. budget \in Nat \ {0} /\ fee \in 0 .. 99  BY AdvertiserAssumption DEF R!OrderReportAssumption
  <2> QED BY <2>1
<1>2. paid \in Nat /\ h \in Nat
  <2>1. paid \in Nat /\ R!paidFor(r, "SUBMITTED") \in Nat  BY PaidForType
  <2> QED BY <2>1
<1>3. /\ R!buildOrderReport(r).left = left /\ R!buildOrderReport(r).held = h
  BY DEF R!buildOrderReport, R!left, R!B!Greater, R!B!Lesser, R!B!budgetSpent
<1>4. ASSUME NEW p \in Nat
      PROVE  up(p) \in Int /\ up(p) * k >= p * 100
  <2> DEFINE q == (-(p * 100)) \div k
  <2>1. -(p * 100) \in Int /\ k \in Nat /\ k > 0  BY <1>1
  <2>2. q \in Int /\ k * q <= -(p * 100)  BY <2>1, Quotient
  <2> HIDE DEF q
  <2>3. (-q) * k = -(k * q)  BY <1>1, <2>2, Z3
  <2>4. k * q \in Int  BY <1>1, <2>2
  <2>5. (-q) * k >= p * 100  BY <2>2, <2>3, <2>4
  <2>6. -q \in Int  BY <2>2
  <2> QED BY <2>5, <2>6 DEF q
<1> HIDE DEF up
<1>5. s(paid) \in Int /\ s(h) \in Int /\ s(h) <= budget
  BY <1>1, <1>2, <1>4
<1>6. rest = budget - s(h) /\ left = budget - s(h)
  <2> HIDE DEF s
  <2> QED BY <1>1, <1>5
<1>7. PoolFits(left, h) <=> pool(left) <= (IF 0 >= pool(budget) - h THEN 0 ELSE pool(budget) - h)
  BY DEF PoolFits, R!B!payoutPool, R!B!free, R!B!Greater
<1>8. pool(budget) \in Int
  <2>1. budget * k \in Int  BY <1>1
  <2> QED BY <2>1, Quotient
<1>9. CASE s(h) = budget
  <2>1. left = 0  BY <1>1, <1>6, <1>9
  <2>2. pool(0) = 0  BY <1>1
  <2> HIDE DEF pool, left
  <2>3. pool(left) <= (IF 0 >= pool(budget) - h THEN 0 ELSE pool(budget) - h)
    BY <1>2, <1>8, <2>1, <2>2
  <2> QED BY <1>3, <1>7, <2>3
<1>10. CASE s(h) = up(h)
  <2>1. up(h) \in Int /\ up(h) * k >= h * 100  BY <1>2, <1>4
  <2>2. h \in Int  BY <1>2
  <2>3. ((budget - up(h)) * k) \div 100 <= (budget * k) \div 100 - h
    BY <1>1, <2>1, <2>2, SpentCovers
  <2>4. left = budget - up(h)  BY <1>6, <1>10
  <2>5. pool(left) <= pool(budget) - h  BY <2>3, <2>4
  <2>6. pool(left) \in Int
    <3>1. (budget - up(h)) * k \in Int  BY <1>1, <2>1
    <3> QED BY <2>4, <3>1, Quotient
  <2> HIDE DEF pool, left
  <2>7. pool(left) <= (IF 0 >= pool(budget) - h THEN 0 ELSE pool(budget) - h)
    BY <1>8, <2>2, <2>5, <2>6
  <2> QED BY <1>3, <1>7, <2>7
<1> QED BY <1>9, <1>10

-----------------------------------------------------------------------------
(* The report: ratings, and a report that agrees with itself *)

ReportFields == {"items", "left", "held", "approved", "crossed"}
Approved(r) == R!InStatus(r, "MODERATOR_APPROVED")

\* The rows, the forms and the requests have the fields the code reads of them.
RatingType ==
    /\ DOMAIN row = Video
    /\ \A v \in Video : DOMAIN row[v] = {"status", "rating", "review", "queued"}
    /\ DOMAIN ratingForm = R!Forms /\ DOMAIN sent = R!Forms
    /\ \A k \in R!Forms : DOMAIN ratingForm[k] = {"item", "stars", "review"}
    /\ \A k \in R!Forms : sent[k] # None => DOMAIN sent[k] = {"at", "item", "stars", "review"}
    /\ DOMAIN reading = {"at", "rows", "counts", "crossed"}
    /\ reading.crossed \subseteq Video

\* A number of videos that are those of T, but for some of X.
Told(n, T, X) ==
    X \subseteq Video /\ \E S \in SUBSET Video : n = Cardinality(S) /\ S \ X = T \ X

\* The ratings of a list are those kept, or were not given yet.
ItemsTrue(items) ==
    /\ DOMAIN items \subseteq Video
    /\ \A v \in DOMAIN items \ wiped : items[v] \in {0, row[v].rating}

\* A report that is shown.
ReportGood ==
    /\ DOMAIN report = ReportFields
    /\ ItemsTrue(report.items)
    /\ Told(report.approved, DOMAIN report.items, report.crossed)
    /\ PoolFits(report.left, report.held)

\* What the statements of one that is on its way have read: they have seen the same
\* videos, but for those decided between them.
ReadingGood ==
    /\ reading.rows # None =>
        /\ reading.at = "sent"
        /\ ItemsTrue(reading.rows.items)
        /\ PoolFits(reading.rows.left, reading.rows.held)
        /\ reading.counts = None =>
            DOMAIN reading.rows.items \ reading.crossed = Approved(row) \ reading.crossed
    /\ reading.counts # None =>
        /\ reading.at = "sent"
        /\ reading.rows = None => Told(reading.counts.approved, Approved(row), reading.crossed)
        /\ reading.rows # None =>
            Told(reading.counts.approved, DOMAIN reading.rows.items, reading.crossed)

\* A form is for a video of the report and its review is about it; a rating that was
\* taken is kept, unless a moderator removed it.
FormGood(k) ==
    /\ ratingForm[k].item # 0 =>
        ratingForm[k].item \in Video /\ ratingForm[k].review \in {0, ratingForm[k].item}
    /\ sent[k] # None =>
        /\ sent[k].item \in Video /\ sent[k].review \in {0, sent[k].item}
        /\ sent[k].stars # 0
        /\ sent[k].at = "rated" /\ sent[k].item \notin wiped =>
                row[sent[k].item].rating = sent[k].stars

Started == \E k \in R!Forms : ratingForm[k].item # 0 \/ sent[k] # None

RatingInv ==
    /\ RatingType
    /\ report # None \/ Started => ReportGood
    /\ ReadingGood
    /\ \A k \in R!Forms : FormGood(k)
    /\ \A v \in Video : row[v].review \in {0, v}

LEMMA ReportInit == Init => R!Init
BY DEF Init

LEMMA ReportSteps == [Next]_vars => [R!Next]_(R!vars)
BY DEF Next, FormStep, OrdersStep, ReportStep, vars, reportVars, R!vars, R!screens, R!limits

LEMMA RatingInit == R!Init => RatingInv
<1> SUFFICES ASSUME R!Init PROVE RatingInv  OBVIOUS
<1>1. /\ row \in [Video -> {[status |-> s, rating |-> 0, review |-> 0, queued |-> FALSE] :
                               s \in {"SUBMITTED", "MODERATOR_APPROVED"}}]
      /\ report = None /\ reading = R!Asked
      /\ ratingForm = [k \in R!Forms |-> R!NoForm] /\ sent = [k \in R!Forms |-> None]
  BY DEF R!Init
<1>2. reading = [at |-> "sent", rows |-> None, counts |-> None, crossed |-> {}]
  BY <1>1 DEF R!Asked, R!NoReading
<1>3. RatingType
  BY <1>1, <1>2 DEF RatingType, R!NoForm
<1>4. ~Started /\ \A k \in R!Forms : FormGood(k)
  BY <1>1 DEF Started, FormGood, R!NoForm
<1>5. ReadingGood  BY <1>2 DEF ReadingGood
<1> QED BY <1>1, <1>3, <1>4, <1>5 DEF RatingInv

\* What a step does to the rows: ratings are given once, or removed for good.
RatingsKept ==
    \A v \in Video \ wiped' :
        /\ v \notin wiped
        /\ row[v].rating \in {0, row'[v].rating}

LEMMA ItemsKept ==
    ASSUME RatingsKept, NEW items, ItemsTrue(items)
    PROVE  ItemsTrue(items)'
BY DEF RatingsKept, ItemsTrue

LEMMA ToldStill ==
    ASSUME NEW n, NEW S, NEW T, NEW X, NEW Y \in SUBSET Video,
           X \subseteq Y, S \ Y = T \ Y, Told(n, S, X)
    PROVE  Told(n, T, Y)
<1>1. PICK U \in SUBSET Video : n = Cardinality(U) /\ U \ X = S \ X  BY DEF Told
<1>2. U \ Y = T \ Y  BY <1>1
<1> QED BY <1>1, <1>2 DEF Told

LEMMA ToldBounds ==
    ASSUME NEW n, NEW T \in SUBSET Video, NEW X, Told(n, T, X)
    PROVE  Cardinality(T \ X) <= n /\ n <= Cardinality(T \cup X)
<1>1. PICK S \in SUBSET Video : n = Cardinality(S) /\ S \ X = T \ X  BY DEF Told
<1>2. X \subseteq Video /\ IsFiniteSet(Video)
  BY AdvertiserAssumption DEF Told, AdvertiserAssumption, R!OrderReportAssumption,
     R!IsFiniteSet, IsFiniteSet
<1>3. IsFiniteSet(S) /\ IsFiniteSet(T \cup X)  BY <1>1, <1>2, FS_Subset
<1>4. T \ X \subseteq S /\ S \subseteq T \cup X  BY <1>1
<1> QED BY <1>1, <1>3, <1>4, FS_Subset

\* The row of one video changes.
LEMMA RowChanges ==
    ASSUME RatingType, NEW v \in Video, NEW r, row' = [row EXCEPT ![v] = r],
           DOMAIN r = {"status", "rating", "review", "queued"}, r.review \in {0, v},
           \/ wiped' = wiped /\ row[v].rating \in {0, r.rating}
           \/ wiped' = wiped \cup {v},
           \A w \in Video : row[w].review \in {0, w}
    PROVE  /\ DOMAIN row' = Video
           /\ \A w \in Video : DOMAIN row'[w] = {"status", "rating", "review", "queued"}
           /\ \A w \in Video : row'[w].review \in {0, w}
           /\ RatingsKept
           /\ row'[v] = r
           /\ r.status = row[v].status => Approved(row') = Approved(row)
           /\ Approved(row') \ {v} = Approved(row) \ {v}
<1>1. /\ DOMAIN row' = Video /\ row'[v] = r
      /\ \A w \in Video : w # v => row'[w] = row[w]
  BY DEF RatingType
<1>2. RatingsKept  BY <1>1 DEF RatingsKept
<1>3. r.status = row[v].status => Approved(row') = Approved(row)
  BY <1>1 DEF Approved, R!InStatus
<1>4. Approved(row') \ {v} = Approved(row) \ {v}
  BY <1>1 DEF Approved, R!InStatus
<1> QED BY <1>1, <1>2, <1>3, <1>4 DEF RatingType

\* The screens stand as they stood, and what is on its way has been crossed if a
\* video was decided.
LEMMA ScreensStay ==
    ASSUME RatingInv, RatingsKept,
           UNCHANGED <<app, report, ratingForm>>,
           \/ reading' = reading /\ Approved(row') = Approved(row)
           \/ \E v \in Video : /\ reading' = R!crossing(reading, v)
                               /\ Approved(row') \ {v} = Approved(row) \ {v},
           /\ DOMAIN row' = Video
           /\ \A w \in Video : DOMAIN row'[w] = {"status", "rating", "review", "queued"}
           /\ \A w \in Video : row'[w].review \in {0, w},
           DOMAIN sent' = DOMAIN sent,
           \A k \in R!Forms : sent'[k] # None =>
                /\ sent[k] # None
                /\ DOMAIN sent'[k] = DOMAIN sent[k]
                /\ sent'[k].item = sent[k].item /\ sent'[k].review = sent[k].review
                /\ sent'[k].stars = sent[k].stars
                /\ sent'[k].at = "rated" =>
                    \/ sent[k].at = "rated"
                    \/ row'[sent[k].item].rating = sent[k].stars
    PROVE  RatingInv'
<1>0. R!Forms' = R!Forms  BY DEF R!Forms
<1>1. RatingType'
  <2>1. DOMAIN reading' = {"at", "rows", "counts", "crossed"}
        /\ reading'.crossed \subseteq Video
    BY DEF RatingInv, RatingType, R!crossing
  <2> QED BY <1>0, <2>1 DEF RatingInv, RatingType
<1>2. (report # None \/ Started => ReportGood)'
  <2>1. Started' => Started  BY <1>0 DEF Started
  <2>2. ReportGood => ReportGood'
    <3>1. ItemsTrue(report.items) => ItemsTrue(report.items)'
      BY DEF ItemsTrue, RatingsKept
    <3>2. report' = report  OBVIOUS
    <3> QED BY <3>1, <3>2 DEF ReportGood, PoolFits, Told
  <2> QED BY <2>1, <2>2 DEF RatingInv
<1>3. ReadingGood'
  <2>1. /\ reading'.at = reading.at /\ reading'.rows = reading.rows
        /\ reading'.counts = reading.counts
        /\ reading.crossed \subseteq reading'.crossed /\ reading'.crossed \subseteq Video
    BY DEF R!crossing, RatingInv, RatingType
  <2>2. (reading.rows = None) # (reading.counts = None) =>
            Approved(row') \ reading'.crossed = Approved(row) \ reading'.crossed
    <3>1. CASE reading' = reading /\ Approved(row') = Approved(row)
      BY <3>1
    <3>2. ASSUME NEW v \in Video, reading' = R!crossing(reading, v),
                 Approved(row') \ {v} = Approved(row) \ {v},
                 (reading.rows = None) # (reading.counts = None)
          PROVE  Approved(row') \ reading'.crossed = Approved(row) \ reading'.crossed
      <4>1. v \in reading'.crossed  BY <3>2 DEF R!crossing, RatingInv, RatingType
      <4> QED BY <3>2, <4>1
    <3> QED BY <3>1, <3>2
  <2>3. ItemsTrue(reading.rows.items) => ItemsTrue(reading.rows.items)'
    <3> SUFFICES ASSUME ItemsTrue(reading.rows.items) PROVE ItemsTrue(reading.rows.items)'
      OBVIOUS
    <3>1. PICK items : items = reading.rows.items  OBVIOUS
    <3>2. ItemsTrue(items)'  BY <3>1, ItemsKept
    <3>3. reading'.rows.items = items  BY <2>1, <3>1
    <3> QED BY <3>2, <3>3 DEF ItemsTrue
  <2>4. reading.counts # None /\ reading.rows = None =>
            Told(reading'.counts.approved, Approved(row'), reading'.crossed)
    <3> SUFFICES ASSUME reading.counts # None, reading.rows = None
                 PROVE  Told(reading'.counts.approved, Approved(row'), reading'.crossed)
      OBVIOUS
    <3>1. Told(reading.counts.approved, Approved(row), reading.crossed)
      BY DEF RatingInv, ReadingGood
    <3> QED BY <2>1, <2>2, <3>1, ToldStill
  <2>5. reading.counts # None /\ reading.rows # None =>
            Told(reading'.counts.approved, DOMAIN reading'.rows.items, reading'.crossed)
    <3> SUFFICES ASSUME reading.counts # None, reading.rows # None
                 PROVE  Told(reading'.counts.approved, DOMAIN reading'.rows.items, reading'.crossed)
      OBVIOUS
    <3>1. Told(reading.counts.approved, DOMAIN reading.rows.items, reading.crossed)
      BY DEF RatingInv, ReadingGood
    <3> QED BY <2>1, <3>1, ToldStill
  <2>6. reading.rows # None /\ reading.counts = None =>
            DOMAIN reading'.rows.items \ reading'.crossed = Approved(row') \ reading'.crossed
    <3> SUFFICES ASSUME reading.rows # None, reading.counts = None
                 PROVE  DOMAIN reading'.rows.items \ reading'.crossed
                            = Approved(row') \ reading'.crossed
      OBVIOUS
    <3>1. DOMAIN reading.rows.items \ reading.crossed = Approved(row) \ reading.crossed
      BY DEF RatingInv, ReadingGood
    <3> QED BY <2>1, <2>2, <3>1
  <2>7. /\ reading.rows # None => /\ reading.at = "sent" /\ ItemsTrue(reading.rows.items)
                                  /\ PoolFits(reading.rows.left, reading.rows.held)
        /\ reading.counts # None => reading.at = "sent"
    BY DEF RatingInv, ReadingGood
  <2>8. Approved(row)' = Approved(row')  BY DEF Approved, R!InStatus
  <2> QED BY <2>1, <2>3, <2>4, <2>5, <2>6, <2>7, <2>8 DEF ReadingGood, PoolFits, Told
<1>4. ASSUME NEW k \in R!Forms PROVE FormGood(k)'
  <2>1. FormGood(k)  BY DEF RatingInv
  <2> QED BY <2>1 DEF FormGood, RatingsKept
<1> QED BY <1>0, <1>1, <1>2, <1>3, <1>4 DEF RatingInv

\* The screens change, the rows do not.
LEMMA RowsStay ==
    ASSUME RatingInv, row' = row, wiped' = wiped, app' = app,
           RatingType', ReadingGood',
           report' # None \/ Started' => ReportGood',
           \A k \in R!Forms : FormGood(k)'
    PROVE  RatingInv'
<1>1. R!Forms' = R!Forms  BY DEF R!Forms
<1> QED BY <1>1 DEF RatingInv

LEMMA RatingStep == RatingInv /\ [R!Next]_(R!vars) => RatingInv'
<1> SUFFICES ASSUME RatingInv, [R!Next]_(R!vars) PROVE RatingInv'  OBVIOUS
<1>0. /\ RatingType /\ ReadingGood /\ (report # None \/ Started => ReportGood)
      /\ \A k \in R!Forms : FormGood(k)
      /\ \A v \in Video : row[v].review \in {0, v}
  BY DEF RatingInv
<1>1. CASE UNCHANGED <<row, app, report, reading, ratingForm, sent, wiped>>
  <2>1. /\ row' = row /\ app' = app /\ report' = report /\ reading' = reading
        /\ ratingForm' = ratingForm /\ sent' = sent /\ wiped' = wiped
    BY <1>1
  <2>2. R!Forms' = R!Forms  BY <2>1 DEF R!Forms
  <2>3. RatingType'  BY <1>0, <2>1, <2>2 DEF RatingType
  <2>4. ReadingGood'
    BY <1>0, <2>1 DEF ReadingGood, Told, ItemsTrue, PoolFits, Approved, R!InStatus
  <2>5. report' # None \/ Started' => ReportGood'
    BY <1>0, <2>1, <2>2 DEF Started, ReportGood, Told, ItemsTrue, PoolFits
  <2>6. \A k \in R!Forms : FormGood(k)'  BY <1>0, <2>1 DEF FormGood
  <2> QED BY <2>1, <2>3, <2>4, <2>5, <2>6, RowsStay
<1>2. ASSUME NEW v \in Video, R!Decide(v) PROVE RatingInv'
  <2>1. PICK s \in {"MODERATOR_APPROVED", "MODERATOR_REJECTED"} :
            row' = [row EXCEPT ![v].status = s]
    BY <1>2 DEF R!Decide
  <2> DEFINE r == [row[v] EXCEPT !.status = s]
  <2>2. row' = [row EXCEPT ![v] = r]  BY <1>0, <2>1 DEF RatingType
  <2>3. /\ DOMAIN r = {"status", "rating", "review", "queued"}
        /\ r.review = row[v].review /\ r.rating = row[v].rating
    BY <1>0 DEF RatingType
  <2>4. /\ wiped' = wiped /\ UNCHANGED <<app, report, ratingForm>> /\ sent' = sent
        /\ reading' = R!crossing(reading, v)
    BY <1>2 DEF R!Decide
  <2> HIDE DEF r
  <2>5. r.review \in {0, v} /\ row[v].rating \in {0, r.rating}  BY <1>0, <2>3
  <2>6. /\ DOMAIN row' = Video /\ RatingsKept
        /\ \A w \in Video : DOMAIN row'[w] = {"status", "rating", "review", "queued"}
        /\ \A w \in Video : row'[w].review \in {0, w}
        /\ Approved(row') \ {v} = Approved(row) \ {v}
    BY <1>0, <2>2, <2>3, <2>4, <2>5, RowChanges
  <2> QED BY <2>4, <2>6, ScreensStay
<1>3. ASSUME NEW v \in Video, R!approveReview(v) \/ R!removeReview(v) \/ R!rateElsewhere(v)
      PROVE  RatingInv'
  <2>1. /\ UNCHANGED <<app, report, ratingForm>> /\ sent' = sent /\ reading' = reading
        /\ \E r : /\ row' = [row EXCEPT ![v] = r]
                  /\ DOMAIN r = {"status", "rating", "review", "queued"}
                  /\ r.status = row[v].status /\ r.review \in {0, v}
                  /\ \/ wiped' = wiped /\ row[v].rating \in {0, r.rating}
                     \/ wiped' = wiped \cup {v}
    <3>1. DOMAIN row[v] = {"status", "rating", "review", "queued"} /\ row[v].review \in {0, v}
          /\ v \in DOMAIN row
      BY <1>0 DEF RatingType
    <3>2. CASE R!approveReview(v)
      <4> DEFINE r == [row[v] EXCEPT !.queued = FALSE]
      <4>1. row' = [row EXCEPT ![v] = r] /\ wiped' = wiped
        BY <3>1, <3>2 DEF R!approveReview
      <4>2. /\ DOMAIN r = {"status", "rating", "review", "queued"}
            /\ r.status = row[v].status /\ r.review = row[v].review /\ r.rating = row[v].rating
        BY <3>1
      <4> HIDE DEF r
      <4> QED BY <3>1, <3>2, <4>1, <4>2 DEF R!approveReview, R!screens
    <3>3. CASE R!removeReview(v)
      <4> DEFINE r == [row[v] EXCEPT !.rating = 0, !.review = 0, !.queued = FALSE]
      <4>1. row' = [row EXCEPT ![v] = r] /\ wiped' = wiped \cup {v}
        BY <3>1, <3>3 DEF R!removeReview
      <4>2. /\ DOMAIN r = {"status", "rating", "review", "queued"}
            /\ r.status = row[v].status /\ r.review = 0
        BY <3>1
      <4> HIDE DEF r
      <4> QED BY <3>1, <3>3, <4>1, <4>2 DEF R!removeReview, R!screens
    <3>4. CASE R!rateElsewhere(v)
      <4>1. PICK s \in Stars : row' = [row EXCEPT ![v] = [@ EXCEPT !.rating = s]]
        BY <3>4 DEF R!rateElsewhere
      <4> DEFINE r == [row[v] EXCEPT !.rating = s]
      <4>2. row' = [row EXCEPT ![v] = r] /\ wiped' = wiped /\ row[v].rating = 0
        BY <3>1, <3>4, <4>1 DEF R!rateElsewhere, R!mayRate
      <4>3. /\ DOMAIN r = {"status", "rating", "review", "queued"}
            /\ r.status = row[v].status /\ r.review = row[v].review
        BY <3>1
      <4> HIDE DEF r
      <4> QED BY <3>1, <3>4, <4>2, <4>3 DEF R!rateElsewhere, R!screens
    <3> QED BY <1>3, <3>2, <3>3, <3>4
  <2>2. /\ DOMAIN row' = Video /\ RatingsKept /\ Approved(row') = Approved(row)
        /\ \A w \in Video : DOMAIN row'[w] = {"status", "rating", "review", "queued"}
        /\ \A w \in Video : row'[w].review \in {0, w}
    BY <1>0, <2>1, RowChanges
  <2> QED BY <2>1, <2>2, ScreensStay
<1>4. ASSUME NEW k \in R!Forms, R!rate(k) PROVE RatingInv'
  <2>1. /\ UNCHANGED <<app, report, reading, ratingForm, wiped>>
        /\ sent[k] # None
        /\ IF R!mayRate(sent[k].item)
           THEN /\ row' = [row EXCEPT ![sent[k].item] =
                       [@ EXCEPT !.rating = sent[k].stars, !.review = sent[k].review,
                                 !.queued = sent[k].review # 0]]
                /\ sent' = [sent EXCEPT ![k].at = "rated"]
           ELSE sent' = [sent EXCEPT ![k].at = "refused"] /\ row' = row
    BY <1>4 DEF R!rate, R!busy
  <2>2. /\ sent[k].item \in Video /\ sent[k].review \in {0, sent[k].item}
        /\ DOMAIN sent[k] = {"at", "item", "stars", "review"}
    BY <1>0, <2>1 DEF FormGood, RatingType
  <2>3. CASE R!mayRate(sent[k].item)
    <3> DEFINE v == sent[k].item
               r == [row[v] EXCEPT !.rating = sent[k].stars, !.review = sent[k].review,
                                   !.queued = sent[k].review # 0]
    <3>1. row' = [row EXCEPT ![v] = r] /\ sent' = [sent EXCEPT ![k].at = "rated"]
      BY <1>0, <2>1, <2>2, <2>3 DEF RatingType
    <3>2. /\ DOMAIN r = {"status", "rating", "review", "queued"}
          /\ r.status = row[v].status /\ r.review = sent[k].review
          /\ r.rating = sent[k].stars
      BY <1>0, <2>2 DEF RatingType
    <3>3. row[v].rating = 0 /\ v \in Video  BY <2>2, <2>3 DEF R!mayRate
    <3>4. /\ DOMAIN sent' = DOMAIN sent
          /\ \A j \in R!Forms : j # k => sent'[j] = sent[j]
          /\ DOMAIN sent'[k] = DOMAIN sent[k] /\ sent'[k].item = sent[k].item
          /\ sent'[k].review = sent[k].review /\ sent'[k].stars = sent[k].stars
      BY <1>0, <2>2, <3>1 DEF RatingType
    <3> HIDE DEF v, r
    <3>5. /\ DOMAIN row' = Video /\ RatingsKept /\ Approved(row') = Approved(row)
          /\ \A w \in Video : DOMAIN row'[w] = {"status", "rating", "review", "queued"}
          /\ \A w \in Video : row'[w].review \in {0, w}
          /\ row'[v] = r
      <4>1. r.review \in {0, v}  BY <2>2, <3>2 DEF v
      <4> QED BY <1>0, <2>1, <3>1, <3>2, <3>3, <4>1, RowChanges
    <3>6. row'[sent[k].item].rating = sent[k].stars  BY <3>2, <3>5 DEF v
    <3> QED BY <2>1, <3>4, <3>5, <3>6, ScreensStay
  <2>4. CASE ~R!mayRate(sent[k].item)
    <3>1. row' = row /\ sent' = [sent EXCEPT ![k].at = "refused"]  BY <2>1, <2>4
    <3>2. /\ DOMAIN sent' = DOMAIN sent
          /\ \A j \in R!Forms : j # k => sent'[j] = sent[j]
          /\ DOMAIN sent'[k] = DOMAIN sent[k] /\ sent'[k].item = sent[k].item
          /\ sent'[k].review = sent[k].review /\ sent'[k].stars = sent[k].stars
          /\ sent'[k].at = "refused"
      BY <1>0, <2>2, <3>1 DEF RatingType
    <3>3. RatingsKept  BY <2>1, <3>1 DEF RatingsKept
    <3> QED BY <1>0, <2>1, <3>1, <3>2, <3>3, ScreensStay DEF RatingType
  <2> QED BY <2>3, <2>4
<1>5. ASSUME NEW k \in R!Forms, R!NotRated(k) PROVE RatingInv'
  <2>1. /\ UNCHANGED <<row, app, report, reading, ratingForm, wiped>>
        /\ sent' = [sent EXCEPT ![k] = None]
    BY <1>5 DEF R!NotRated
  <2>2. /\ DOMAIN sent' = DOMAIN sent
        /\ \A j \in R!Forms : sent'[j] # None => sent'[j] = sent[j]
    BY <1>0, <2>1 DEF RatingType
  <2>3. RatingsKept  BY <2>1 DEF RatingsKept
  <2> QED BY <1>0, <2>1, <2>2, <2>3, ScreensStay DEF RatingType
<1>6. CASE R!ReadRows \/ R!ReadCounts \/ R!NotLoaded \/ R!Retry
  <2>1. /\ row' = row /\ app' = app /\ report' = report /\ wiped' = wiped
        /\ ratingForm' = ratingForm /\ sent' = sent
    BY <1>6 DEF R!ReadRows, R!ReadCounts, R!NotLoaded, R!Retry
  <2>2. R!Forms' = R!Forms  BY <2>1 DEF R!Forms
  <2>3. /\ DOMAIN reading' = {"at", "rows", "counts", "crossed"}
        /\ reading'.crossed \subseteq Video
    BY <1>0, <1>6 DEF R!ReadRows, R!ReadCounts, R!NotLoaded, R!Retry, R!Asked, R!NoReading,
       RatingType
  <2>4. ReadingGood'
    <3>1. CASE R!ReadRows
      <4>1. /\ reading.at = "sent" /\ reading'.at = "sent" /\ reading'.crossed = reading.crossed
            /\ reading'.rows = R!buildOrderReport(row) /\ reading'.counts = reading.counts
        BY <1>0, <3>1 DEF R!ReadRows, RatingType
      <4>2. PoolFits(reading'.rows.left, reading'.rows.held)  BY <4>1, LeftFits
      <4>3. reading'.rows.items = [v \in Approved(row) |-> row[v].rating]
        BY <4>1 DEF R!buildOrderReport, R!approved, Approved
      <4>5. DOMAIN reading'.rows.items = Approved(row)  BY <4>3
      <4>4. ItemsTrue(reading.rows.items)'
        BY <2>1, <4>3 DEF ItemsTrue, Approved, R!InStatus
      <4>6. Approved(row)' = Approved(row)  BY <2>1 DEF Approved, R!InStatus
      <4>7. reading.rows = None  BY <3>1 DEF R!ReadRows
      <4>8. reading.counts # None =>
                Told(reading'.counts.approved, DOMAIN reading'.rows.items, reading'.crossed)
        BY <1>0, <4>1, <4>5, <4>7 DEF ReadingGood
      <4>9. (reading.counts # None =>
                Told(reading.counts.approved, DOMAIN reading.rows.items, reading.crossed))'
        BY <4>1, <4>8 DEF Told
      <4>10. (reading.counts = None =>
                DOMAIN reading.rows.items \ reading.crossed = Approved(row) \ reading.crossed)'
        BY <4>5, <4>6
      <4>11. PoolFits(reading.rows.left, reading.rows.held)'  BY <4>2 DEF PoolFits
      <4>12. (reading.counts # None =>
                Told(reading.counts.approved, Approved(row), reading.crossed))'
        BY <4>5, <4>6, <4>9
      <4> QED BY <4>1, <4>4, <4>9, <4>10, <4>11, <4>12 DEF ReadingGood
    <3>2. CASE R!ReadCounts
      <4>1. /\ reading.at = "sent" /\ reading'.at = "sent" /\ reading'.crossed = reading.crossed
            /\ reading'.rows = reading.rows /\ reading'.counts = R!funnelOf(row)
        BY <1>0, <3>2 DEF R!ReadCounts, RatingType
      <4>2. reading'.counts.approved = Cardinality(Approved(row))
        BY <4>1 DEF R!funnelOf, Approved, R!Cardinality, Cardinality
      <4>3. reading.counts = None /\ reading.crossed \subseteq Video
        BY <1>0, <3>2 DEF R!ReadCounts, RatingType
      <4>4. Told(reading'.counts.approved, Approved(row), reading'.crossed)
        BY <4>1, <4>2, <4>3 DEF Told, Approved, R!InStatus
      <4>5. reading.rows # None =>
                Told(reading'.counts.approved, DOMAIN reading'.rows.items, reading'.crossed)
        <5> SUFFICES ASSUME reading.rows # None
                     PROVE  Told(reading'.counts.approved, DOMAIN reading'.rows.items,
                                 reading'.crossed)
          OBVIOUS
        <5>1. DOMAIN reading.rows.items \ reading.crossed = Approved(row) \ reading.crossed
          BY <1>0, <4>3 DEF ReadingGood
        <5> QED BY <4>1, <4>3, <4>4, <5>1, ToldStill
      <4>6. Approved(row)' = Approved(row)  BY <2>1 DEF Approved, R!InStatus
      <4>7. (reading.rows = None => Told(reading.counts.approved, Approved(row), reading.crossed))'
        BY <4>1, <4>4, <4>6 DEF Told
      <4>8. (reading.rows # None =>
                Told(reading.counts.approved, DOMAIN reading.rows.items, reading.crossed))'
        BY <4>1, <4>5 DEF Told
      <4>9. (reading.rows # None =>
                /\ ItemsTrue(reading.rows.items)
                /\ PoolFits(reading.rows.left, reading.rows.held))'
        BY <1>0, <2>1, <4>1 DEF ReadingGood, PoolFits, ItemsTrue
      <4>10. (reading.rows # None =>
                DOMAIN reading.rows.items \ reading.crossed = Approved(row) \ reading.crossed)'
        BY <1>0, <4>1, <4>3, <4>6 DEF ReadingGood
      <4> QED BY <4>1, <4>7, <4>8, <4>9, <4>10 DEF ReadingGood
    <3>3. CASE R!NotLoaded \/ R!Retry
      <4>1. reading'.rows = None /\ reading'.counts = None
        BY <3>3 DEF R!NotLoaded, R!Retry, R!Asked, R!NoReading
      <4> QED BY <4>1 DEF ReadingGood
    <3> QED BY <1>6, <3>1, <3>2, <3>3
  <2>5. RatingType'  BY <1>0, <2>1, <2>2, <2>3 DEF RatingType
  <2>6. report' # None \/ Started' => ReportGood'
    BY <1>0, <2>1, <2>2 DEF Started, ReportGood, Told, ItemsTrue, PoolFits
  <2>7. \A k \in R!Forms : FormGood(k)'  BY <1>0, <2>1 DEF FormGood
  <2> QED BY <2>1, <2>4, <2>5, <2>6, <2>7, RowsStay
<1>7. CASE R!Loaded
  <2>1. /\ row' = row /\ app' = app /\ wiped' = wiped
        /\ ratingForm' = ratingForm /\ sent' = sent /\ reading' = R!NoReading
        /\ reading.rows # None /\ reading.counts # None
        /\ report' = [items |-> reading.rows.items, left |-> reading.rows.left,
                      held |-> reading.rows.held, approved |-> reading.counts.approved,
                      crossed |-> reading.crossed]
    BY <1>7 DEF R!Loaded
  <2>2. R!Forms' = R!Forms  BY <2>1 DEF R!Forms
  <2>3. RatingType'  BY <1>0, <2>1, <2>2 DEF RatingType, R!NoReading
  <2>4. ReadingGood'  BY <2>1 DEF ReadingGood, R!NoReading
  <2>5. ReportGood'
    BY <1>0, <2>1 DEF ReadingGood, ReportGood, ReportFields, ItemsTrue, PoolFits, Told
  <2>6. \A k \in R!Forms : FormGood(k)'  BY <1>0, <2>1 DEF FormGood
  <2> QED BY <2>1, <2>3, <2>4, <2>5, <2>6, RowsStay
<1>8. ASSUME NEW k \in R!Forms,
             \/ \E v \in Video : R!Start(k, v)
             \/ R!Type(k) \/ R!Cancel(k) \/ R!Send(k)
      PROVE  RatingInv'
  <2>1. /\ row' = row /\ app' = app /\ wiped' = wiped /\ report' = report
        /\ reading' = reading
    BY <1>8 DEF R!Start, R!Type, R!Cancel, R!Send
  <2>2. R!Forms' = R!Forms  BY <2>1 DEF R!Forms
  <2>3. k \in DOMAIN ratingForm /\ DOMAIN ratingForm[k] = {"item", "stars", "review"}
    BY <1>0 DEF RatingType
  <2>4. /\ DOMAIN ratingForm' = R!Forms /\ DOMAIN sent' = R!Forms
        /\ \A j \in R!Forms : j # k => ratingForm'[j] = ratingForm[j] /\ sent'[j] = sent[j]
    BY <1>0, <1>8 DEF RatingType, R!Start, R!Type, R!Cancel, R!Send
  <2>5. ReadingGood'
    BY <1>0, <2>1 DEF ReadingGood, Told, ItemsTrue, PoolFits, Approved, R!InStatus
  <2>6. ReportGood => ReportGood'
    BY <2>1 DEF ReportGood, ItemsTrue, PoolFits
  <2>7. CASE \E v \in Video : R!Start(k, v)
    <3>1. PICK v \in Video : R!Start(k, v)  BY <2>7
    <3>2. /\ ratingForm'[k] = [item |-> v, stars |-> 0, review |-> 0] /\ sent' = sent
          /\ report # None
      BY <2>3, <3>1 DEF R!Start, R!fresh, R!NoForm, R!shownItems
    <3>3. RatingType'  BY <1>0, <2>1, <2>2, <2>4, <3>2 DEF RatingType
    <3>4. \A j \in R!Forms : FormGood(j)'
      BY <1>0, <2>1, <2>4, <3>2 DEF FormGood
    <3> QED BY <1>0, <2>1, <2>5, <2>6, <3>2, <3>3, <3>4, RowsStay
  <2>8. CASE R!Type(k)
    <3>1. /\ ratingForm[k].item # 0 /\ sent' = sent
          /\ DOMAIN ratingForm'[k] = {"item", "stars", "review"}
          /\ ratingForm'[k].item = ratingForm[k].item
          /\ ratingForm'[k].review \in {ratingForm[k].review, ratingForm[k].item}
      BY <2>3, <2>8 DEF R!Type
    <3>2. RatingType'  BY <1>0, <2>1, <2>2, <2>4, <3>1 DEF RatingType
    <3>3. \A j \in R!Forms : FormGood(j)'
      BY <1>0, <2>1, <2>4, <3>1 DEF FormGood
    <3>4. Started  BY <3>1 DEF Started
    <3> QED BY <1>0, <2>1, <2>5, <2>6, <3>2, <3>3, <3>4, RowsStay
  <2>9. CASE R!Cancel(k)
    <3>1. /\ ratingForm[k].item # 0 /\ sent' = sent
          /\ DOMAIN ratingForm'[k] = {"item", "stars", "review"}
          /\ ratingForm'[k].item = 0
      BY <2>3, <2>9 DEF R!Cancel, R!closed
    <3>2. RatingType'  BY <1>0, <2>1, <2>2, <2>4, <3>1 DEF RatingType
    <3>3. \A j \in R!Forms : FormGood(j)'
      BY <1>0, <2>1, <2>4, <3>1 DEF FormGood
    <3>4. Started  BY <3>1 DEF Started
    <3> QED BY <1>0, <2>1, <2>5, <2>6, <3>2, <3>3, <3>4, RowsStay
  <2>10. CASE R!Send(k)
    <3>1. /\ ratingForm[k].item # 0 /\ ratingForm' = ratingForm /\ ratingForm[k].stars # 0
          /\ sent'[k] = [at |-> "sent", item |-> ratingForm[k].item,
                         stars |-> ratingForm[k].stars, review |-> ratingForm[k].review]
      BY <1>0, <2>10 DEF R!Send, RatingType
    <3>2. RatingType'  BY <1>0, <2>1, <2>2, <2>4, <3>1 DEF RatingType
    <3>3. \A j \in R!Forms : FormGood(j)'
      BY <1>0, <2>1, <2>4, <3>1 DEF FormGood
    <3>4. Started  BY <3>1 DEF Started
    <3> QED BY <1>0, <2>1, <2>5, <2>6, <3>2, <3>3, <3>4, RowsStay
  <2> QED BY <1>8, <2>7, <2>8, <2>9, <2>10
<1>9. ASSUME NEW k \in R!Forms, R!Rated(k) PROVE RatingInv'
  <2>1. /\ row' = row /\ app' = app /\ wiped' = wiped /\ reading' = reading
        /\ sent[k] # None /\ sent[k].at = "rated"
        /\ report' = [report EXCEPT !.items =
              [v \in DOMAIN @ |-> IF v = sent[k].item THEN sent[k].stars ELSE @[v]]]
        /\ ratingForm' = [ratingForm EXCEPT ![k] = R!closed(@)]
        /\ sent' = [sent EXCEPT ![k] = None]
    BY <1>9 DEF R!Rated, R!busy, R!ratedItem
  <2>2. R!Forms' = R!Forms  BY <2>1 DEF R!Forms
  <2>3. Started  BY <2>1 DEF Started
  <2>4. ReportGood  BY <1>0, <2>3
  <2>5. /\ DOMAIN ratingForm' = R!Forms /\ DOMAIN sent' = R!Forms
        /\ \A j \in R!Forms : j # k => ratingForm'[j] = ratingForm[j] /\ sent'[j] = sent[j]
        /\ sent'[k] = None /\ ratingForm'[k].item = 0
        /\ DOMAIN ratingForm'[k] = {"item", "stars", "review"}
    BY <1>0, <2>1 DEF RatingType, R!closed
  <2>6. RatingType'  BY <1>0, <2>1, <2>2, <2>5 DEF RatingType
  <2>7. \A j \in R!Forms : FormGood(j)'  BY <1>0, <2>1, <2>5 DEF FormGood
  <2>8. ReadingGood'
    BY <1>0, <2>1 DEF ReadingGood, Told, ItemsTrue, PoolFits, Approved, R!InStatus
  <2>9. ReportGood'
    <3>1. /\ DOMAIN report' = ReportFields
          /\ report'.items = [v \in DOMAIN report.items |->
                IF v = sent[k].item THEN sent[k].stars ELSE report.items[v]]
          /\ report'.left = report.left /\ report'.held = report.held
          /\ report'.approved = report.approved /\ report'.crossed = report.crossed
      BY <2>1, <2>4 DEF ReportGood, ReportFields
    <3>2. sent[k].item \notin wiped => row[sent[k].item].rating = sent[k].stars
      BY <1>0, <2>1 DEF FormGood
    <3>3. ItemsTrue(report.items)'
      BY <2>1, <2>4, <3>1, <3>2 DEF ReportGood, ItemsTrue
    <3>4. DOMAIN report'.items = DOMAIN report.items  BY <3>1
    <3> QED BY <2>4, <3>1, <3>3, <3>4 DEF ReportGood, PoolFits
  <2> QED BY <2>1, <2>6, <2>7, <2>8, <2>9, RowsStay
<1>10. \/ UNCHANGED <<row, app, report, reading, ratingForm, sent, wiped>>
       \/ \E v \in Video : R!Decide(v) \/ R!approveReview(v) \/ R!removeReview(v)
                           \/ R!rateElsewhere(v)
       \/ R!ReadRows \/ R!ReadCounts \/ R!Loaded \/ R!NotLoaded \/ R!Retry
       \/ \E k \in R!Forms :
            \/ \E v \in Video : R!Start(k, v)
            \/ R!Type(k) \/ R!Cancel(k) \/ R!Send(k)
            \/ R!rate(k) \/ R!Rated(k) \/ R!NotRated(k)
  BY DEF R!Next, R!vars, R!screens, R!sendInsights, R!markInsightsSent
<1> QED BY <1>1, <1>2, <1>3, <1>4, <1>5, <1>6, <1>7, <1>8, <1>9, <1>10

LEMMA RatingAlways == Spec => []RatingInv
<1>1. Init => RatingInv  BY ReportInit, RatingInit
<1>2. RatingInv /\ [Next]_vars => RatingInv'  BY ReportSteps, RatingStep
<1> QED BY <1>1, <1>2, PTL DEF Spec

\* The stars shown are those kept until a moderator removes them, and a review stays
\* with its video (SubmissionsService.rate, VideoItem, ReviewVideosView): for any
\* videos, ratings in flight and removals.
THEOREM RatingsAlwaysTrue == Spec => []RatingsTrue
<1>1. RatingInv => RatingsTrue
  BY DEF RatingInv, ReportGood, ItemsTrue, RatingsTrue, R!RatingsTrue, R!shownItems
<1> QED BY <1>1, RatingAlways, PTL

\* The funnel and the list of a report differ by no more than the videos decided
\* between the two statements that read them, and what is left is no more than the
\* fund can pay (OrdersService.report, buildOrderReport): for any videos, payouts,
\* decisions, budget and fee.
THEOREM ReportsAlwaysConsistent == Spec => []ReportConsistent
<1>1. RatingInv => ReportConsistent
  <2> SUFFICES ASSUME RatingInv, report # None
               PROVE  R!ReportConsistent
    BY DEF ReportConsistent, R!ReportConsistent
  <2>1. ReportGood  BY DEF RatingInv
  <2>2. R!shownItems = DOMAIN report.items  BY DEF R!shownItems
  <2>3. R!shownItems \in SUBSET Video  BY <2>1, <2>2 DEF ReportGood, ItemsTrue
  <2>4. Told(report.approved, R!shownItems, report.crossed)  BY <2>1, <2>2 DEF ReportGood
  <2>5. /\ report.approved <= Cardinality(R!shownItems \cup report.crossed)
        /\ Cardinality(R!shownItems \ report.crossed) <= report.approved
    BY <2>3, <2>4, ToldBounds
  <2>6. /\ report.approved \in Int
        /\ Cardinality(R!shownItems \ report.crossed) \in Int
    <3>1. PICK S \in SUBSET Video : report.approved = Cardinality(S)  BY <2>4 DEF Told
    <3>2. IsFiniteSet(Video)
      BY AdvertiserAssumption DEF AdvertiserAssumption, R!OrderReportAssumption,
         R!IsFiniteSet, IsFiniteSet
    <3> QED BY <2>3, <3>1, <3>2, FS_Subset, FS_CardinalityType
  <2>7. report.approved >= Cardinality(R!shownItems \ report.crossed)  BY <2>5, <2>6
  <2> QED BY <2>1, <2>5, <2>7 DEF ReportGood, PoolFits, R!ReportConsistent,
          R!Cardinality, Cardinality
<1> QED BY <1>1, RatingAlways, PTL

-----------------------------------------------------------------------------
(* The form: what makes a second order *)

FormFields == {"at", "n", "from", "waits", "f", "preview", "error"}
ReqFields == {"at", "id", "n", "shown", "b", "why", "seen"}
Making == {"sent", "counted", "looked"}

\* Forms are numbered as they are opened; a request bears the number of its form.
NumberType ==
    /\ opened \in Nat /\ MaxForms \in Nat /\ opened <= MaxForms
    /\ DOMAIN form = Client /\ DOMAIN req = Client
    /\ DOMAIN made = 1 .. MaxForms /\ DOMAIN dropped = 1 .. MaxForms
    /\ \A n \in 1 .. MaxForms : made[n] \in Nat /\ dropped[n] \in Nat
    /\ \A c \in Client :
        /\ \/ form[c] = F!Closed
           \/ DOMAIN form[c] = FormFields /\ form[c].at \in {"new", "edit"}
        /\ \/ req[c] = F!Idle
           \/ DOMAIN req[c] = ReqFields /\ req[c].at \in Making \cup {"answered"}

Sends(c) == req[c] # F!Idle
Mine(c, n) == (F!Shown(c) /\ form[c].n = n) \/ (Sends(c) /\ req[c].n = n)

\* A form that may still make an order has lost as many answers as it has made
\* orders; one whose order is made and not yet answered has lost one less.
Owed ==
    /\ \A c \in Client :
        /\ F!Shown(c) => form[c].n \in 1 .. opened
        /\ Sends(c) => req[c].n \in 1 .. opened
        /\ F!Shown(c) /\ Sends(c) => form[c].n = req[c].n
        /\ Sends(c) /\ req[c].at \in Making => req[c].why = {}
        /\ Sends(c) /\ (req[c].at \in Making \/ req[c].why # {}) =>
                made[req[c].n] <= dropped[req[c].n]
        /\ F!Shown(c) /\ ~Sends(c) => made[form[c].n] <= dropped[form[c].n]
    /\ \A c, d \in Client : c # d => \A n \in 1 .. opened : ~(Mine(c, n) /\ Mine(d, n))
    /\ \A n \in 1 .. MaxForms :
        /\ made[n] <= 1 + dropped[n]
        /\ n > opened => made[n] = 0

OwedInv == NumberType /\ Owed

LEMMA FormInit == Init => F!Init
BY DEF Init

LEMMA FormSteps == [Next]_vars => [F!Next]_(F!vars)
BY DEF Next, FormStep, OrdersStep, ReportStep, vars, formVars, F!vars, F!bounds, F!history,
   F!forms

LEMMA OwedInit == F!Init => OwedInv
<1> SUFFICES ASSUME F!Init PROVE OwedInv  OBVIOUS
<1>1. MaxForms \in Nat /\ MaxForms > 0
  BY AdvertiserAssumption DEF F!OrderFormAssumption
<1>2. opened \in Nat /\ opened <= MaxForms  BY <1>1 DEF F!Init
<1>3. /\ form = [c \in Client |-> F!Closed] /\ req = [c \in Client |-> F!Idle]
      /\ made = [n \in 1 .. MaxForms |-> 0] /\ dropped = [n \in 1 .. MaxForms |-> 0]
  BY DEF F!Init
<1>4. NumberType  BY <1>1, <1>2, <1>3 DEF NumberType
<1>5. \A c \in Client : ~F!Shown(c) /\ ~Sends(c)
  BY <1>3 DEF F!Shown, Sends, F!Closed
<1>6. Owed  BY <1>3, <1>5 DEF Owed, Mine
<1> QED BY <1>4, <1>6 DEF OwedInv

\* Nothing is made or lost and no number is given out; the forms and requests that
\* are there were there, but for a request its form has sent.
LEMMA NothingMade ==
    ASSUME OwedInv, NumberType', opened' = opened, made' = made, dropped' = dropped,
           \A c \in Client :
                /\ F!Shown(c)' => F!Shown(c) /\ form'[c].n = form[c].n
                /\ Sends(c)' /\ req'[c].at \in Making => req'[c].why = {}
                /\ Sends(c)' =>
                    \/ /\ Sends(c) /\ req'[c].n = req[c].n
                       /\ (req'[c].at \in Making \/ req'[c].why # {}) =>
                            req[c].at \in Making \/ req[c].why # {}
                    \/ ~Sends(c) /\ F!Shown(c) /\ req'[c].n = form[c].n
                /\ Sends(c) /\ ~Sends(c)' /\ F!Shown(c)' =>
                        req[c].at \in Making \/ req[c].why # {}
    PROVE  OwedInv'
<1>1. Owed'
  BY DEF OwedInv, Owed, Mine
<1> QED BY <1>1 DEF OwedInv

LEMMA OwedStep == OwedInv /\ [F!Next]_(F!vars) => OwedInv'
<1> SUFFICES ASSUME OwedInv, [F!Next]_(F!vars) PROVE OwedInv'  OBVIOUS
<1>0. NumberType /\ Owed  BY DEF OwedInv
<1>1. CASE UNCHANGED <<form, req, opened, made, dropped>>
  BY <1>0, <1>1 DEF OwedInv, NumberType, Owed, Mine, Sends, F!Shown
<1>2. ASSUME NEW c \in Client,
             \E at \in {"new", "edit"}, from \in F!Rows \cup {F!NoOrder} : F!Opens(c, at, from)
      PROVE  OwedInv'
  <2>1. /\ ~F!Shown(c) /\ req[c] = F!Idle /\ opened < MaxForms /\ opened' = opened + 1
        /\ req' = req /\ made' = made /\ dropped' = dropped
        /\ \A d \in Client : d # c => form'[d] = form[d]
        /\ DOMAIN form' = Client
        /\ DOMAIN form'[c] = FormFields /\ form'[c].at \in {"new", "edit"}
        /\ form'[c].n = opened + 1
    BY <1>0, <1>2 DEF F!Opens, F!history, NumberType, FormFields
  <2>2. opened' \in Nat /\ opened' <= MaxForms /\ opened \in Nat /\ opened' \in 1 .. MaxForms
    BY <1>0, <2>1 DEF NumberType
  <2>3. NumberType'  BY <1>0, <2>1, <2>2 DEF NumberType
  <2>4. \A d \in Client : ~Mine(d, opened') /\ (Sends(d)' <=> Sends(d))
    BY <1>0, <2>1, <2>2 DEF Owed, Mine, Sends
  <2>5. \A d \in Client : d # c => (F!Shown(d)' <=> F!Shown(d))  BY <2>1 DEF F!Shown
  <2>6. ~Sends(c)' /\ F!Shown(c)'  BY <2>1 DEF Sends, F!Shown
  <2>7. made[opened'] = 0 /\ dropped[opened'] \in Nat
    BY <1>0, <2>1, <2>2 DEF Owed, NumberType
  <2>8. \A d \in Client :
            /\ F!Shown(d)' => form'[d].n \in 1 .. opened'
            /\ Sends(d)' => req'[d].n \in 1 .. opened'
            /\ F!Shown(d)' /\ Sends(d)' => form'[d].n = req'[d].n
            /\ Sends(d)' /\ req'[d].at \in Making => req'[d].why = {}
            /\ Sends(d)' /\ (req'[d].at \in Making \/ req'[d].why # {}) =>
                    made'[req'[d].n] <= dropped'[req'[d].n]
            /\ F!Shown(d)' /\ ~Sends(d)' => made'[form'[d].n] <= dropped'[form'[d].n]
    <3> SUFFICES ASSUME NEW d \in Client PROVE
            /\ F!Shown(d)' => form'[d].n \in 1 .. opened'
            /\ Sends(d)' => req'[d].n \in 1 .. opened'
            /\ F!Shown(d)' /\ Sends(d)' => form'[d].n = req'[d].n
            /\ Sends(d)' /\ req'[d].at \in Making => req'[d].why = {}
            /\ Sends(d)' /\ (req'[d].at \in Making \/ req'[d].why # {}) =>
                    made'[req'[d].n] <= dropped'[req'[d].n]
            /\ F!Shown(d)' /\ ~Sends(d)' => made'[form'[d].n] <= dropped'[form'[d].n]
      OBVIOUS
    <3>1. \A n \in 1 .. opened : n \in 1 .. opened'  BY <2>1, <2>2
    <3>2. CASE d = c  BY <2>1, <2>2, <2>6, <2>7, <3>2
    <3>3. CASE d # c
      BY <1>0, <2>1, <2>4, <2>5, <3>1, <3>3 DEF Owed
    <3> QED BY <3>2, <3>3
  <2>9. ASSUME NEW d \in Client, NEW e \in Client, d # e, NEW n \in 1 .. opened'
        PROVE  ~(Mine(d, n)' /\ Mine(e, n)')
    <3>1. \A g \in Client : g # c => (Mine(g, n)' <=> Mine(g, n))
      BY <2>1, <2>4, <2>5 DEF Mine
    <3>2. Mine(c, n)' => n = opened'  BY <2>1, <2>6 DEF Mine
    <3>3. n # opened' => n \in 1 .. opened  BY <2>1, <2>2
    <3> QED BY <1>0, <2>4, <2>9, <3>1, <3>2, <3>3 DEF Owed
  <2>10. \A n \in 1 .. MaxForms : made'[n] <= 1 + dropped'[n] /\ (n > opened' => made'[n] = 0)
    <3>1. \A n \in 1 .. MaxForms : n > opened' => n > opened  BY <2>1, <2>2
    <3> QED BY <1>0, <2>1, <3>1 DEF Owed
  <2> QED BY <2>3, <2>8, <2>9, <2>10 DEF OwedInv, Owed
<1>3. ASSUME NEW c \in Client, F!Listed(c) \/ F!NotListed(c) \/ F!Type(c) \/ F!FillIn(c)
                               \/ F!Preview(c) \/ F!Back(c)
      PROVE  OwedInv'
  <2>1. /\ req' = req /\ opened' = opened /\ made' = made /\ dropped' = dropped
        /\ F!Shown(c)
        /\ DOMAIN form' = Client
        /\ \A d \in Client : d # c => form'[d] = form[d]
    BY <1>0, <1>3 DEF NumberType, F!Listed, F!NotListed, F!Type, F!FillIn, F!Preview, F!Back,
       F!bounds, F!history
  <2>2. DOMAIN form[c] = FormFields /\ form[c].at \in {"new", "edit"}
    BY <1>0, <2>1 DEF NumberType, F!Shown, F!Closed
  <2>3. /\ DOMAIN form'[c] = FormFields /\ form'[c].at = form[c].at /\ form'[c].n = form[c].n
    BY <1>0, <1>3, <2>2 DEF NumberType, FormFields, F!Listed, F!NotListed, F!Type, F!FillIn,
       F!Preview, F!Back
  <2>4. NumberType'  BY <1>0, <2>1, <2>2, <2>3 DEF NumberType
  <2>5. \A d \in Client : F!Shown(d)' => F!Shown(d) /\ form'[d].n = form[d].n
    BY <2>1, <2>3 DEF F!Shown
  <2>6. \A d \in Client : Sends(d)' <=> Sends(d)  BY <2>1 DEF Sends
  <2> QED BY <1>0, <2>1, <2>4, <2>5, <2>6, NothingMade DEF Owed
<1>4. ASSUME NEW c \in Client, F!Submit(c) PROVE OwedInv'
  <2>1. /\ F!Shown(c) /\ req[c] = F!Idle
        /\ opened' = opened /\ made' = made /\ dropped' = dropped
        /\ DOMAIN req' = Client /\ DOMAIN form' = Client
        /\ \A d \in Client : d # c => req'[d] = req[d] /\ form'[d] = form[d]
        /\ DOMAIN req'[c] = ReqFields /\ req'[c].at = "sent" /\ req'[c].n = form[c].n
        /\ req'[c].why = {}
    BY <1>0, <1>4 DEF NumberType, F!Submit, F!bounds, F!history, ReqFields
  <2>2. DOMAIN form[c] = FormFields /\ form[c].at \in {"new", "edit"}
    BY <1>0, <2>1 DEF NumberType, F!Shown, F!Closed
  <2>3. /\ DOMAIN form'[c] = FormFields /\ form'[c].at = form[c].at /\ form'[c].n = form[c].n
    BY <1>0, <1>4, <2>2 DEF NumberType, FormFields, F!Submit
  <2>4. NumberType'  BY <1>0, <2>1, <2>2, <2>3 DEF NumberType, Making
  <2>5. \A d \in Client : F!Shown(d)' => F!Shown(d) /\ form'[d].n = form[d].n
    BY <2>1, <2>3 DEF F!Shown
  <2>6. ~Sends(c) /\ \A d \in Client : d # c => (Sends(d)' <=> Sends(d))  BY <2>1 DEF Sends
  <2>7. req'[c] # F!Idle  BY <2>1 DEF F!Idle
  <2> QED BY <1>0, <2>1, <2>4, <2>5, <2>6, <2>7, NothingMade DEF Sends, Owed
<1>5. ASSUME NEW c \in Client, F!Leave(c) PROVE OwedInv'
  <2>1. /\ req' = req /\ opened' = opened /\ made' = made /\ dropped' = dropped
        /\ DOMAIN form' = Client /\ form'[c] = F!Closed
        /\ \A d \in Client : d # c => form'[d] = form[d]
    BY <1>0, <1>5 DEF NumberType, F!Leave, F!bounds, F!history
  <2>2. NumberType'  BY <1>0, <2>1 DEF NumberType
  <2>3. \A d \in Client : F!Shown(d)' => F!Shown(d) /\ form'[d].n = form[d].n
    BY <2>1 DEF F!Shown, F!Closed
  <2>4. \A d \in Client : Sends(d)' <=> Sends(d)  BY <2>1 DEF Sends
  <2> QED BY <1>0, <2>1, <2>2, <2>3, <2>4, NothingMade DEF Owed
<1>6. ASSUME NEW c \in Client, F!Count(c) \/ F!Look(c) \/ F!update(c) PROVE OwedInv'
  <2>1. /\ form' = form /\ opened' = opened /\ made' = made /\ dropped' = dropped
        /\ req[c].at \in Making
        /\ DOMAIN req' = Client
        /\ \A d \in Client : d # c => req'[d] = req[d]
    BY <1>0, <1>6 DEF NumberType, Making, F!Count, F!Look, F!update, F!bounds, F!history,
       F!Refuse, F!Accept
  <2>2. DOMAIN req[c] = ReqFields /\ Sends(c)
    BY <1>0, <2>1 DEF NumberType, Making, F!Idle, Sends
  <2>3. /\ DOMAIN req'[c] = ReqFields /\ req'[c].n = req[c].n
        /\ req'[c].at \in Making \cup {"answered"}
        /\ req'[c].at \in Making => req'[c].why = {}
    <3>0. req[c].why = {}  BY <1>0, <2>1, <2>2 DEF Owed
    <3>1. \/ \E why : req' = [req EXCEPT ![c].at = "answered", ![c].why = why,
                                          ![c].seen = F!Vacant]
          \/ req' = [req EXCEPT ![c].at = "counted"]
          \/ \E seen : req' = [req EXCEPT ![c].at = "looked", ![c].seen = seen]
      BY <1>6 DEF F!Count, F!Look, F!update, F!Refuse, F!Accept
    <3>2. DOMAIN req = Client  BY <1>0 DEF NumberType
    <3>3. ASSUME NEW why, req' = [req EXCEPT ![c].at = "answered", ![c].why = why,
                                             ![c].seen = F!Vacant]
          PROVE  /\ DOMAIN req'[c] = ReqFields /\ req'[c].n = req[c].n
                 /\ req'[c].at = "answered"
      BY <2>2, <3>2, <3>3 DEF ReqFields
    <3>4. ASSUME req' = [req EXCEPT ![c].at = "counted"]
          PROVE  /\ DOMAIN req'[c] = ReqFields /\ req'[c].n = req[c].n
                 /\ req'[c].at = "counted" /\ req'[c].why = req[c].why
      BY <2>2, <3>2, <3>4 DEF ReqFields
    <3>5. ASSUME NEW seen, req' = [req EXCEPT ![c].at = "looked", ![c].seen = seen]
          PROVE  /\ DOMAIN req'[c] = ReqFields /\ req'[c].n = req[c].n
                 /\ req'[c].at = "looked" /\ req'[c].why = req[c].why
      BY <2>2, <3>2, <3>5 DEF ReqFields
    <3> QED BY <3>0, <3>1, <3>3, <3>4, <3>5 DEF Making
  <2>4. NumberType'  BY <1>0, <2>1, <2>3 DEF NumberType
  <2>5. \A d \in Client : F!Shown(d)' => F!Shown(d) /\ form'[d].n = form[d].n
    BY <2>1 DEF F!Shown
  <2>6. Sends(c)' /\ \A d \in Client : d # c => (Sends(d)' <=> Sends(d))
    BY <2>1, <2>3 DEF Sends, F!Idle, Making
  <2> QED BY <1>0, <2>1, <2>2, <2>3, <2>4, <2>5, <2>6, NothingMade DEF Owed
<1>7. ASSUME NEW c \in Client, F!Create(c) PROVE OwedInv'
  <2>1. /\ form' = form /\ opened' = opened /\ dropped' = dropped
        /\ req[c].at = "counted"
        /\ req' = [req EXCEPT ![c].at = "answered", ![c].why = {}, ![c].seen = F!Vacant]
        /\ made' = [made EXCEPT ![req[c].n] = @ + 1]
    BY <1>7 DEF F!Create, F!Accept, F!Refuse, F!bounds
  <2>2. DOMAIN req[c] = ReqFields /\ Sends(c)
    BY <1>0, <2>1 DEF NumberType, F!Idle, Sends
  <2> DEFINE n == req[c].n
  <2>3. n \in 1 .. opened /\ made[n] <= dropped[n]
    BY <1>0, <2>1, <2>2 DEF Owed, Making
  <2>4. n \in 1 .. MaxForms /\ made[n] \in Nat /\ dropped[n] \in Nat
    BY <1>0, <2>3 DEF NumberType
  <2>5. /\ DOMAIN made' = 1 .. MaxForms /\ made'[n] = made[n] + 1
        /\ \A m \in 1 .. MaxForms : m # n => made'[m] = made[m]
    BY <1>0, <2>1, <2>4 DEF NumberType
  <2>6. /\ DOMAIN req' = Client /\ DOMAIN req'[c] = ReqFields
        /\ req'[c].at = "answered" /\ req'[c].n = n /\ req'[c].why = {}
        /\ \A d \in Client : d # c => req'[d] = req[d]
    BY <1>0, <2>1, <2>2 DEF NumberType, Owed, ReqFields, Making
  <2>7. /\ Sends(c)' /\ \A d \in Client : Sends(d)' <=> Sends(d)
        /\ \A d \in Client : F!Shown(d)' <=> F!Shown(d)
    <3>1. req'[c] # F!Idle  BY <2>6 DEF F!Idle
    <3>2. \A d \in Client : F!Shown(d)' <=> F!Shown(d)  BY <2>1 DEF F!Shown
    <3> QED BY <2>2, <2>6, <3>1, <3>2 DEF Sends
  <2>8. \A d \in Client : d # c => ~Mine(d, n)
    BY <1>0, <2>2, <2>3 DEF Owed, Mine
  <2> HIDE DEF n
  <2>9. NumberType'
    BY <1>0, <2>1, <2>4, <2>5, <2>6 DEF NumberType
  <2>10. \A d \in Client, m \in 1 .. opened : Mine(d, m)' <=> Mine(d, m)
    <3> SUFFICES ASSUME NEW d \in Client, NEW m \in 1 .. opened PROVE Mine(d, m)' <=> Mine(d, m)
      OBVIOUS
    <3>1. form'[d] = form[d] /\ req'[d].n = req[d].n  BY <2>1, <2>6 DEF n
    <3> QED BY <2>7, <3>1 DEF Mine
  <2>11. \A m \in 1 .. MaxForms : made'[m] <= 1 + dropped'[m] /\ (m > opened' => made'[m] = 0)
    <3>1. made'[n] <= 1 + dropped[n] /\ ~(n > opened)
      BY <1>0, <2>3, <2>4, <2>5 DEF NumberType, n
    <3> QED BY <1>0, <2>1, <2>5, <3>1 DEF Owed
  <2>12. ASSUME NEW d \in Client
         PROVE  /\ F!Shown(d)' => form'[d].n \in 1 .. opened'
                /\ Sends(d)' => req'[d].n \in 1 .. opened'
                /\ F!Shown(d)' /\ Sends(d)' => form'[d].n = req'[d].n
                /\ Sends(d)' /\ req'[d].at \in Making => req'[d].why = {}
                /\ Sends(d)' /\ (req'[d].at \in Making \/ req'[d].why # {}) =>
                        made'[req'[d].n] <= dropped'[req'[d].n]
                /\ F!Shown(d)' /\ ~Sends(d)' => made'[form'[d].n] <= dropped'[form'[d].n]
    <3>1. CASE d = c
      BY <1>0, <2>1, <2>2, <2>3, <2>6, <2>7, <3>1 DEF Owed, Making, n
    <3>2. CASE d # c
      <4>1. /\ F!Shown(d) => form[d].n # n /\ form[d].n \in 1 .. MaxForms
            /\ Sends(d) => req[d].n # n /\ req[d].n \in 1 .. MaxForms
        BY <1>0, <2>8, <3>2 DEF Owed, Mine, NumberType
      <4> QED BY <1>0, <2>1, <2>5, <2>6, <2>7, <3>2, <4>1 DEF Owed
    <3> QED BY <3>1, <3>2
  <2>13. \A d, e \in Client : d # e => \A m \in 1 .. opened' : ~(Mine(d, m)' /\ Mine(e, m)')
    BY <1>0, <2>1, <2>10 DEF Owed
  <2> QED BY <2>9, <2>11, <2>12, <2>13 DEF OwedInv, Owed
<1>8. ASSUME NEW c \in Client, F!Answer(c) PROVE OwedInv'
  <2>1. /\ req[c].at = "answered" /\ req' = [req EXCEPT ![c] = F!Idle]
        /\ form' = IF ~F!Own(c) THEN form
                   ELSE IF req[c].why = {} THEN [form EXCEPT ![c] = F!Closed]
                   ELSE [form EXCEPT ![c].error = "refused"]
        /\ opened' = opened /\ made' = made /\ dropped' = dropped
    BY <1>8 DEF F!Answer, F!bounds, F!history
  <2>2. Sends(c)  BY <2>1 DEF Sends, F!Idle
  <2>3. /\ DOMAIN req' = Client /\ req'[c] = F!Idle
        /\ \A d \in Client : d # c => req'[d] = req[d]
    BY <1>0, <2>1 DEF NumberType
  <2>4. /\ DOMAIN form' = Client
        /\ \A d \in Client : d # c => form'[d] = form[d]
        /\ \/ form'[c] = form[c] /\ ~F!Own(c)
           \/ form'[c] = F!Closed
           \/ /\ F!Shown(c) /\ req[c].why # {}
              /\ form'[c] = [form[c] EXCEPT !.error = "refused"]
    BY <1>0, <2>1 DEF NumberType, F!Own
  <2>5. F!Shown(c) => F!Own(c)  BY <1>0, <2>2 DEF Owed, F!Own
  <2>6. F!Shown(c) => DOMAIN form[c] = FormFields /\ form[c].at \in {"new", "edit"}
    BY <1>0 DEF NumberType, F!Shown, F!Closed
  <2>7. /\ F!Shown(c)' => F!Shown(c) /\ form'[c].n = form[c].n /\ req[c].why # {}
        /\ \/ form'[c] = F!Closed
           \/ DOMAIN form'[c] = FormFields /\ form'[c].at \in {"new", "edit"}
    BY <1>0, <2>4, <2>5, <2>6 DEF F!Shown, F!Closed, FormFields, NumberType
  <2>8. NumberType'  BY <1>0, <2>1, <2>3, <2>4, <2>7 DEF NumberType
  <2>9. ~Sends(c)' /\ \A d \in Client : d # c =>
            (Sends(d)' <=> Sends(d)) /\ (F!Shown(d)' <=> F!Shown(d))
    BY <2>3, <2>4 DEF Sends, F!Shown
  <2> QED BY <1>0, <2>1, <2>3, <2>4, <2>7, <2>8, <2>9, NothingMade DEF Owed
<1>9. ASSUME NEW c \in Client, F!Lost(c) PROVE OwedInv'
  <2>1. /\ req[c].at \in {"sent", "answered"} /\ req' = [req EXCEPT ![c] = F!Idle]
        /\ form' = IF F!Own(c) THEN [form EXCEPT ![c].error = "failed"] ELSE form
        /\ opened' = opened /\ made' = made
        /\ dropped' = [dropped EXCEPT ![req[c].n] = @ + 1]
    BY <1>9 DEF F!Lost
  <2>2. Sends(c)  BY <2>1 DEF Sends, F!Idle
  <2> DEFINE n == req[c].n
  <2>3. n \in 1 .. opened /\ n \in 1 .. MaxForms /\ made[n] \in Nat /\ dropped[n] \in Nat
    BY <1>0, <2>2 DEF Owed, NumberType
  <2>4. /\ DOMAIN dropped' = 1 .. MaxForms /\ dropped'[n] = dropped[n] + 1
        /\ \A m \in 1 .. MaxForms : m # n => dropped'[m] = dropped[m]
    BY <1>0, <2>1, <2>3 DEF NumberType
  <2>5. /\ DOMAIN req' = Client /\ req'[c] = F!Idle
        /\ \A d \in Client : d # c => req'[d] = req[d]
    BY <1>0, <2>1 DEF NumberType
  <2>6. F!Shown(c) => /\ DOMAIN form[c] = FormFields /\ form[c].at \in {"new", "edit"}
                      /\ form[c].n = n
    BY <1>0, <2>2 DEF NumberType, F!Shown, F!Closed, Owed
  <2>7. /\ DOMAIN form' = Client
        /\ \A d \in Client : d # c => form'[d] = form[d]
        /\ F!Shown(c)' <=> F!Shown(c)
        /\ F!Shown(c) => form'[c].n = n
        /\ \/ form'[c] = F!Closed
           \/ DOMAIN form'[c] = FormFields /\ form'[c].at \in {"new", "edit"}
    <3>1. CASE F!Own(c)
      <4>1. /\ form'[c] = [form[c] EXCEPT !.error = "failed"] /\ F!Shown(c)
            /\ DOMAIN form' = Client /\ \A d \in Client : d # c => form'[d] = form[d]
        BY <1>0, <2>1, <3>1 DEF NumberType, F!Own
      <4>2. /\ DOMAIN form'[c] = FormFields /\ form'[c].at = form[c].at
            /\ form'[c].n = form[c].n
        BY <2>6, <4>1 DEF FormFields
      <4> QED BY <2>6, <4>1, <4>2 DEF F!Shown
    <3>2. CASE ~F!Own(c)
      BY <1>0, <2>1, <2>6, <3>2 DEF NumberType, F!Own, F!Shown
    <3> QED BY <3>1, <3>2
  <2>8. ~Sends(c)' /\ \A d \in Client : d # c =>
            (Sends(d)' <=> Sends(d)) /\ (F!Shown(d)' <=> F!Shown(d))
    BY <2>5, <2>7 DEF Sends, F!Shown
  <2>9. made[n] <= 1 + dropped[n]  BY <1>0, <2>3 DEF Owed
  <2> HIDE DEF n
  <2>10. NumberType'  BY <1>0, <2>1, <2>3, <2>4, <2>5, <2>7 DEF NumberType
  <2>11. \A m \in 1 .. MaxForms : made[m] <= dropped[m] => made'[m] <= dropped'[m]
    BY <1>0, <2>1, <2>3, <2>4 DEF NumberType
  <2>12. made'[n] <= dropped'[n]  BY <2>1, <2>3, <2>4, <2>9
  <2>13. \A m \in 1 .. MaxForms : made'[m] <= 1 + dropped'[m] /\ (m > opened' => made'[m] = 0)
    BY <1>0, <2>1, <2>3, <2>4 DEF Owed, NumberType
  <2>14. ASSUME NEW d \in Client
         PROVE  /\ F!Shown(d)' => form'[d].n \in 1 .. opened'
                /\ Sends(d)' => req'[d].n \in 1 .. opened'
                /\ F!Shown(d)' /\ Sends(d)' => form'[d].n = req'[d].n
                /\ Sends(d)' /\ req'[d].at \in Making => req'[d].why = {}
                /\ Sends(d)' /\ (req'[d].at \in Making \/ req'[d].why # {}) =>
                        made'[req'[d].n] <= dropped'[req'[d].n]
                /\ F!Shown(d)' /\ ~Sends(d)' => made'[form'[d].n] <= dropped'[form'[d].n]
    <3>1. CASE d = c
      BY <2>1, <2>3, <2>7, <2>8, <2>12, <3>1
    <3>2. CASE d # c
      <4>1. /\ F!Shown(d) => form[d].n \in 1 .. MaxForms
            /\ Sends(d) => req[d].n \in 1 .. MaxForms
        BY <1>0 DEF Owed, NumberType
      <4> QED BY <1>0, <2>1, <2>5, <2>7, <2>8, <2>11, <3>2, <4>1 DEF Owed
    <3> QED BY <3>1, <3>2
  <2>15. \A d \in Client, m \in 1 .. opened : Mine(d, m)' => Mine(d, m)
    <3> SUFFICES ASSUME NEW d \in Client, NEW m \in 1 .. opened, Mine(d, m)' PROVE Mine(d, m)
      OBVIOUS
    <3>1. CASE d = c  BY <2>2, <2>7, <2>8, <3>1 DEF Mine, n
    <3>2. CASE d # c  BY <2>5, <2>7, <2>8, <3>2 DEF Mine
    <3> QED BY <3>1, <3>2
  <2>16. \A d, e \in Client : d # e => \A m \in 1 .. opened' : ~(Mine(d, m)' /\ Mine(e, m)')
    BY <1>0, <2>1, <2>15 DEF Owed
  <2> QED BY <2>10, <2>13, <2>14, <2>16 DEF OwedInv, Owed
<1>10. \/ UNCHANGED <<form, req, opened, made, dropped>>
       \/ \E c \in Client :
            \/ \E at \in {"new", "edit"}, from \in F!Rows \cup {F!NoOrder} : F!Opens(c, at, from)
            \/ F!Leave(c) \/ F!Listed(c) \/ F!NotListed(c) \/ F!Type(c) \/ F!FillIn(c)
            \/ F!Preview(c) \/ F!Back(c) \/ F!Submit(c)
            \/ F!Count(c) \/ F!Create(c) \/ F!Look(c) \/ F!update(c)
            \/ F!Answer(c) \/ F!Lost(c)
  BY DEF F!Next, F!vars, F!bounds, F!history, F!OpenNew, F!OpenCopy, F!OpenEdit,
     F!Approve, F!Reject, F!Close, F!moderatorClose, F!Expire, F!extend, F!Becomes, F!Goes
<1> QED BY <1>1, <1>2, <1>3, <1>4, <1>5, <1>6, <1>7, <1>8, <1>9, <1>10

\* A form makes a second order only after the answer to the first was lost
\* (MyOrdersController.create, OrderForm): for any apps, forms and faults.
THEOREM TwiceAlwaysAfterLoss == Spec => []TwiceOnlyAfterLoss
<1>1. Init => OwedInv  BY FormInit, OwedInit
<1>2. OwedInv /\ [Next]_vars => OwedInv'  BY FormSteps, OwedStep
<1>3. OwedInv => TwiceOnlyAfterLoss
  BY DEF OwedInv, Owed, TwiceOnlyAfterLoss, F!TwiceOnlyAfterLoss
<1> QED BY <1>1, <1>2, <1>3, PTL DEF Spec

-----------------------------------------------------------------------------
(* The form: the examples that are filled in *)

\* How many of a set of places come before one: each has a count of its own.
LEMMA Places ==
    ASSUME NEW m \in Nat, NEW S \in SUBSET (1 .. m)
    PROVE  LET n == Cardinality(S)
               before(i) == Cardinality({j \in S : j < i})
           IN /\ n \in Nat
              /\ \A i \in S : before(i) \in 0 .. n - 1
              /\ \A i, j \in S : i < j => before(i) < before(j)
              /\ \A k \in 1 .. n : \E i \in S : before(i) = k - 1
<1> DEFINE n == Cardinality(S)
           first(i) == {j \in S : j < i}
           before(i) == Cardinality(first(i))
<1>0. IsFiniteSet(1 .. m)  BY FS_Interval
<1>1. IsFiniteSet(S) /\ \A i \in S : i \in Nat
  <2>1. IsFiniteSet(S)  BY <1>0, FS_Subset
  <2> QED BY <2>1
<1>2. n \in Nat  BY <1>1, FS_CardinalityType
<1>3. ASSUME NEW i \in S
      PROVE  IsFiniteSet(first(i)) /\ before(i) \in 0 .. n - 1
  <2>1. first(i) \in SUBSET S  OBVIOUS
  <2>2. i \notin first(i)  BY <1>1
  <2> HIDE DEF first
  <2>3. /\ IsFiniteSet(first(i)) /\ Cardinality(first(i)) <= n
        /\ Cardinality(first(i)) # n
    BY <1>1, <2>1, <2>2, FS_Subset
  <2>4. Cardinality(first(i)) \in Nat  BY <2>3, FS_CardinalityType
  <2> HIDE DEF n
  <2> QED BY <1>2, <2>3, <2>4
<1>4. ASSUME NEW i \in S, NEW j \in S, i < j
      PROVE  before(i) < before(j)
  <2>0. i \in Nat /\ j \in Nat  BY <1>1
  <2>1. first(i) \in SUBSET first(j)
    <3>1. ASSUME NEW l \in S, l < i PROVE l < j
      <4>1. l \in Nat  BY <1>1
      <4> QED BY <1>4, <2>0, <3>1, <4>1
    <3> QED BY <3>1
  <2>11. i \in first(j) /\ i \notin first(i)  BY <1>4, <2>0
  <2>2. IsFiniteSet(first(i)) /\ IsFiniteSet(first(j))  BY <1>3
  <2> HIDE DEF first
  <2>3. /\ Cardinality(first(i)) <= Cardinality(first(j))
        /\ Cardinality(first(i)) # Cardinality(first(j))
    BY <2>1, <2>11, <2>2, FS_Subset
  <2>4. Cardinality(first(i)) \in Nat /\ Cardinality(first(j)) \in Nat
    BY <2>2, FS_CardinalityType
  <2> QED BY <2>3, <2>4
<1>5. \A k \in 1 .. n : \E i \in S : before(i) = k - 1
  <2>0. \A i \in S : before(i) \in 0 .. n - 1  BY <1>3
  <2>00. \A i, j \in S : i < j => before(i) < before(j)  BY <1>4
  <2> DEFINE place == [i \in S |-> before(i) + 1]
  <2> HIDE DEF n, before, first
  <2>1. place \in [S -> 1 .. n]  BY <1>2, <2>0
  <2>2. \A i, j \in S : place[i] = place[j] => i = j
    <3> SUFFICES ASSUME NEW i \in S, NEW j \in S, place[i] = place[j] PROVE i = j
      OBVIOUS
    <3>1. before(i) = before(j) /\ before(i) \in Int  BY <1>2, <2>0
    <3>2. ~(i < j) /\ ~(j < i)  BY <2>00, <3>1
    <3> QED BY <1>1, <3>2
  <2>3. place \in Injection(S, 1 .. n)  BY <2>1, <2>2 DEF Injection, IsInjective
  <2>4. IsFiniteSet(1 .. n) /\ Cardinality(1 .. n) = n
    <3>1. IsFiniteSet(1 .. n)  BY <1>2, FS_Interval
    <3>2. Cardinality(1 .. n) = IF 1 > n THEN 0 ELSE n - 1 + 1  BY <1>2, FS_Interval
    <3> QED BY <1>2, <3>1, <3>2
  <2>5. Cardinality(S) = Cardinality(1 .. n)  BY <2>4 DEF n
  <2>6. place \in Surjection(S, 1 .. n)
    <3> HIDE DEF place
    <3> QED BY <2>3, <2>4, <2>5, FS_Injection
  <2>7. \A k \in 1 .. n : \E i \in S : place[i] = k  BY <2>6 DEF Surjection
  <2> SUFFICES ASSUME NEW k \in 1 .. n PROVE \E i \in S : before(i) = k - 1
    OBVIOUS
  <2>8. PICK i \in S : place[i] = k  BY <2>7
  <2>9. before(i) + 1 = k /\ before(i) \in Int  BY <1>2, <2>0, <2>8
  <2> QED BY <1>2, <2>9
<1> QED BY <1>2, <1>3, <1>4, <1>5

\* What is filled in: all that is not empty and nothing else; a list without empty
\* fields is what it was.
LEMMA FilledIs ==
    ASSUME NEW S, NEW list \in Seq(S)
    PROVE  LET s == F!Filled(list) IN
           /\ s \in Seq(S)
           /\ {s[k] : k \in DOMAIN s} = {list[i] : i \in DOMAIN list} \ {"empty"}
           /\ (\A i \in DOMAIN list : list[i] # "empty") => s = list
<1> DEFINE full == {i \in DOMAIN list : list[i] # "empty"}
           n == Cardinality(full)
           before(i) == Cardinality({j \in full : j < i})
           e(k) == CHOOSE i \in full : before(i) = k - 1
           s == [k \in 1 .. n |-> list[e(k)]]
<1>1. F!Filled(list) = s  BY DEF F!Filled, F!Cardinality, Cardinality
<1>2. /\ Len(list) \in Nat /\ DOMAIN list = 1 .. Len(list)
      /\ \A i \in DOMAIN list : list[i] \in S
  OBVIOUS
<1>3. full \in SUBSET (1 .. Len(list))  BY <1>2
<1>4. \A i \in full : i \in Nat /\ i \in DOMAIN list /\ list[i] # "empty"  BY <1>2
<1> HIDE DEF full
<1>5. /\ n \in Nat
      /\ \A i \in full : before(i) \in 0 .. n - 1
      /\ \A i, j \in full : i < j => before(i) < before(j)
      /\ \A k \in 1 .. n : \E i \in full : before(i) = k - 1
  BY <1>2, <1>3, Places
<1> HIDE DEF n, before
<1>6. ASSUME NEW k \in 1 .. n PROVE e(k) \in full /\ before(e(k)) = k - 1
  <2>1. \E i \in full : before(i) = k - 1  BY <1>5
  <2> QED BY <2>1
<1> HIDE DEF e
<1>7. s \in [1 .. n -> S]  BY <1>2, <1>4, <1>6
<1>8. s \in Seq(S) /\ DOMAIN s = 1 .. n  BY <1>5, <1>7
<1>9. ASSUME NEW i \in full PROVE \E k \in 1 .. n : e(k) = i
  <2>1. before(i) \in 0 .. n - 1  BY <1>5
  <2> DEFINE k == before(i) + 1
  <2>2. k \in 1 .. n /\ k - 1 = before(i)  BY <1>5, <2>1
  <2>3. e(k) \in full /\ before(e(k)) = before(i)  BY <1>6, <2>2
  <2>4. ~(e(k) < i) /\ ~(i < e(k))  BY <1>5, <2>1, <2>3
  <2>5. e(k) = i  BY <1>4, <2>3, <2>4
  <2> QED BY <2>2, <2>5
<1>10. {s[k] : k \in DOMAIN s} = {list[i] : i \in DOMAIN list} \ {"empty"}
  <2>1. \A k \in DOMAIN s : s[k] = list[e(k)] /\ e(k) \in full  BY <1>6, <1>8
  <2>2. \A i \in full : \E k \in DOMAIN s : s[k] = list[i]  BY <1>8, <1>9
  <2>3. \A i \in DOMAIN list : list[i] # "empty" => i \in full  BY DEF full
  <2> HIDE DEF s
  <2> QED BY <1>4, <2>1, <2>2, <2>3
<1>11. ASSUME \A i \in DOMAIN list : list[i] # "empty" PROVE s = list
  <2>1. full = 1 .. Len(list)  BY <1>2, <1>11 DEF full
  <2>2. n = Len(list)
    <3>1. Cardinality(1 .. Len(list)) = IF 1 > Len(list) THEN 0 ELSE Len(list) - 1 + 1
      BY <1>2, FS_Interval
    <3> QED BY <1>2, <2>1, <3>1 DEF n
  <2>3. ASSUME NEW i \in full PROVE before(i) = i - 1
    <3>1. i \in Nat /\ i >= 1 /\ i <= Len(list)  BY <1>2, <2>1
    <3>2. {j \in full : j < i} = 1 .. i - 1  BY <1>2, <2>1, <3>1
    <3>3. Cardinality(1 .. i - 1) = IF 1 > i - 1 THEN 0 ELSE i - 1 - 1 + 1
      BY <3>1, FS_Interval
    <3>4. before(i) = Cardinality({j \in full : j < i})  BY DEF before
    <3>5. before(i) = Cardinality(1 .. i - 1)  BY <3>2, <3>4
    <3> QED BY <3>1, <3>3, <3>5
  <2>4. ASSUME NEW k \in 1 .. n PROVE e(k) = k
    <3>1. e(k) \in full /\ before(e(k)) = k - 1  BY <1>6
    <3>2. e(k) - 1 = k - 1 /\ e(k) \in Nat /\ k \in Nat  BY <1>4, <1>5, <2>3, <3>1
    <3> QED BY <3>2
  <2>5. \A k \in 1 .. n : s[k] = list[k]  BY <2>4
  <2>6. DOMAIN s = 1 .. Len(list)  BY <2>2
  <2>7. s = [k \in 1 .. Len(list) |-> list[k]]  BY <2>2, <2>5
  <2>8. list = [k \in 1 .. Len(list) |-> list[k]]  BY <1>2
  <2> QED BY <2>7, <2>8
<1>12. /\ s \in Seq(S)
       /\ {s[k] : k \in DOMAIN s} = {list[i] : i \in DOMAIN list} \ {"empty"}
       /\ (\A i \in DOMAIN list : list[i] # "empty") => s = list
  BY <1>8, <1>10, <1>11
<1> HIDE DEF s
<1> QED BY <1>1, <1>12

\* Empty fields are added to a short list only.
LEMMA PadIs ==
    ASSUME NEW S, "empty" \in S, NEW list \in Seq(S), MIN_EXAMPLES \in Nat
    PROVE  /\ F!Pad(list) \in Seq(S)
           /\ Len(list) >= MIN_EXAMPLES => F!Pad(list) = list
<1> DEFINE m == IF Len(list) < MIN_EXAMPLES THEN MIN_EXAMPLES - Len(list) ELSE 0
           e == [i \in 1 .. m |-> "empty"]
<1>1. Len(list) \in Nat /\ m \in Nat  OBVIOUS
<1> HIDE DEF m
<1>2. e \in Seq(S)
  <2>1. e \in [1 .. m -> S]  OBVIOUS
  <2> QED BY <1>1, <2>1
<1>3. F!Pad(list) = list \o e  BY DEF F!Pad, m
<1>4. F!Pad(list) \in Seq(S)
  <2> HIDE DEF e
  <2> QED BY <1>2, <1>3
<1>5. ASSUME Len(list) >= MIN_EXAMPLES PROVE F!Pad(list) = list
  <2>1. m = 0  BY <1>1, <1>5 DEF m
  <2>2. e = <<>>  BY <2>1
  <2>3. list \o <<>> = list  OBVIOUS
  <2> QED BY <1>3, <2>2, <2>3
<1> QED BY <1>4, <1>5

-----------------------------------------------------------------------------
(* The form: what is typed, sent and stored *)

FieldNames == {"text", "examples", "target", "bio", "budget", "minViews", "minSec",
               "maxSec", "platforms", "category", "deadline"}
Entries == Videos \cup {"empty", "post1", "post2"}

IsForm(f) ==
    DOMAIN f = FieldNames /\ f.examples \in Seq(Entries) /\ f.bio \in BOOLEAN

IsTerms(t) ==
    /\ t = [text |-> t.text, examples |-> t.examples, target |-> t.target, bio |-> t.bio,
            budget |-> t.budget, minViews |-> t.minViews, minSec |-> t.minSec,
            maxSec |-> t.maxSec, platforms |-> t.platforms, category |-> t.category]
    /\ t.examples \in Seq(Entries) /\ t.bio \in BOOLEAN

\* Terms the server takes, and takes again.
Accepted(t) == F!parseOrderInput(t) = {} /\ F!text(t.text) = t.text

\* Terms that say what a form said.
Says(t, f) ==
    /\ t.text = F!text(f.text) /\ t.target = f.target
    /\ t.bio <=> (f.bio /\ f.target # "empty")
    /\ <<t.budget, t.minViews, t.minSec, t.maxSec, t.platforms, t.category>>
         = <<f.budget, f.minViews, f.minSec, f.maxSec, f.platforms, f.category>>
    /\ {t.examples[i] : i \in DOMAIN t.examples}
         = {f.examples[i] : i \in DOMAIN f.examples} \ {"empty"}

\* A test that finds nothing wrong.
LEMMA Clear ==
    ASSUME NEW tests, F!Wrong(tests) = {}
    PROVE  \A k \in DOMAIN tests : ~tests[k]
BY DEF F!Wrong

\* What is true of a body that is not refused.
LEMMA Taken ==
    ASSUME NEW b, F!parseOrderInput(b) = {}
    PROVE  /\ Len(b.examples) \in MIN_EXAMPLES .. MAX_EXAMPLES
           /\ \A i \in DOMAIN b.examples : b.examples[i] \in F!Platform
           /\ F!isMeaningfulText(F!text(b.text))
           /\ ~(b.bio /\ b.target = "empty")
           /\ b.target = "empty" \/ F!httpUrl(b.target)
           /\ b.budget \in MIN_BUDGET .. MAX_BUDGET /\ b.minViews \in 1 .. MAX_VIEWS
           /\ b.minSec \in 1 .. MAX_DURATION /\ b.maxSec \in 1 .. MAX_DURATION
           /\ b.category # "none"
<1> DEFINE E == F!parseExamples(b.examples)
           U == F!optionalUrl(b.target)
           B == [briefEmpty           |-> ~F!isMeaningfulText(F!text(b.text)),
                 linkInBioNeedsTarget |-> b.bio /\ b.target = "empty",
                 budgetRange          |-> b.budget \notin MIN_BUDGET..MAX_BUDGET,
                 viewsRange           |-> ~F!parseViews(b.minViews),
                 durationRange        |-> ~(F!durationSec(b.minSec) /\ F!durationSec(b.maxSec)),
                 durationOrder        |-> b.minSec > b.maxSec,
                 chooseCategory       |-> b.category = "none"]
<1>1. F!Wrong(E) = {} /\ F!Wrong(U) = {} /\ F!Wrong(B) = {}
  <2>1. F!Wrong(E) \cup F!Wrong(U) \cup F!Wrong(B) = {}  BY DEF F!parseOrderInput
  <2> HIDE DEF E, U, B
  <2> QED BY <2>1
<1>2. /\ \A k \in DOMAIN E : ~E[k]
      /\ \A k \in DOMAIN U : ~U[k]
      /\ \A k \in DOMAIN B : ~B[k]
  <2> HIDE DEF E, U, B
  <2> QED BY <1>1, Clear
<1>3. /\ Len(b.examples) \in MIN_EXAMPLES .. MAX_EXAMPLES
      /\ \A i \in DOMAIN b.examples : b.examples[i] \in F!Platform
  <2>1. ~E.examplesCount /\ ~E.exampleNotVideo  BY <1>2 DEF F!parseExamples
  <2> QED BY <2>1 DEF F!parseExamples
<1>4. b.target = "empty" \/ F!httpUrl(b.target)
  <2>1. ~U.urlScheme  BY <1>2 DEF F!optionalUrl
  <2> QED BY <2>1 DEF F!optionalUrl
<1>5. /\ ~B.briefEmpty /\ ~B.linkInBioNeedsTarget /\ ~B.budgetRange /\ ~B.viewsRange
      /\ ~B.durationRange /\ ~B.chooseCategory
  BY <1>2
<1> QED BY <1>3, <1>4, <1>5 DEF F!parseViews, F!durationSec

\* Bodies that say the same are taken or refused for the same reasons.
LEMMA SameParse ==
    ASSUME NEW a, NEW b,
           a.text = b.text \/ F!text(a.text) = F!text(b.text),
           a.examples = b.examples, a.target = b.target, a.bio = b.bio,
           a.budget = b.budget, a.minViews = b.minViews, a.minSec = b.minSec,
           a.maxSec = b.maxSec, a.category = b.category
    PROVE  F!parseOrderInput(a) = F!parseOrderInput(b)
<1>1. F!text(a.text) = F!text(b.text)  OBVIOUS
<1> QED BY <1>1 DEF F!parseOrderInput

LEMMA TextOnce == ASSUME NEW t PROVE F!text(F!text(t)) = F!text(t)
BY DEF F!text

\* Any field may be written over.
LEMMA OverWritten ==
    ASSUME NEW f, IsForm(f), NEW k \in FieldNames, NEW x,
           k = "examples" => x \in Seq(Entries), k = "bio" => x \in BOOLEAN
    PROVE  IsForm([f EXCEPT ![k] = x])
BY DEF IsForm, FieldNames

\* The hand leaves a form a form.
LEMMA TypedForm ==
    ASSUME NEW f, IsForm(f), NEW id, NEW g \in F!Typed(f, id)
    PROVE  IsForm(g)
<1> DEFINE e == f.examples
<1>0. DOMAIN f = FieldNames /\ e \in Seq(Entries) /\ f.bio \in BOOLEAN  BY DEF IsForm
<1>1. \/ \E k \in FieldNames \ {"examples", "bio"} : \E x : g = [f EXCEPT ![k] = x]
      \/ \E x \in BOOLEAN : g = [f EXCEPT !.bio = x]
      \/ g \in F!typedExamples(f)
  BY Zenon DEF F!Typed, F!typedText, F!typedTarget, F!typedRequirements, F!typedBudget,
     F!typedDeadline, FieldNames
<1>2. CASE \E k \in FieldNames \ {"examples", "bio"} : \E x : g = [f EXCEPT ![k] = x]
  <2>1. PICK k \in FieldNames \ {"examples", "bio"} : \E x : g = [f EXCEPT ![k] = x]
    BY <1>2
  <2>2. PICK x : g = [f EXCEPT ![k] = x]  BY <2>1
  <2>3. k \in FieldNames /\ k # "examples" /\ k # "bio"  BY <2>1
  <2> QED BY <2>2, <2>3, OverWritten
<1>3. CASE \E x \in BOOLEAN : g = [f EXCEPT !.bio = x]
  BY <1>3, OverWritten DEF FieldNames
<1>4. CASE g \in F!typedExamples(f)
  <2>1. \E s \in Seq(Entries) : g = [f EXCEPT !.examples = s]
    <3>0. Len(e) \in Nat /\ DOMAIN e = 1 .. Len(e)  BY <1>0
    <3>1. ASSUME NEW i \in DOMAIN e, NEW v \in Videos, g = [f EXCEPT !.examples[i] = v]
          PROVE  \E s \in Seq(Entries) : g = [f EXCEPT !.examples = s]
      <4>1. v \in Entries  BY DEF Entries
      <4>2. [e EXCEPT ![i] = v] \in Seq(Entries)  BY <1>0, <3>0, <4>1
      <4>3. g = [f EXCEPT !.examples = [e EXCEPT ![i] = v]]  BY <3>1
      <4> QED BY <4>2, <4>3
    <3>2. ASSUME NEW i \in DOMAIN e,
                 g = [f EXCEPT !.examples = SubSeq(@, 1, i - 1) \o SubSeq(@, i + 1, Len(@))]
          PROVE  \E s \in Seq(Entries) : g = [f EXCEPT !.examples = s]
      <4>1. SubSeq(e, 1, i - 1) \in Seq(Entries) /\ SubSeq(e, i + 1, Len(e)) \in Seq(Entries)
        BY <1>0, <3>0
      <4>2. SubSeq(e, 1, i - 1) \o SubSeq(e, i + 1, Len(e)) \in Seq(Entries)  BY <4>1
      <4>3. g = [f EXCEPT !.examples = SubSeq(e, 1, i - 1) \o SubSeq(e, i + 1, Len(e))]
        BY <3>2
      <4> QED BY <4>2, <4>3
    <3>3. ASSUME g = [f EXCEPT !.examples = Append(@, "empty")]
          PROVE  \E s \in Seq(Entries) : g = [f EXCEPT !.examples = s]
      <4>1. "empty" \in Entries  BY DEF Entries
      <4>2. Append(e, "empty") \in Seq(Entries)  BY <1>0, <4>1
      <4>3. g = [f EXCEPT !.examples = Append(e, "empty")]  BY <3>3
      <4> QED BY <4>2, <4>3
    <3> DEFINE changed == {[f EXCEPT !.examples[i] = v] : i \in DOMAIN f.examples, v \in Videos}
               without(i) == [f EXCEPT !.examples = SubSeq(@, 1, i - 1) \o SubSeq(@, i + 1, Len(@))]
               shorter == {without(i) : i \in {j \in DOMAIN f.examples : Len(f.examples) > MIN_EXAMPLES}}
               more == [f EXCEPT !.examples = Append(@, "empty")]
               longer == {more : x \in {y \in {1} : Len(f.examples) < MAX_EXAMPLES}}
    <3>40. F!typedExamples(f) = changed \cup shorter \cup longer
      BY DEF F!typedExamples
    <3>4. g \in changed \cup shorter \cup longer
      <4> HIDE DEF changed, shorter, longer
      <4> QED BY <1>4, <3>40
    <3>5. CASE g \in changed
      <4>1. \E i \in DOMAIN e, v \in Videos : g = [f EXCEPT !.examples[i] = v]  BY <3>5
      <4> QED BY <3>1, <4>1
    <3>6. CASE g \in shorter
      <4> HIDE DEF without
      <4>1. \E i \in DOMAIN e : g = without(i)  BY <3>6
      <4> QED BY <3>2, <4>1 DEF without
    <3>7. CASE g \in longer
      <4> HIDE DEF more
      <4>1. g = more  BY <3>7
      <4> QED BY <3>3, <4>1 DEF more
    <3> HIDE DEF changed, shorter, longer
    <3> QED BY <3>4, <3>5, <3>6, <3>7
  <2> QED BY <2>1, OverWritten DEF FieldNames
<1> QED BY <1>1, <1>2, <1>3, <1>4

LEMMA GoodForm == ASSUME NEW f, IsForm(f) PROVE IsForm(F!Good(f))
<1> DEFINE e == f.examples
           s == [i \in DOMAIN e |-> F!Or(e[i], "empty", IF i = 1 THEN "post1" ELSE "post2")]
<1>0. DOMAIN f = FieldNames /\ e \in Seq(Entries) /\ f.bio \in BOOLEAN  BY DEF IsForm
<1>1. Len(e) \in Nat /\ DOMAIN e = 1 .. Len(e) /\ \A i \in DOMAIN e : e[i] \in Entries
  BY <1>0
<1>2. \A i \in DOMAIN e : F!Or(e[i], "empty", IF i = 1 THEN "post1" ELSE "post2") \in Entries
  BY <1>1 DEF F!Or, Entries
<1>3. s \in [1 .. Len(e) -> Entries]  BY <1>1, <1>2
<1>4. s \in Seq(Entries)  BY <1>1, <1>3
<1>5. /\ DOMAIN F!Good(f) = FieldNames /\ F!Good(f).examples = s /\ F!Good(f).bio = f.bio
  BY <1>0 DEF F!Good, FieldNames
<1> QED BY <1>0, <1>4, <1>5 DEF IsForm

LEMMA BlankForm ==
    ASSUME NEW c, NEW id
    PROVE  /\ IsForm(F!blank(c, id))
           /\ id # F!NoOrder => F!blank(c, id).deadline = "keep"
<1>1. MIN_EXAMPLES \in Nat  BY AdvertiserAssumption DEF F!OrderFormAssumption
<1>2. "empty" \in Entries /\ <<>> \in Seq(Entries)  BY DEF Entries
<1>3. F!Pad(<<>>) \in Seq(Entries)  BY <1>1, <1>2, PadIs
<1> QED BY <1>3 DEF F!blank, F!blankWeb, F!blankMini, IsForm, FieldNames

\* The terms of a row in the fields, the deadline apart.
LEMMA FillIs ==
    ASSUME NEW c, NEW g, IsForm(g), NEW o, IsTerms(orders[o].terms)
    PROVE  LET t == orders[o].terms
               f == F!fill(c, g, o)
           IN /\ IsForm(f)
              /\ f.text = t.text /\ f.examples = F!Pad(t.examples) /\ f.target = t.target
              /\ f.bio = t.bio /\ f.budget = t.budget /\ f.minViews = t.minViews
              /\ f.minSec = t.minSec /\ f.maxSec = t.maxSec
              /\ f.platforms = t.platforms /\ f.category = t.category
              /\ f.deadline = g.deadline
<1> DEFINE t == orders[o].terms
           f == F!fill(c, g, o)
<1>1. MIN_EXAMPLES \in Nat  BY AdvertiserAssumption DEF F!OrderFormAssumption
<1>2. "empty" \in Entries /\ t.examples \in Seq(Entries) /\ t.bio \in BOOLEAN
  BY DEF Entries, IsTerms
<1>3. F!Pad(t.examples) \in Seq(Entries)  BY <1>1, <1>2, PadIs
<1>4. /\ DOMAIN f = FieldNames
      /\ f.text = t.text /\ f.examples = F!Pad(t.examples) /\ f.target = t.target
      /\ f.bio = t.bio /\ f.budget = t.budget /\ f.minViews = t.minViews
      /\ f.minSec = t.minSec /\ f.maxSec = t.maxSec
      /\ f.platforms = t.platforms /\ f.category = t.category
      /\ f.deadline = g.deadline
  <2>1. CASE c = "web"  BY <2>1 DEF F!fill, F!fillWeb, FieldNames
  <2>2. CASE c # "web"  BY <2>2 DEF F!fill, F!fillMini, IsForm, FieldNames
  <2> QED BY <2>1, <2>2
<1> HIDE DEF f
<1>5. IsForm(f)  BY <1>2, <1>3, <1>4 DEF IsForm
<1> QED BY <1>4, <1>5 DEF f

\* What is sent of a form.
LEMMA InputIs ==
    ASSUME NEW c, NEW f, IsForm(f)
    PROVE  LET b == F!input(c, f)
           IN /\ IsForm(b)
              /\ b.text = f.text /\ b.examples = F!Filled(f.examples) /\ b.target = f.target
              /\ b.bio <=> (f.bio /\ f.target # "empty")
              /\ b.budget = f.budget /\ b.minViews = f.minViews
              /\ b.minSec = f.minSec /\ b.maxSec = f.maxSec
              /\ b.platforms = f.platforms /\ b.category = f.category
              /\ b.deadline = f.deadline
<1> DEFINE b == F!input(c, f)
<1>1. f.examples \in Seq(Entries)  BY DEF IsForm
<1>2. F!Filled(f.examples) \in Seq(Entries)  BY <1>1, FilledIs
<1>3. /\ DOMAIN b = FieldNames
      /\ b.text = f.text /\ b.examples = F!Filled(f.examples) /\ b.target = f.target
      /\ b.bio = (f.bio /\ f.target # "empty")
      /\ b.budget = f.budget /\ b.minViews = f.minViews
      /\ b.minSec = f.minSec /\ b.maxSec = f.maxSec
      /\ b.platforms = f.platforms /\ b.category = f.category
      /\ b.deadline = f.deadline
  BY DEF F!input, F!inputWeb, F!inputMini, F!hasTarget, IsForm, FieldNames
<1> HIDE DEF b
<1>4. b.bio \in BOOLEAN  BY <1>3
<1>5. IsForm(b)  BY <1>2, <1>3, <1>4 DEF IsForm
<1> QED BY <1>3, <1>5 DEF b

\* A form that was sent and not refused makes terms that say what it said.
LEMMA Stored ==
    ASSUME NEW c, NEW f, IsForm(f), F!parseOrderInput(F!input(c, f)) = {}
    PROVE  LET t == F!terms(F!input(c, f)) IN IsTerms(t) /\ Accepted(t) /\ Says(t, f)
<1> DEFINE b == F!input(c, f)
           t == F!terms(b)
<1>1. /\ IsForm(b)
      /\ b.text = f.text /\ b.examples = F!Filled(f.examples) /\ b.target = f.target
      /\ b.bio <=> (f.bio /\ f.target # "empty")
      /\ b.budget = f.budget /\ b.minViews = f.minViews
      /\ b.minSec = f.minSec /\ b.maxSec = f.maxSec
      /\ b.platforms = f.platforms /\ b.category = f.category
  BY InputIs
<1>2. F!parseOrderInput(b) = {}  OBVIOUS
<1> HIDE DEF b
<1>3. /\ t.text = F!text(b.text) /\ t.examples = b.examples /\ t.target = b.target
      /\ t.bio = b.bio /\ t.budget = b.budget /\ t.minViews = b.minViews
      /\ t.minSec = b.minSec /\ t.maxSec = b.maxSec
      /\ t.platforms = b.platforms /\ t.category = b.category
  BY DEF F!terms
<1>4. IsTerms(t)  BY <1>1 DEF F!terms, IsTerms, IsForm
<1>5. F!text(t.text) = t.text  BY <1>3, TextOnce
<1>6. F!parseOrderInput(t) = F!parseOrderInput(b)
  <2> HIDE DEF t
  <2>1. F!text(t.text) = F!text(b.text)  BY <1>3, <1>5
  <2> QED BY <1>3, <2>1, SameParse
<1>7. {t.examples[i] : i \in DOMAIN t.examples}
        = {f.examples[i] : i \in DOMAIN f.examples} \ {"empty"}
  <2>1. f.examples \in Seq(Entries)  BY DEF IsForm
  <2>2. t.examples = F!Filled(f.examples)  BY <1>1, <1>3
  <2>3. LET s == F!Filled(f.examples) IN
        {s[i] : i \in DOMAIN s} = {f.examples[i] : i \in DOMAIN f.examples} \ {"empty"}
    BY <2>1, FilledIs
  <2> QED BY <2>2, <2>3
<1> HIDE DEF t
<1>8. Says(t, f)  BY <1>1, <1>3, <1>7 DEF Says
<1>9. Accepted(t)  BY <1>2, <1>5, <1>6 DEF Accepted
<1> QED BY <1>4, <1>8, <1>9 DEF b, t

\* A row that can be stored again: in the fields of either app and sent, it is
\* let through, taken, and nothing changes.
LEMMA SentAgain ==
    ASSUME NEW c, NEW o, o # F!NoOrder, IsTerms(orders[o].terms), Accepted(orders[o].terms)
    PROVE  LET f == F!fill(c, F!blank(c, o), o) IN
           /\ F!validate(c, f) /\ F!parseOrderEdit(F!input(c, f)) = {}
           /\ F!changesNothing(o, F!input(c, f))
<1> DEFINE t == orders[o].terms
           f == F!fill(c, F!blank(c, o), o)
           b == F!input(c, f)
<1>0. IsTerms(t) /\ F!parseOrderInput(t) = {} /\ F!text(t.text) = t.text
  BY DEF Accepted
<1>1. IsForm(F!blank(c, o)) /\ F!blank(c, o).deadline = "keep"  BY BlankForm
<1>2. /\ IsForm(f)
      /\ f.text = t.text /\ f.examples = F!Pad(t.examples) /\ f.target = t.target
      /\ f.bio = t.bio /\ f.budget = t.budget /\ f.minViews = t.minViews
      /\ f.minSec = t.minSec /\ f.maxSec = t.maxSec
      /\ f.platforms = t.platforms /\ f.category = t.category
      /\ f.deadline = "keep"
  BY <1>1, FillIs
<1> HIDE DEF f
<1>3. /\ IsForm(b)
      /\ b.text = f.text /\ b.examples = F!Filled(f.examples) /\ b.target = f.target
      /\ b.bio <=> (f.bio /\ f.target # "empty")
      /\ b.budget = f.budget /\ b.minViews = f.minViews
      /\ b.minSec = f.minSec /\ b.maxSec = f.maxSec
      /\ b.platforms = f.platforms /\ b.category = f.category
      /\ b.deadline = f.deadline
  BY <1>2, InputIs
<1> HIDE DEF b, t
<1>4. /\ Len(t.examples) \in MIN_EXAMPLES .. MAX_EXAMPLES
      /\ \A i \in DOMAIN t.examples : t.examples[i] \in F!Platform
      /\ F!isMeaningfulText(F!text(t.text))
      /\ ~(t.bio /\ t.target = "empty")
      /\ t.target = "empty" \/ F!httpUrl(t.target)
      /\ t.budget \in MIN_BUDGET .. MAX_BUDGET /\ t.minViews \in 1 .. MAX_VIEWS
      /\ t.minSec \in 1 .. MAX_DURATION /\ t.maxSec \in 1 .. MAX_DURATION
      /\ t.category # "none"
  BY <1>0, Taken
<1>5. t.examples \in Seq(Entries) /\ t.bio \in BOOLEAN  BY <1>0 DEF IsTerms
<1>6. f.examples = t.examples
  <2>1. MIN_EXAMPLES \in Nat /\ "empty" \in Entries
    BY AdvertiserAssumption DEF F!OrderFormAssumption, Entries
  <2>2. Len(t.examples) \in Nat  BY <1>5
  <2>3. Len(t.examples) >= MIN_EXAMPLES  BY <1>4, <2>1, <2>2
  <2> QED BY <1>2, <1>5, <2>1, <2>3, PadIs
<1>7. b.examples = t.examples
  <2>1. \A i \in DOMAIN t.examples : t.examples[i] # "empty"  BY <1>4 DEF F!Platform
  <2> QED BY <1>3, <1>5, <1>6, <2>1, FilledIs
<1>8. b.bio = t.bio
  <2>1. b.bio \in BOOLEAN  BY <1>3 DEF IsForm
  <2>2. b.bio <=> t.bio  BY <1>2, <1>3, <1>4
  <2> QED BY <1>5, <2>1, <2>2
<1>9. F!validate(c, f)
  <2>1. f.text # "empty"  BY <1>0, <1>2, <1>4 DEF F!isMeaningfulText
  <2>2. \A i \in DOMAIN f.examples : f.examples[i] \notin {"word", "empty"}
    BY <1>4, <1>6 DEF F!Platform
  <2>3. f.target # "word"  BY <1>2, <1>4 DEF F!httpUrl
  <2>4. \A i \in 1 .. MIN_EXAMPLES : i \in DOMAIN f.examples
    <3>1. MIN_EXAMPLES \in Nat  BY AdvertiserAssumption DEF F!OrderFormAssumption
    <3>2. Len(t.examples) \in Nat /\ DOMAIN t.examples = 1 .. Len(t.examples)  BY <1>5
    <3> QED BY <1>4, <1>6, <3>1, <3>2
  <2>5. f.minViews >= 1 /\ f.minViews # 0
    <3>1. MAX_VIEWS \in Nat  BY AdvertiserAssumption DEF F!OrderFormAssumption
    <3> QED BY <1>2, <1>4, <3>1
  <2>6. F!validateWeb(f)  BY <1>2, <1>4, <2>1, <2>2, <2>3, <2>5 DEF F!validateWeb
  <2>7. F!validateMini(f)
    <3>1. "word" \notin {f.examples[i] : i \in DOMAIN f.examples} \cup {f.target}
      BY <2>2, <2>3
    <3>2. "empty" \notin {f.examples[i] : i \in 1 .. MIN_EXAMPLES} \cup {f.text}
      BY <2>1, <2>2, <2>4
    <3> QED BY <1>2, <1>4, <2>5, <3>1, <3>2 DEF F!validateMini
  <2> QED BY <2>6, <2>7 DEF F!validate
<1>10. F!parseOrderEdit(b) = {}
  <2> DEFINE a == [b EXCEPT !.deadline = "none"]
  <2>1. /\ a.text = b.text /\ a.examples = b.examples /\ a.target = b.target /\ a.bio = b.bio
        /\ a.budget = b.budget /\ a.minViews = b.minViews /\ a.minSec = b.minSec
        /\ a.maxSec = b.maxSec /\ a.category = b.category
    BY <1>3 DEF IsForm, FieldNames
  <2> HIDE DEF a
  <2>2. F!parseOrderInput(a) = F!parseOrderInput(t)
    BY <1>2, <1>3, <1>7, <1>8, <2>1, SameParse
  <2> QED BY <1>0, <2>2 DEF F!parseOrderEdit, a
<1>11. F!changesNothing(o, b)
  <2>1. F!terms(b) = [text |-> t.text, examples |-> t.examples, target |-> t.target,
            bio |-> t.bio, budget |-> t.budget, minViews |-> t.minViews,
            minSec |-> t.minSec, maxSec |-> t.maxSec, platforms |-> t.platforms,
            category |-> t.category]
    BY <1>0, <1>2, <1>3, <1>7, <1>8 DEF F!terms
  <2>2. t = F!terms(b)  BY <1>0, <2>1 DEF IsTerms
  <2> QED BY <1>2, <1>3, <2>2 DEF F!changesNothing, t
<1> QED BY <1>9, <1>10, <1>11 DEF f, b

IsRow(r) ==
    /\ DOMAIN r = {"status", "terms", "deadline", "paid", "prev"}
    /\ IsTerms(r.terms) /\ (r.prev = F!Vacant \/ IsTerms(r.prev))

\* A row that came through the form is what the form said, and is taken again.
RowGood ==
    /\ DOMAIN orders = 1 .. MaxOrders /\ DOMAIN written = 1 .. MaxOrders
    /\ \A o \in 1 .. MaxOrders :
        /\ orders[o] = F!Vacant \/ IsRow(orders[o])
        /\ written[o] # F!Vacant =>
                /\ IsForm(written[o])
                /\ Accepted(orders[o].terms) /\ Says(orders[o].terms, written[o])

\* A form that waits for an order, or edits one, has one there is.
ScreenGood == \A c \in Client : F!Shown(c) =>
    /\ IsForm(form[c].f)
    /\ form[c].waits \/ form[c].at = "edit" =>
            form[c].from \in 1 .. MaxOrders /\ IsRow(orders[form[c].from])

\* What is on the way is what the form has sent; what is about to be written has
\* been found good.
BodyGood == \A c \in Client : Sends(c) =>
    /\ IsForm(req[c].shown) /\ req[c].b = F!input(c, req[c].shown)
    /\ req[c].at \in {"counted", "looked"} => F!parseOrderInput(req[c].b) = {}

\* With the budget that was paid, terms say what the form said that was let through.
Back(o, t) == vetted[o] # F!Vacant =>
    LET u == [t EXCEPT !.budget = orders[o].paid]
    IN  Accepted(u) /\ Says(u, vetted[o])

\* What is on show was let through; what is edited has kept what was.
KeptAt(o) ==
    /\ vetted[o] = F!Vacant \/ IsForm(vetted[o])
    /\ orders[o] = F!Vacant => vetted[o] = F!Vacant
    /\ orders[o].status \in {"open", "expired"} =>
            vetted[o] = written[o] /\ orders[o].terms.budget = orders[o].paid
    /\ orders[o].status \in F!FROZEN /\ o \notin mixed /\ vetted[o] # F!Vacant =>
            IsTerms(orders[o].prev) /\ Back(o, orders[o].prev)
KeptGood ==
    /\ DOMAIN vetted = 1 .. MaxOrders
    /\ \A o \in 1 .. MaxOrders : KeptAt(o)

\* What an edit looked at, as long as the order has not moved since.
StillSeen(c) ==
    LET o == req[c].id
        seen == req[c].seen.status
    IN /\ seen = "open" => Back(o, req[c].seen.terms)
       /\ seen \in F!FROZEN => orders[o].status \notin {"open", "expired"}
       /\ seen \notin F!FROZEN \cup {"open"} => orders[o].status \notin F!FROZEN \cup {"open"}
SeenAt(c) ==
    /\ Sends(c) /\ req[c].id # F!NoOrder =>
            req[c].id \in 1 .. MaxOrders /\ IsRow(orders[req[c].id])
    /\ req[c].at = "looked" =>
            /\ req[c].id # F!NoOrder
            /\ req[c].seen.status = "open" => IsTerms(req[c].seen.terms)
            /\ c \notin late => StillSeen(c)
SeenGood == \A c \in Client : SeenAt(c)

\* The rows are numbered as they are made.
Numbered == \E k \in 0 .. MaxOrders : \A o \in 1 .. MaxOrders : orders[o] # F!Vacant <=> o <= k

SavedInv == OwedInv /\ RowGood /\ ScreenGood /\ BodyGood /\ KeptGood /\ SeenGood /\ Numbered

\* A form an order came through, and the row it made.
LEMMA OldFormIs ==
    ASSUME NEW f \in F!OldForms
    PROVE  LET new == F!RowOf(f) IN
           /\ IsForm(f) /\ IsRow(new) /\ new.prev = F!Vacant
           /\ new.status = "open" /\ new.terms.budget = new.paid
           /\ Accepted(new.terms) /\ Says(new.terms, f)
<1> DEFINE g == F!Good(F!blankWeb(F!NoOrder))
           h == [g EXCEPT !.target = "site", !.bio = TRUE, !.deadline = "days"]
           t == F!terms(F!inputWeb(f))
<1>1. IsForm(F!blankWeb(F!NoOrder))
  <2>1. F!blank("web", F!NoOrder) = F!blankWeb(F!NoOrder)  BY DEF F!blank
  <2> QED BY <2>1, BlankForm
<1>2. IsForm(g)  BY <1>1, GoodForm
<1>3. f = h /\ F!parseNew(F!inputWeb(f)) = {}  BY DEF F!OldForms
<1> HIDE DEF g
<1>4. IsForm(f)  BY <1>2, <1>3 DEF IsForm, FieldNames
<1>5. F!inputWeb(f) = F!input("web", f)  BY DEF F!input
<1>6. F!parseOrderInput(F!inputWeb(f)) = {}  BY <1>3 DEF F!parseNew
<1>7. IsTerms(t) /\ Accepted(t) /\ Says(t, f)
  <2>1. F!parseOrderInput(F!input("web", f)) = {}  BY <1>5, <1>6
  <2>2. LET s == F!terms(F!input("web", f)) IN IsTerms(s) /\ Accepted(s) /\ Says(s, f)
    BY <1>4, <2>1, Stored
  <2> QED BY <1>5, <2>2
<1>8. t.budget = f.budget
  <2> HIDE DEF t
  <2> QED BY <1>7 DEF Says
<1> HIDE DEF t
<1>9. F!RowOf(f) = [status |-> "open", terms |-> t, deadline |-> "set", paid |-> f.budget,
                    prev |-> F!Vacant]
  BY DEF F!RowOf, t
<1> QED BY <1>4, <1>7, <1>8, <1>9 DEF IsRow

LEMMA SavedInit == F!Init => SavedInv
<1> SUFFICES ASSUME F!Init PROVE SavedInv  OBVIOUS
<1>1. PICK new, f :
        /\ F!First(new, f)
        /\ \/ new \in F!OldRows /\ f = F!Vacant
           \/ f \in F!OldForms /\ new = F!RowOf(f)
  BY DEF F!Init
<1>2. IsTerms(F!OldTerms)
  <2>1. <<>> \in Seq(Entries)  OBVIOUS
  <2> QED BY <2>1 DEF F!OldTerms, IsTerms
<1>3. /\ IsRow(new) /\ new.prev = F!Vacant
      /\ new.status \in {"open", "expired"} /\ new.terms.budget = new.paid
      /\ f # F!Vacant => IsForm(f) /\ Accepted(new.terms) /\ Says(new.terms, f)
  <2>1. CASE new \in F!OldRows /\ f = F!Vacant
    <3>1. /\ DOMAIN new = {"status", "terms", "deadline", "paid", "prev"}
          /\ new.terms = F!OldTerms /\ new.prev = F!Vacant /\ new.status = "expired"
          /\ new.paid = MIN_BUDGET
      BY <2>1 DEF F!OldRows
    <3>2. F!OldTerms.budget = MIN_BUDGET  BY DEF F!OldTerms
    <3> QED BY <1>2, <2>1, <3>1, <3>2 DEF IsRow
  <2>2. CASE f \in F!OldForms /\ new = F!RowOf(f)  BY <2>2, OldFormIs
  <2> QED BY <1>1, <2>1, <2>2
<1>4. /\ form = [c \in Client |-> F!Closed] /\ req = [c \in Client |-> F!Idle]
      /\ orders = [o \in 1 .. MaxOrders |-> IF o = 1 THEN new ELSE F!Vacant]
      /\ written = [o \in 1 .. MaxOrders |-> IF o = 1 THEN f ELSE F!Vacant]
      /\ vetted = written
  BY <1>1 DEF F!Init, F!First
<1>5. RowGood  BY <1>3, <1>4 DEF RowGood
<1>6. ScreenGood /\ BodyGood
  BY <1>4 DEF ScreenGood, BodyGood, F!Shown, F!Closed, Sends
<1>7. SeenGood  BY <1>4 DEF SeenGood, SeenAt, Sends, F!Idle
<1>8. KeptGood
  <2>1. ASSUME NEW o \in 1 .. MaxOrders PROVE KeptAt(o)
    <3>1. vetted[o] = written[o]  BY <1>4
    <3>2. CASE o = 1
      <4>1. orders[o] = new /\ written[o] = f  BY <1>4, <3>2
      <4>2. new # F!Vacant  BY <1>3 DEF IsRow, F!Vacant
      <4> QED BY <1>3, <3>1, <4>1, <4>2 DEF KeptAt, F!FROZEN
    <3>3. CASE o # 1
      <4>1. orders[o] = F!Vacant /\ written[o] = F!Vacant  BY <1>4, <3>3
      <4> QED BY <3>1, <4>1 DEF KeptAt, F!FROZEN, F!Vacant
    <3> QED BY <3>2, <3>3
  <2> QED BY <1>4, <2>1 DEF KeptGood
<1>9. Numbered
  <2>1. MaxOrders \in Nat  BY AdvertiserAssumption DEF F!OrderFormAssumption
  <2>2. new # F!Vacant  BY <1>3 DEF IsRow, F!Vacant
  <2>3. CASE MaxOrders = 0  BY <2>3 DEF Numbered
  <2>4. CASE MaxOrders # 0
    <3>1. 1 \in 0 .. MaxOrders  BY <2>1, <2>4
    <3>2. \A o \in 1 .. MaxOrders : orders[o] # F!Vacant <=> o <= 1
      BY <1>4, <2>1, <2>2
    <3> QED BY <3>1, <3>2 DEF Numbered
  <2> QED BY <2>3, <2>4
<1> QED BY <1>5, <1>6, <1>7, <1>8, <1>9, OwedInit DEF SavedInv

LEMMA VacantIsNoRow == ~IsRow(F!Vacant)
BY DEF IsRow, F!Vacant

LEMMA VacantIsNoTerms == ~IsTerms(F!Vacant)
<1>1. ASSUME IsTerms(F!Vacant) PROVE FALSE
  <2> DEFINE v == F!Vacant
  <2>1. DOMAIN v = {"status"}  BY DEF F!Vacant
  <2>2. "text" \in DOMAIN v
    <3> HIDE DEF v
    <3>1. IsTerms(v)  BY <1>1 DEF v
    <3> QED BY <3>1 DEF IsTerms
  <2> QED BY <2>1, <2>2
<1> QED BY <1>1

LEMMA VacantIsNoForm == ~IsForm(F!Vacant)
BY DEF IsForm, F!Vacant, FieldNames

\* Nothing that is kept has changed.
LEMMA NothingMoved ==
    ASSUME KeptGood, SeenGood, Numbered,
           UNCHANGED <<orders, written, vetted, late, mixed, req>>
    PROVE  KeptGood' /\ SeenGood' /\ Numbered'
BY DEF KeptGood, KeptAt, SeenGood, SeenAt, StillSeen, Back, Numbered, Sends

\* What the apps do by themselves changes no row.
LEMMA FormsStep ==
    ASSUME SavedInv, NEW c \in Client, req' = req,
           \/ \E at \in {"new", "edit"}, from \in F!Rows \cup {F!NoOrder} :
                (at = "edit" => from # F!NoOrder) /\ F!Opens(c, at, from)
           \/ F!Listed(c) \/ F!NotListed(c) \/ F!Type(c) \/ F!FillIn(c)
           \/ F!Preview(c) \/ F!Back(c) \/ F!Leave(c)
    PROVE  RowGood' /\ ScreenGood' /\ BodyGood' /\ KeptGood' /\ SeenGood' /\ Numbered'
<1>0. RowGood /\ ScreenGood /\ BodyGood /\ NumberType  BY DEF SavedInv, OwedInv
<1>1. /\ orders' = orders /\ written' = written /\ vetted' = vetted
      /\ late' = late /\ mixed' = mixed
      /\ \A d \in Client : d # c => form'[d] = form[d]
  BY <1>0 DEF NumberType, F!Opens, F!Listed, F!NotListed, F!Type, F!FillIn, F!Preview, F!Back,
     F!Leave, F!history, F!forms, F!bounds
<1>2. RowGood'  BY <1>0, <1>1 DEF RowGood
<1>3. BodyGood'  BY <1>0 DEF BodyGood, Sends
<1>4. F!Shown(c) => DOMAIN form[c] = FormFields
  BY <1>0 DEF NumberType, F!Shown, F!Closed
<1>5. F!Shown(c)' =>
        /\ IsForm(form'[c].f)
        /\ form'[c].waits \/ form'[c].at = "edit" =>
                form'[c].from \in 1 .. MaxOrders /\ IsRow(orders[form'[c].from])
  <2>1. ASSUME NEW at \in {"new", "edit"}, NEW from \in F!Rows \cup {F!NoOrder},
               at = "edit" => from # F!NoOrder, F!Opens(c, at, from)
        PROVE  /\ IsForm(form'[c].f)
               /\ form'[c].waits \/ form'[c].at = "edit" =>
                    form'[c].from \in 1 .. MaxOrders /\ IsRow(orders[form'[c].from])
    <3>1. PICK id : form'[c].f = F!blank(c, id)  BY <1>0, <2>1 DEF F!Opens, NumberType
    <3>2. form'[c].from = from /\ form'[c].waits = (from # F!NoOrder) /\ form'[c].at = at
      BY <1>0, <2>1 DEF F!Opens, NumberType
    <3>3. from # F!NoOrder => from \in 1 .. MaxOrders /\ IsRow(orders[from])
      BY <1>0 DEF F!Rows, RowGood
    <3> QED BY <2>1, <3>1, <3>2, <3>3, BlankForm
  <2>2. CASE F!Listed(c)
    <3>1. /\ F!Shown(c) /\ form[c].waits
          /\ form' = [form EXCEPT ![c].waits = FALSE,
                                  ![c].f = F!fill(c, form[c].f, form[c].from)]
      BY <2>2 DEF F!Listed
    <3>2. /\ form'[c].waits = FALSE /\ form'[c].f = F!fill(c, form[c].f, form[c].from)
          /\ form'[c].at = form[c].at /\ form'[c].from = form[c].from
      BY <1>0, <1>4, <3>1 DEF NumberType, FormFields
    <3>3. IsForm(form[c].f) /\ IsTerms(orders[form[c].from].terms)
      BY <1>0, <3>1 DEF ScreenGood, IsRow
    <3> QED BY <1>0, <3>1, <3>2, <3>3, FillIs DEF ScreenGood
  <2>3. CASE F!Type(c)
    <3>1. PICK f \in F!Typed(form[c].f, F!editId(c)) : form' = [form EXCEPT ![c].f = f]
      BY <2>3 DEF F!Type
    <3>2. F!Shown(c)  BY <2>3 DEF F!Type
    <3>3. /\ form'[c].f = f /\ form'[c].waits = form[c].waits /\ form'[c].from = form[c].from
          /\ form'[c].at = form[c].at
      BY <1>0, <1>4, <3>1, <3>2 DEF NumberType, FormFields
    <3>4. IsForm(f)  BY <1>0, <3>2, TypedForm DEF ScreenGood
    <3> QED BY <1>0, <3>2, <3>3, <3>4 DEF ScreenGood
  <2>4. CASE F!FillIn(c)
    <3>1. F!Shown(c) /\ form' = [form EXCEPT ![c].f = F!Good(form[c].f)]  BY <2>4 DEF F!FillIn
    <3>2. /\ form'[c].f = F!Good(form[c].f) /\ form'[c].waits = form[c].waits
          /\ form'[c].from = form[c].from /\ form'[c].at = form[c].at
      BY <1>0, <1>4, <3>1 DEF NumberType, FormFields
    <3> QED BY <1>0, <3>1, <3>2, GoodForm DEF ScreenGood
  <2>5. CASE F!NotListed(c) \/ F!Preview(c) \/ F!Back(c)
    <3>1. /\ F!Shown(c) /\ form'[c].f = form[c].f /\ form'[c].from = form[c].from
          /\ form'[c].waits => form[c].waits
          /\ form'[c].at = form[c].at
      BY <1>0, <1>4, <2>5 DEF F!NotListed, F!Preview, F!Back, NumberType, FormFields, F!Shown
    <3> QED BY <1>0, <3>1 DEF ScreenGood
  <2>6. CASE F!Leave(c)
    <3>1. form'[c] = F!Closed  BY <1>0, <2>6 DEF F!Leave, NumberType
    <3> QED BY <3>1 DEF F!Shown, F!Closed
  <2> QED BY <2>1, <2>2, <2>3, <2>4, <2>5, <2>6
<1>6. ScreenGood'
  BY <1>0, <1>1, <1>5 DEF ScreenGood, F!Shown
<1>7. KeptGood' /\ SeenGood' /\ Numbered'  BY <1>1, NothingMoved DEF SavedInv
<1> QED BY <1>2, <1>3, <1>6, <1>7

LEMMA SameBudget ==
    ASSUME NEW t, IsTerms(t) PROVE [t EXCEPT !.budget = t.budget] = t
BY DEF IsTerms

LEMMA NewBudget ==
    ASSUME NEW t, IsTerms(t), NEW n PROVE IsTerms([t EXCEPT !.budget = n])
BY DEF IsTerms

\* A request on its way: the rows stay, and what has been sent stays what it was.
LEMMA RequestStep ==
    ASSUME SavedInv, NEW c \in Client,
           F!Submit(c) \/ F!Count(c) \/ F!Look(c) \/ F!Answer(c) \/ F!Lost(c)
    PROVE  RowGood' /\ ScreenGood' /\ BodyGood' /\ KeptGood' /\ SeenGood' /\ Numbered'
<1>0. RowGood /\ ScreenGood /\ BodyGood /\ NumberType  BY DEF SavedInv, OwedInv
<1>1. /\ orders' = orders /\ written' = written /\ vetted' = vetted /\ mixed' = mixed
      /\ \A d \in Client : d # c => req'[d] = req[d] /\ form'[d] = form[d]
      /\ \A d \in Client : d # c /\ d \notin late' => d \notin late
  <2>1. /\ orders' = orders /\ written' = written /\ vetted' = vetted /\ mixed' = mixed
        /\ late' = late \/ late' = late \ {c}
    BY DEF F!Submit, F!Count, F!Look, F!Answer, F!Lost, F!history, F!forms, F!bounds
  <2>2. \A d \in Client : d # c => req'[d] = req[d]
    BY <1>0 DEF NumberType, F!Submit, F!Count, F!Look, F!Answer, F!Lost, F!Refuse, F!Accept
  <2>3. \A d \in Client : d # c => form'[d] = form[d]
    BY <1>0 DEF NumberType, F!Submit, F!Count, F!Look, F!Answer, F!Lost
  <2> QED BY <2>1, <2>2, <2>3
<1>2. RowGood'  BY <1>0, <1>1 DEF RowGood
<1>3. F!Shown(c)' =>
        /\ F!Shown(c) /\ form'[c].f = form[c].f /\ form'[c].from = form[c].from
        /\ form'[c].waits = form[c].waits /\ form'[c].at = form[c].at
  <2>1. \/ form' = form
        \/ form' = [form EXCEPT ![c] = F!Closed]
        \/ F!Shown(c) /\ \E e : form' = [form EXCEPT ![c].error = e]
    BY DEF F!Submit, F!Count, F!Look, F!Answer, F!Lost, F!Own
  <2>2. F!Shown(c) => DOMAIN form[c] = FormFields  BY <1>0 DEF NumberType, F!Shown, F!Closed
  <2>3. CASE form' = form  BY <2>3 DEF F!Shown
  <2>4. CASE form' = [form EXCEPT ![c] = F!Closed]
    BY <1>0, <2>4 DEF NumberType, F!Shown, F!Closed
  <2>5. CASE F!Shown(c) /\ \E e : form' = [form EXCEPT ![c].error = e]
    <3>1. PICK e : form' = [form EXCEPT ![c].error = e]  BY <2>5
    <3> QED BY <1>0, <2>2, <2>5, <3>1 DEF NumberType, FormFields
  <2> QED BY <2>1, <2>3, <2>4, <2>5
<1>4. ScreenGood'  BY <1>0, <1>1, <1>3 DEF ScreenGood, F!Shown
<1>5. Sends(c)' =>
        /\ IsForm(req'[c].shown) /\ req'[c].b = F!input(c, req'[c].shown)
        /\ req'[c].at \in {"counted", "looked"} => F!parseOrderInput(req'[c].b) = {}
  <2>1. CASE F!Submit(c)
    <3>1. /\ F!Shown(c)
          /\ req'[c].shown = form[c].f /\ req'[c].b = F!input(c, form[c].f)
          /\ req'[c].at = "sent"
      BY <1>0, <2>1 DEF F!Submit, NumberType
    <3> QED BY <1>0, <3>1 DEF ScreenGood
  <2>2. CASE F!Answer(c) \/ F!Lost(c)
    <3>1. req'[c] = F!Idle  BY <1>0, <2>2 DEF F!Answer, F!Lost, NumberType
    <3> QED BY <3>1 DEF Sends
  <2>3. CASE F!Count(c) \/ F!Look(c)
    <3>0. req[c].at = "sent"  BY <2>3 DEF F!Count, F!Look
    <3>1. DOMAIN req[c] = ReqFields /\ Sends(c)
      BY <1>0, <3>0 DEF NumberType, F!Idle, Sends
    <3> DEFINE b == req[c].b
    <3>2. \/ \E why : F!Refuse(c, why)
          \/ req' = [req EXCEPT ![c].at = "counted"] /\ F!parseNew(b) = {}
          \/ /\ req' = [req EXCEPT ![c].at = "looked", ![c].seen = orders[req[c].id]]
             /\ F!parseOrderEdit(b) = {}
      <4> HIDE DEF b
      <4>1. CASE F!Count(c)
        <5> DEFINE why == IF F!parseNew(b) # {} THEN F!parseNew(b)
                          ELSE F!Wrong([tooManyActive |->
                                    F!Cardinality(F!active) >= MAX_ACTIVE_ORDERS])
        <5>1. IF why # {} THEN F!Refuse(c, why) ELSE req' = [req EXCEPT ![c].at = "counted"]
          BY <4>1 DEF F!Count, b
        <5>2. F!parseNew(b) # {} => why # {}  OBVIOUS
        <5> HIDE DEF why
        <5> QED BY <5>1, <5>2
      <4>2. CASE F!Look(c)  BY <4>2 DEF F!Look, F!Accept, b
      <4> QED BY <2>3, <4>1, <4>2
    <3>3. /\ req'[c].shown = req[c].shown /\ req'[c].b = b
          /\ \/ req'[c].at = "answered"
             \/ req'[c].at = "counted" /\ F!parseNew(b) = {}
             \/ req'[c].at = "looked" /\ F!parseOrderEdit(b) = {}
      <4> HIDE DEF b
      <4>1. \A why : F!Refuse(c, why) =>
                req'[c].shown = req[c].shown /\ req'[c].b = req[c].b /\ req'[c].at = "answered"
        BY <1>0, <3>1 DEF NumberType, ReqFields, F!Refuse
      <4>2. req' = [req EXCEPT ![c].at = "counted"] =>
                req'[c].shown = req[c].shown /\ req'[c].b = req[c].b /\ req'[c].at = "counted"
        BY <1>0, <3>1 DEF NumberType, ReqFields
      <4>3. req' = [req EXCEPT ![c].at = "looked", ![c].seen = orders[req[c].id]] =>
                req'[c].shown = req[c].shown /\ req'[c].b = req[c].b /\ req'[c].at = "looked"
        BY <1>0, <3>1 DEF NumberType, ReqFields
      <4> QED BY <3>2, <4>1, <4>2, <4>3 DEF b
    <3>4. IsForm(req[c].shown) /\ b = F!input(c, req[c].shown)  BY <1>0, <3>1 DEF BodyGood
    <3>5. IsForm(b)  BY <3>4, InputIs
    <3> HIDE DEF b
    <3>6. F!parseNew(b) = {} => F!parseOrderInput(b) = {}  BY DEF F!parseNew
    <3>7. F!parseOrderEdit(b) = F!parseOrderInput(b)
      <4> DEFINE a == [b EXCEPT !.deadline = "none"]
      <4>1. /\ a.text = b.text /\ a.examples = b.examples /\ a.target = b.target
            /\ a.bio = b.bio /\ a.budget = b.budget /\ a.minViews = b.minViews
            /\ a.minSec = b.minSec /\ a.maxSec = b.maxSec /\ a.category = b.category
        BY <3>5 DEF IsForm, FieldNames
      <4> HIDE DEF a
      <4>2. F!parseOrderInput(a) = F!parseOrderInput(b)  BY <4>1, SameParse
      <4> QED BY <4>2 DEF F!parseOrderEdit, a
    <3> QED BY <3>3, <3>4, <3>6, <3>7
  <2> QED BY <2>1, <2>2, <2>3
<1>6. BodyGood'  BY <1>0, <1>1, <1>5 DEF BodyGood, Sends
<1>7. KeptGood' /\ Numbered'
  BY <1>1 DEF SavedInv, KeptGood, KeptAt, Back, Numbered
<1>8. SeenAt(c)'
  <2>1. CASE F!Submit(c)
    <3>1. /\ F!Shown(c) /\ req'[c].id = F!editId(c) /\ req'[c].at = "sent"
      BY <1>0, <2>1 DEF F!Submit, NumberType
    <3>2. F!editId(c) # F!NoOrder => form[c].at = "edit" /\ F!editId(c) = form[c].from
      BY DEF F!editId
    <3> QED BY <1>0, <1>1, <3>1, <3>2 DEF SeenAt, ScreenGood
  <2>2. CASE F!Answer(c) \/ F!Lost(c)
    <3>1. req'[c] = F!Idle  BY <1>0, <2>2 DEF F!Answer, F!Lost, NumberType
    <3> QED BY <3>1 DEF SeenAt, Sends, F!Idle
  <2>3. CASE F!Count(c) \/ F!Look(c)
    <3> DEFINE o == req[c].id
    <3>0. req[c].at = "sent"  BY <2>3 DEF F!Count, F!Look
    <3>1. DOMAIN req[c] = ReqFields /\ Sends(c)
      BY <1>0, <3>0 DEF NumberType, F!Idle, Sends
    <3>2. o # F!NoOrder => o \in 1 .. MaxOrders /\ IsRow(orders[o])
      BY <3>1 DEF SavedInv, SeenGood, SeenAt
    <3>3. \/ \E why : F!Refuse(c, why)
          \/ req' = [req EXCEPT ![c].at = "counted"]
          \/ /\ req' = [req EXCEPT ![c].at = "looked", ![c].seen = orders[o]]
             /\ o # F!NoOrder
      BY <2>3 DEF F!Count, F!Look, F!Accept
    <3>4. CASE req' = [req EXCEPT ![c].at = "looked", ![c].seen = orders[o]] /\ o # F!NoOrder
      <4>1. req'[c].id = o /\ req'[c].at = "looked" /\ req'[c].seen = orders[o]
        BY <1>0, <3>1, <3>4 DEF NumberType, ReqFields
      <4> HIDE DEF o
      <4>2. KeptAt(o)  BY <3>2, <3>4 DEF SavedInv, KeptGood
      <4>3. IsTerms(orders[o].terms)  BY <3>2, <3>4 DEF IsRow
      <4>4. orders[o].status = "open" => Back(o, orders[o].terms)
        <5> SUFFICES ASSUME orders[o].status = "open", vetted[o] # F!Vacant
                     PROVE  LET u == [orders[o].terms EXCEPT !.budget = orders[o].paid]
                            IN  Accepted(u) /\ Says(u, vetted[o])
          BY DEF Back
        <5>1. vetted[o] = written[o] /\ orders[o].terms.budget = orders[o].paid
          BY <4>2 DEF KeptAt
        <5>2. [orders[o].terms EXCEPT !.budget = orders[o].paid] = orders[o].terms
          BY <4>3, <5>1, SameBudget
        <5>3. Accepted(orders[o].terms) /\ Says(orders[o].terms, written[o])
          BY <1>0, <3>2, <3>4, <5>1 DEF RowGood
        <5> QED BY <5>1, <5>2, <5>3
      <4>5. StillSeen(c)'
        BY <1>1, <4>1, <4>4 DEF StillSeen, Back, F!FROZEN
      <4> QED BY <1>1, <3>2, <3>4, <4>1, <4>3, <4>5 DEF SeenAt
    <3>5. CASE (\E why : F!Refuse(c, why)) \/ req' = [req EXCEPT ![c].at = "counted"]
      <4>1. req'[c].id = o /\ req'[c].at \in {"answered", "counted"}
        <5>1. ASSUME NEW why, F!Refuse(c, why)
              PROVE  req'[c].id = req[c].id /\ req'[c].at = "answered"
          BY <1>0, <3>1, <5>1 DEF NumberType, ReqFields, F!Refuse
        <5>2. ASSUME req' = [req EXCEPT ![c].at = "counted"]
              PROVE  req'[c].id = req[c].id /\ req'[c].at = "counted"
          BY <1>0, <3>1, <5>2 DEF NumberType, ReqFields
        <5> QED BY <3>5, <5>1, <5>2
      <4> HIDE DEF o
      <4> QED BY <1>1, <3>2, <4>1 DEF SeenAt
    <3> HIDE DEF o
    <3> QED BY <3>3, <3>4, <3>5
  <2> QED BY <2>1, <2>2, <2>3
<1>9. SeenGood'
  BY <1>1, <1>8 DEF SavedInv, SeenGood, SeenAt, StillSeen, Back, Sends
<1> QED BY <1>2, <1>4, <1>6, <1>7, <1>9

\* A row is written.
LEMMA WriteStep ==
    ASSUME SavedInv, NEW c \in Client, F!Create(c) \/ F!update(c)
    PROVE  RowGood' /\ ScreenGood' /\ BodyGood'
<1>0. RowGood /\ ScreenGood /\ BodyGood /\ NumberType  BY DEF SavedInv, OwedInv
<1> DEFINE b == req[c].b
           f == req[c].shown
<1>1. req[c].at \in {"counted", "looked"} /\ form' = form  BY DEF F!Create, F!update
<1>2. DOMAIN req[c] = ReqFields /\ Sends(c)  BY <1>0, <1>1 DEF NumberType, F!Idle, Sends
<1>3. IsForm(f) /\ b = F!input(c, f) /\ F!parseOrderInput(b) = {}
  BY <1>0, <1>1, <1>2 DEF BodyGood
<1>4. /\ IsTerms(F!terms(b)) /\ Accepted(F!terms(b)) /\ Says(F!terms(b), f)
  <2> HIDE DEF b, f
  <2> QED BY <1>3, Stored
<1>5. BodyGood'
  <2>1. \E why : req' = [req EXCEPT ![c].at = "answered", ![c].why = why, ![c].seen = F!Vacant]
    BY DEF F!Create, F!update, F!Refuse, F!Accept
  <2>2. /\ req'[c].shown = f /\ req'[c].b = b /\ req'[c].at = "answered"
        /\ \A d \in Client : d # c => req'[d] = req[d]
    BY <1>0, <1>2, <2>1 DEF NumberType, ReqFields
  <2> HIDE DEF b, f
  <2> QED BY <1>0, <1>3, <2>2 DEF BodyGood, Sends
<1>6. \/ UNCHANGED <<orders, written>>
      \/ \E o, status, deadline, paid, prev :
            /\ orders' = [orders EXCEPT ![o] =
                    [status |-> status, terms |-> F!terms(b), deadline |-> deadline,
                     paid |-> paid, prev |-> prev]]
            /\ prev = F!Vacant \/ IsTerms(prev)
            /\ written' = [written EXCEPT ![o] = f]
  <2>1. CASE F!Create(c)  BY <2>1 DEF F!Create
  <2>2. CASE F!update(c)
    <3> DEFINE p == req[c].id
               prev == IF req[c].seen.status = "open" THEN req[c].seen.terms ELSE orders[p].prev
    <3>1. /\ p \in 1 .. MaxOrders /\ IsRow(orders[p])
          /\ req[c].seen.status = "open" => IsTerms(req[c].seen.terms)
      BY <1>2, <2>2 DEF F!update, SavedInv, SeenGood, SeenAt
    <3>2. prev = F!Vacant \/ IsTerms(prev)  BY <3>1 DEF IsRow
    <3>3. \/ UNCHANGED <<orders, written>>
          \/ /\ \E deadline : orders' = [orders EXCEPT ![p] =
                    [status |-> "queued", terms |-> F!terms(b), deadline |-> deadline,
                     paid |-> orders[p].paid, prev |-> prev]]
             /\ written' = [written EXCEPT ![p] = f]
      BY <2>2 DEF F!update
    <3> HIDE DEF prev, p, b, f
    <3> QED BY <3>2, <3>3
  <2> QED BY <2>1, <2>2
<1>7. RowGood' /\ \A o \in 1 .. MaxOrders : IsRow(orders[o]) => IsRow(orders'[o])
  <2>1. CASE UNCHANGED <<orders, written>>  BY <1>0, <2>1 DEF RowGood
  <2>2. ASSUME NEW o, NEW status, NEW deadline, NEW paid, NEW prev,
               orders' = [orders EXCEPT ![o] =
                    [status |-> status, terms |-> F!terms(b), deadline |-> deadline,
                     paid |-> paid, prev |-> prev]],
               prev = F!Vacant \/ IsTerms(prev),
               written' = [written EXCEPT ![o] = f]
        PROVE  RowGood' /\ \A p \in 1 .. MaxOrders : IsRow(orders[p]) => IsRow(orders'[p])
    <3> DEFINE r == [status |-> status, terms |-> F!terms(b), deadline |-> deadline,
                     paid |-> paid, prev |-> prev]
    <3>1. IsRow(r) /\ r.terms = F!terms(b)  BY <1>4, <2>2 DEF IsRow
    <3>2. orders' = [orders EXCEPT ![o] = r]  BY <2>2
    <3> HIDE DEF r, b, f
    <3>3. /\ DOMAIN orders' = 1 .. MaxOrders /\ DOMAIN written' = 1 .. MaxOrders
          /\ \A p \in 1 .. MaxOrders :
                /\ p = o => orders'[p] = r /\ written'[p] = f
                /\ p # o => orders'[p] = orders[p] /\ written'[p] = written[p]
      BY <1>0, <2>2, <3>2 DEF RowGood
    <3> QED BY <1>0, <1>3, <1>4, <3>1, <3>3 DEF RowGood
  <2> HIDE DEF b, f
  <2> QED BY <1>6, <2>1, <2>2
<1>8. ScreenGood'  BY <1>0, <1>1, <1>7 DEF ScreenGood, F!Shown
<1> QED BY <1>5, <1>7, <1>8

\* An order that is made takes the next number.
LEMMA MadeKept ==
    ASSUME SavedInv, NEW c \in Client, F!Create(c)
    PROVE  KeptGood' /\ SeenGood' /\ Numbered'
<1>0. RowGood /\ KeptGood /\ SeenGood /\ NumberType  BY DEF SavedInv, OwedInv
<1>1. MaxOrders \in Nat  BY AdvertiserAssumption DEF F!OrderFormAssumption
<1>2. PICK k \in 0 .. MaxOrders : \A o \in 1 .. MaxOrders : orders[o] # F!Vacant <=> o <= k
  BY DEF SavedInv, Numbered
<1>3. F!Rows = 1 .. k  BY <1>1, <1>2 DEF F!Rows
<1>4. F!Cardinality(F!Rows) = k
  <2>1. Cardinality(1 .. k) = IF 1 > k THEN 0 ELSE k - 1 + 1  BY <1>1, FS_Interval
  <2>2. F!Cardinality(F!Rows) = Cardinality(1 .. k)  BY <1>3 DEF F!Cardinality, Cardinality
  <2> QED BY <1>1, <2>1, <2>2
<1> DEFINE o == k + 1
           r == [status |-> "queued", terms |-> F!terms(req[c].b),
                 deadline |-> IF req[c].b.deadline = "days" THEN "set" ELSE "none",
                 paid |-> 0, prev |-> F!Vacant]
<1>5. o \in 1 .. MaxOrders /\ orders[o] = F!Vacant /\ k + 1 \in 0 .. MaxOrders
  <2>1. k < MaxOrders  BY <1>4 DEF F!Create
  <2>2. o \in 1 .. MaxOrders /\ ~(o <= k)  BY <1>1, <2>1
  <2> QED BY <1>1, <1>2, <2>1, <2>2
<1>6. /\ orders' = [orders EXCEPT ![o] = r]
      /\ \E x : written' = [written EXCEPT ![o] = x]
      /\ vetted' = vetted /\ late' = late /\ mixed' = mixed
      /\ req[c].at = "counted"
      /\ req' = [req EXCEPT ![c].at = "answered", ![c].why = {}, ![c].seen = F!Vacant]
  BY <1>4 DEF F!Create, F!Accept, F!Refuse
<1>7. r.status = "queued" /\ r # F!Vacant
  <2>1. r.status = "queued"  OBVIOUS
  <2> HIDE DEF r
  <2> QED BY <2>1 DEF F!Vacant
<1> HIDE DEF o, r
<1>8. /\ orders'[o] = r
      /\ \A p \in 1 .. MaxOrders : p # o => orders'[p] = orders[p] /\ written'[p] = written[p]
  BY <1>0, <1>5, <1>6 DEF RowGood
<1>9. DOMAIN req[c] = ReqFields /\ Sends(c)
  BY <1>0, <1>6 DEF NumberType, F!Idle, Sends
<1>10. /\ req'[c].at = "answered" /\ req'[c].id = req[c].id
       /\ \A d \in Client : d # c => req'[d] = req[d]
  BY <1>0, <1>6, <1>9 DEF NumberType, ReqFields
<1>11. KeptGood'
  <2>1. vetted[o] = F!Vacant  BY <1>0, <1>5 DEF KeptGood, KeptAt
  <2>2. KeptAt(o)'  BY <1>6, <1>7, <1>8, <2>1 DEF KeptAt, Back
  <2>3. \A p \in 1 .. MaxOrders : p # o => KeptAt(p)'
    BY <1>0, <1>6, <1>8 DEF KeptGood, KeptAt, Back
  <2> QED BY <1>0, <1>6, <2>2, <2>3 DEF KeptGood
<1>12. \A d \in Client : Sends(d) /\ req[d].id # F!NoOrder =>
            /\ req[d].id \in 1 .. MaxOrders /\ IsRow(orders[req[d].id])
            /\ orders'[req[d].id] = orders[req[d].id]
  BY <1>0, <1>5, <1>8, VacantIsNoRow DEF SeenGood, SeenAt
<1>13. SeenGood'
  <2>1. SeenAt(c)'  BY <1>9, <1>10, <1>12 DEF SeenAt
  <2>2. ASSUME NEW d \in Client, d # c PROVE SeenAt(d)'
    <3>1. req'[d] = req[d] /\ (Sends(d)' <=> Sends(d)) /\ SeenAt(d)
      BY <1>0, <1>10, <2>2 DEF Sends, SeenGood
    <3>2. req[d].at = "looked" => Sends(d)  BY DEF Sends, F!Idle
    <3> QED BY <1>6, <1>12, <3>1, <3>2 DEF SeenAt, StillSeen, Back
  <2> QED BY <2>1, <2>2 DEF SeenGood
<1>14. Numbered'
  <2>1. \A p \in 1 .. MaxOrders : orders'[p] # F!Vacant <=> p <= k + 1
    <3> SUFFICES ASSUME NEW p \in 1 .. MaxOrders PROVE orders'[p] # F!Vacant <=> p <= k + 1
      OBVIOUS
    <3>1. CASE p = o  BY <1>1, <1>7, <1>8, <3>1 DEF o
    <3>2. CASE p # o
      <4>1. p <= k + 1 <=> p <= k  BY <1>1, <3>2 DEF o
      <4> QED BY <1>2, <1>8, <3>2, <4>1
    <3> QED BY <3>1, <3>2
  <2> QED BY <1>5, <2>1 DEF Numbered
<1> QED BY <1>11, <1>13, <1>14

\* An edit keeps what was on show.
LEMMA EditKept ==
    ASSUME SavedInv, NEW c \in Client, F!update(c)
    PROVE  KeptGood' /\ SeenGood' /\ Numbered'
<1>0. RowGood /\ KeptGood /\ SeenGood /\ NumberType  BY DEF SavedInv, OwedInv
<1>01. PICK o : o = req[c].id  OBVIOUS
<1> DEFINE prev == IF req[c].seen.status = "open" THEN req[c].seen.terms ELSE orders[o].prev
<1>1. /\ req[c].at = "looked" /\ vetted' = vetted /\ late' = late
      /\ \E why : req' = [req EXCEPT ![c].at = "answered", ![c].why = why, ![c].seen = F!Vacant]
      /\ \/ UNCHANGED <<orders, written, mixed>>
         \/ /\ orders[o].status \in F!FROZEN \cup {"open"}
            /\ \E terms, deadline : orders' = [orders EXCEPT ![o] =
                    [status |-> "queued", terms |-> terms, deadline |-> deadline,
                     paid |-> orders[o].paid, prev |-> prev]]
            /\ \E x : written' = [written EXCEPT ![o] = x]
            /\ mixed' = IF c \in late THEN mixed \cup {o} ELSE mixed
  <2>1. req[c].at = "looked" /\ vetted' = vetted /\ late' = late
    BY DEF F!update
  <2>2. CASE orders[o].status \in F!FROZEN \cup {"open"}
    <3> DEFINE days == req[c].b.deadline
               new == CASE days = "keep" -> F!keptDeadline(req[c].seen, o)
                        [] days = "none" -> "none"
                        [] OTHER -> "set"
    <3>4. orders' = [orders EXCEPT ![o] =
                    [status |-> "queued", terms |-> F!terms(req[c].b), deadline |-> new,
                     paid |-> orders[o].paid, prev |-> prev]]
      BY <1>01, <2>2 DEF F!update
    <3>1. \E terms, deadline : orders' = [orders EXCEPT ![o] =
                    [status |-> "queued", terms |-> terms, deadline |-> deadline,
                     paid |-> orders[o].paid, prev |-> prev]]
      <4> HIDE DEF new
      <4> QED BY <3>4
    <3>2. /\ \E x : written' = [written EXCEPT ![o] = x]
          /\ mixed' = IF c \in late THEN mixed \cup {o} ELSE mixed
      BY <1>01, <2>2 DEF F!update
    <3>3. \E why : req' = [req EXCEPT ![c].at = "answered", ![c].why = why, ![c].seen = F!Vacant]
      BY <1>01, <2>2 DEF F!update, F!Refuse, F!Accept
    <3> HIDE DEF prev
    <3> QED BY <2>1, <2>2, <3>1, <3>2, <3>3
  <2>3. CASE orders[o].status \notin F!FROZEN \cup {"open"}
    <3>1. F!Refuse(c, {"orderProcessed"}) /\ UNCHANGED <<orders, written, mixed>>
      BY <1>01, <2>3 DEF F!update
    <3>2. \E why : req' = [req EXCEPT ![c].at = "answered", ![c].why = why, ![c].seen = F!Vacant]
      BY <3>1 DEF F!Refuse
    <3> HIDE DEF prev
    <3> QED BY <2>1, <3>1, <3>2
  <2> QED BY <2>2, <2>3
<1>2. DOMAIN req[c] = ReqFields /\ Sends(c)
  BY <1>0, <1>1 DEF NumberType, F!Idle, Sends
<1>3. /\ req'[c].at = "answered" /\ req'[c].id = o
      /\ \A d \in Client : d # c => req'[d] = req[d]
  BY <1>0, <1>01, <1>1, <1>2 DEF NumberType, ReqFields
<1>4. /\ o \in 1 .. MaxOrders /\ IsRow(orders[o])
      /\ req[c].seen.status = "open" => IsTerms(req[c].seen.terms)
      /\ c \notin late => StillSeen(c)
  BY <1>0, <1>01, <1>1, <1>2 DEF SeenGood, SeenAt
<1>5. \A d \in Client : d # c => (Sends(d)' <=> Sends(d))  BY <1>3 DEF Sends
<1> HIDE DEF prev
<1>6. CASE UNCHANGED <<orders, written, mixed>>
  <2>1. KeptGood' /\ Numbered'
    BY <1>0, <1>1, <1>6 DEF SavedInv, KeptGood, KeptAt, Back, Numbered
  <2>2. SeenAt(c)'  BY <1>3, <1>4, <1>6 DEF SeenAt
  <2>3. \A d \in Client : d # c => SeenAt(d)'
    BY <1>0, <1>1, <1>3, <1>5, <1>6 DEF SeenGood, SeenAt, StillSeen, Back
  <2> QED BY <2>1, <2>2, <2>3 DEF SeenGood
<1>7. ASSUME orders[o].status \in F!FROZEN \cup {"open"}, NEW r,
             r.status = "queued", r.paid = orders[o].paid, r.prev = prev, IsRow(r),
             orders' = [orders EXCEPT ![o] = r],
             \E x : written' = [written EXCEPT ![o] = x],
             mixed' = IF c \in late THEN mixed \cup {o} ELSE mixed
      PROVE  KeptGood' /\ SeenGood' /\ Numbered'
  <2>1. /\ orders'[o] = r /\ r # F!Vacant
        /\ \A p \in 1 .. MaxOrders : p # o =>
                orders'[p] = orders[p] /\ written'[p] = written[p] /\ (p \in mixed' <=> p \in mixed)
    BY <1>0, <1>4, <1>7, VacantIsNoRow DEF RowGood
  <2>2. KeptAt(o)'
    <3>1. KeptAt(o)  BY <1>0, <1>4 DEF KeptGood
    <3>2. ASSUME o \notin mixed', vetted[o] # F!Vacant
          PROVE  IsTerms(prev) /\ Back(o, prev)
      <4>1. c \notin late /\ o \notin mixed  BY <1>7, <3>2
      <4>2. StillSeen(c)  BY <1>4, <4>1
      <4>3. CASE req[c].seen.status = "open"
        BY <1>01, <1>4, <4>2, <4>3 DEF StillSeen, prev
      <4>4. CASE req[c].seen.status # "open"
        <5>1. orders[o].status \in F!FROZEN
          BY <1>01, <1>7, <4>2, <4>4 DEF StillSeen
        <5>2. IsTerms(orders[o].prev) /\ Back(o, orders[o].prev)
          BY <3>1, <3>2, <4>1, <5>1 DEF KeptAt
        <5> QED BY <4>4, <5>2 DEF prev
      <4> QED BY <4>3, <4>4
    <3>3. vetted[o] = F!Vacant \/ IsForm(vetted[o])  BY <3>1 DEF KeptAt
    <3> QED BY <1>1, <1>7, <2>1, <3>2, <3>3 DEF KeptAt, Back
  <2>3. \A p \in 1 .. MaxOrders : p # o => KeptAt(p)'
    BY <1>0, <1>1, <2>1 DEF KeptGood, KeptAt, Back
  <2>4. KeptGood'  BY <1>0, <1>1, <2>2, <2>3 DEF KeptGood
  <2>5. SeenAt(c)'  BY <1>3, <1>4, <1>7, <2>1 DEF SeenAt
  <2>6. ASSUME NEW d \in Client, d # c PROVE SeenAt(d)'
    <3>1. req'[d] = req[d] /\ (Sends(d)' <=> Sends(d)) /\ SeenAt(d)
      BY <1>0, <1>3, <1>5, <2>6 DEF SeenGood
    <3>2. req[d].at = "looked" => Sends(d)  BY DEF Sends, F!Idle
    <3>3. CASE req[d].id # o
      BY <1>1, <2>1, <3>1, <3>2, <3>3 DEF SeenAt, StillSeen, Back
    <3>4. CASE req[d].id = o
      <4>1. StillSeen(d) => StillSeen(d)'
        <5>1. /\ vetted'[o] = vetted[o] /\ orders'[o].paid = orders[o].paid
              /\ orders'[o].status = "queued" /\ o \in 1 .. MaxOrders
          BY <1>1, <1>4, <1>7, <2>1
        <5>2. ASSUME StillSeen(d), req[d].seen.status = "open"
              PROVE  Back(o, req[d].seen.terms)'
          <6>1. Back(o, req[d].seen.terms)  BY <3>4, <5>2 DEF StillSeen
          <6> QED BY <3>1, <5>1, <6>1 DEF Back
        <5>3. orders'[o].status \in F!FROZEN
              /\ orders'[o].status \notin {"open", "expired"}
          BY <5>1 DEF F!FROZEN
        <5>4. ASSUME StillSeen(d), req[d].seen.status \notin F!FROZEN \cup {"open"}
              PROVE  FALSE
          BY <1>7, <3>4, <5>4 DEF StillSeen
        <5>5. req'[d].id = o /\ req'[d].seen = req[d].seen  BY <3>1, <3>4
        <5> QED BY <5>2, <5>3, <5>4, <5>5 DEF StillSeen
      <4> QED BY <1>1, <1>4, <1>7, <2>1, <3>1, <3>2, <3>4, <4>1 DEF SeenAt
    <3> QED BY <3>3, <3>4
  <2>7. SeenGood'  BY <2>5, <2>6 DEF SeenGood
  <2>8. Numbered'
    <3>1. orders[o] # F!Vacant  BY <1>4, VacantIsNoRow
    <3>2. \A p \in 1 .. MaxOrders : orders'[p] # F!Vacant <=> orders[p] # F!Vacant
      BY <2>1, <3>1
    <3> QED BY <3>2 DEF SavedInv, Numbered
  <2> QED BY <2>4, <2>7, <2>8
<1>8. ASSUME orders[o].status \in F!FROZEN \cup {"open"}, NEW terms, NEW deadline,
             orders' = [orders EXCEPT ![o] =
                [status |-> "queued", terms |-> terms, deadline |-> deadline,
                 paid |-> orders[o].paid, prev |-> prev]],
             \E x : written' = [written EXCEPT ![o] = x],
             mixed' = IF c \in late THEN mixed \cup {o} ELSE mixed
      PROVE  KeptGood' /\ SeenGood' /\ Numbered'
  <2> DEFINE r == [status |-> "queued", terms |-> terms, deadline |-> deadline,
                   paid |-> orders[o].paid, prev |-> prev]
  <2>1. r.status = "queued" /\ r.paid = orders[o].paid /\ r.prev = prev
    OBVIOUS
  <2>2. orders' = [orders EXCEPT ![o] = r]  BY <1>8
  <2>3. IsRow(r)
    <3>1. RowGood'  BY WriteStep
    <3>2. orders'[o] = r  BY <1>0, <1>4, <2>2 DEF RowGood
    <3>3. r # F!Vacant
      <4> HIDE DEF r
      <4> QED BY <2>1 DEF F!Vacant
    <3> QED BY <1>4, <3>1, <3>2, <3>3 DEF RowGood
  <2> HIDE DEF r
  <2> QED BY <1>7, <1>8, <2>1, <2>2, <2>3
<1> QED BY <1>1, <1>6, <1>8

\* A row moves on.
LEMMA MoveStep ==
    ASSUME SavedInv, NEW o \in F!Rows, NEW new, IsRow(new),
           orders' = [orders EXCEPT ![o] = new], form' = form, req' = req,
           DOMAIN written' = 1 .. MaxOrders, DOMAIN vetted' = 1 .. MaxOrders,
           \A p \in 1 .. MaxOrders : p # o =>
                /\ written'[p] = written[p] /\ vetted'[p] = vetted[p]
                /\ p \in mixed' <=> p \in mixed,
           late \subseteq late',
           written'[o] # F!Vacant =>
                IsForm(written'[o]) /\ Accepted(new.terms) /\ Says(new.terms, written'[o]),
           KeptAt(o)',
           \A c \in Client : req[c].at = "looked" /\ req[c].id = o /\ c \notin late' =>
                StillSeen(c)'
    PROVE  RowGood' /\ ScreenGood' /\ BodyGood' /\ KeptGood' /\ SeenGood' /\ Numbered'
<1>0. RowGood /\ ScreenGood /\ BodyGood /\ KeptGood /\ SeenGood  BY DEF SavedInv
<1>1. /\ o \in 1 .. MaxOrders /\ orders[o] # F!Vacant
      /\ DOMAIN orders' = 1 .. MaxOrders /\ orders'[o] = new
      /\ \A p \in 1 .. MaxOrders : p # o => orders'[p] = orders[p]
  BY <1>0 DEF F!Rows, RowGood
<1>2. \A p \in 1 .. MaxOrders : IsRow(orders[p]) => IsRow(orders'[p])  BY <1>1
<1>3. RowGood'
  <2>1. ASSUME NEW p \in 1 .. MaxOrders
        PROVE  /\ orders'[p] = F!Vacant \/ IsRow(orders'[p])
               /\ written'[p] # F!Vacant =>
                    /\ IsForm(written'[p])
                    /\ Accepted(orders'[p].terms) /\ Says(orders'[p].terms, written'[p])
    <3>1. CASE p = o  BY <1>1, <3>1
    <3>2. CASE p # o  BY <1>0, <1>1, <3>2 DEF RowGood
    <3> QED BY <3>1, <3>2
  <2> QED BY <1>1, <2>1 DEF RowGood
<1>4. ScreenGood'  BY <1>0, <1>2 DEF ScreenGood, F!Shown
<1>5. BodyGood'  BY <1>0 DEF BodyGood, Sends
<1>6. KeptGood'
  <2>1. \A p \in 1 .. MaxOrders : p # o => KeptAt(p)'
    BY <1>0, <1>1 DEF KeptGood, KeptAt, Back
  <2> QED BY <2>1 DEF KeptGood
<1>7. ASSUME NEW c \in Client PROVE SeenAt(c)'
  <2>1. SeenAt(c) /\ (Sends(c)' <=> Sends(c))  BY <1>0 DEF SeenGood, Sends
  <2>2. req[c].at = "looked" => Sends(c)  BY DEF Sends, F!Idle
  <2>3. req[c].at = "looked" /\ req[c].id # o /\ c \notin late' => StillSeen(c)'
    <3> SUFFICES ASSUME req[c].at = "looked", req[c].id # o, c \notin late' PROVE StillSeen(c)'
      OBVIOUS
    <3>1. StillSeen(c) /\ req[c].id \in 1 .. MaxOrders  BY <2>1, <2>2 DEF SeenAt
    <3>2. orders'[req[c].id] = orders[req[c].id] /\ vetted'[req[c].id] = vetted[req[c].id]
      BY <1>1, <3>1
    <3> QED BY <3>1, <3>2 DEF StillSeen, Back
  <2> QED BY <1>2, <2>1, <2>3 DEF SeenAt
<1>8. Numbered'
  <2>1. new # F!Vacant  BY VacantIsNoRow
  <2>2. \A p \in 1 .. MaxOrders : orders'[p] # F!Vacant <=> orders[p] # F!Vacant
    BY <1>1, <2>1
  <2> QED BY <2>2 DEF SavedInv, Numbered
<1> QED BY <1>3, <1>4, <1>5, <1>6, <1>7, <1>8 DEF SeenGood

\* The row an order is in, and what is known of it.
LEMMA RowIs ==
    ASSUME SavedInv, NEW o \in F!Rows
    PROVE  /\ o \in 1 .. MaxOrders /\ IsRow(orders[o]) /\ KeptAt(o)
           /\ DOMAIN written = 1 .. MaxOrders /\ DOMAIN vetted = 1 .. MaxOrders
           /\ written[o] # F!Vacant =>
                /\ IsForm(written[o])
                /\ Accepted(orders[o].terms) /\ Says(orders[o].terms, written[o])
           /\ DOMAIN orders = 1 .. MaxOrders
           /\ \A c \in Client : req[c].at = "looked" /\ req[c].id = o /\ c \notin late =>
                StillSeen(c)
BY DEF SavedInv, RowGood, KeptGood, SeenGood, SeenAt, F!Rows

\* A moderator decides: what is let through stands in the row with the sum paid.
LEMMA DecidedStep ==
    ASSUME SavedInv, NEW o \in F!Rows, F!Approve(o) \/ F!Reject(o)
    PROVE  RowGood' /\ ScreenGood' /\ BodyGood' /\ KeptGood' /\ SeenGood' /\ Numbered'
<1> DEFINE r == orders[o]
<1>0. /\ o \in 1 .. MaxOrders /\ IsRow(r) /\ KeptAt(o)
      /\ DOMAIN written = 1 .. MaxOrders /\ DOMAIN vetted = 1 .. MaxOrders
      /\ written[o] # F!Vacant =>
            IsForm(written[o]) /\ Accepted(r.terms) /\ Says(r.terms, written[o])
      /\ DOMAIN orders = 1 .. MaxOrders
      /\ \A c \in Client : req[c].at = "looked" /\ req[c].id = o /\ c \notin late =>
            StillSeen(c)
  BY RowIs
<1>1. CASE F!Approve(o)
  <2> DEFINE new == [r EXCEPT !.status = "open", !.paid = r.terms.budget]
  <2>1. /\ orders' = [orders EXCEPT ![o] = new] /\ form' = form /\ req' = req
        /\ written' = written /\ vetted' = [vetted EXCEPT ![o] = written[o]]
        /\ late' = late \cup F!LookedAt(o) /\ mixed' = mixed \ {o}
    BY <1>1 DEF F!Approve, F!Goes
  <2>2. /\ IsRow(new) /\ new.status = "open" /\ new.terms = r.terms
        /\ new.paid = r.terms.budget
    BY <1>0 DEF IsRow
  <2> HIDE DEF new
  <2>3. orders'[o] = new /\ vetted'[o] = written[o] /\ new # F!Vacant
    BY <1>0, <2>1, <2>2, VacantIsNoRow
  <2> HIDE DEF r
  <2>4. KeptAt(o)'  BY <1>0, <2>1, <2>2, <2>3 DEF KeptAt, F!FROZEN
  <2>5. \A c \in Client : req[c].at = "looked" /\ req[c].id = o => c \in late'
    BY <2>1 DEF F!LookedAt
  <2>6. \A p \in 1 .. MaxOrders : p # o => vetted'[p] = vetted[p]  BY <1>0, <2>1
  <2>7. DOMAIN vetted' = 1 .. MaxOrders  BY <1>0, <2>1
  <2> QED BY <1>0, <2>1, <2>2, <2>4, <2>5, <2>6, <2>7, MoveStep
<1>2. CASE F!Reject(o)
  <2> DEFINE to == IF r.paid = 0 THEN "rejected" ELSE "editRejected"
             new == [r EXCEPT !.status = to]
  <2>1. /\ r.status = "queued" /\ orders' = [orders EXCEPT ![o] = new] /\ form' = form
        /\ req' = req /\ UNCHANGED <<written, vetted, late, mixed>>
    BY <1>2 DEF F!Reject, F!Becomes, F!Goes, F!forms
  <2>2. /\ IsRow(new) /\ new.status \in {"rejected", "editRejected"} /\ new.terms = r.terms
        /\ new.paid = r.paid /\ new.prev = r.prev
    BY <1>0 DEF IsRow
  <2> HIDE DEF new
  <2>3. orders'[o] = new /\ new # F!Vacant
    BY <1>0, <2>1, <2>2, VacantIsNoRow
  <2>4. KeptAt(o)'  BY <1>0, <2>1, <2>2, <2>3 DEF KeptAt, Back, F!FROZEN
  <2>5. \A c \in Client : req[c].at = "looked" /\ req[c].id = o /\ c \notin late => StillSeen(c)'
    BY <1>0, <2>1, <2>2, <2>3 DEF StillSeen, Back, F!FROZEN
  <2> HIDE DEF r
  <2> QED BY <1>0, <2>1, <2>2, <2>4, <2>5, MoveStep
<1> QED BY <1>1, <1>2

\* A closing gives back what was let through.
LEMMA ClosedStep ==
    ASSUME SavedInv, NEW o \in F!Rows, F!Close(o)
    PROVE  RowGood' /\ ScreenGood' /\ BodyGood' /\ KeptGood' /\ SeenGood' /\ Numbered'
<1> DEFINE r == orders[o]
<1>0. /\ o \in 1 .. MaxOrders /\ IsRow(r) /\ KeptAt(o)
      /\ DOMAIN written = 1 .. MaxOrders /\ DOMAIN vetted = 1 .. MaxOrders
      /\ written[o] # F!Vacant =>
            IsForm(written[o]) /\ Accepted(r.terms) /\ Says(r.terms, written[o])
      /\ DOMAIN orders = 1 .. MaxOrders
      /\ \A c \in Client : req[c].at = "looked" /\ req[c].id = o /\ c \notin late =>
            StillSeen(c)
  BY RowIs
<1>1. CASE /\ F!Goes(o, F!FROZEN, [r EXCEPT !.status = "closed", !.terms = F!cancelEdit(o)])
           /\ written' = [written EXCEPT ![o] = IF o \in mixed THEN F!Vacant ELSE vetted[o]]
           /\ UNCHANGED <<vetted, late, mixed, extended>>
  <2> DEFINE new == [r EXCEPT !.status = "closed", !.terms = F!cancelEdit(o)]
  <2>1. /\ r.status \in F!FROZEN /\ orders' = [orders EXCEPT ![o] = new] /\ form' = form
        /\ req' = req
    BY <1>1 DEF F!Goes
  <2>2. IsTerms(F!cancelEdit(o))
    <3>1. IsTerms(IF r.prev = F!Vacant THEN r.terms ELSE r.prev)  BY <1>0 DEF IsRow
    <3> QED BY <3>1, NewBudget DEF F!cancelEdit
  <2>3. /\ IsRow(new) /\ new.status = "closed" /\ new.terms = F!cancelEdit(o)
        /\ new.paid = r.paid
    BY <1>0, <2>2 DEF IsRow
  <2> HIDE DEF new
  <2>4. /\ orders'[o] = new /\ new # F!Vacant
        /\ written'[o] = IF o \in mixed THEN F!Vacant ELSE vetted[o]
        /\ DOMAIN written' = 1 .. MaxOrders
        /\ \A p \in 1 .. MaxOrders : p # o => written'[p] = written[p]
    BY <1>0, <1>1, <2>1, <2>3, VacantIsNoRow
  <2>5. ASSUME written'[o] # F!Vacant
        PROVE  IsForm(written'[o]) /\ Accepted(new.terms) /\ Says(new.terms, written'[o])
    <3>1. o \notin mixed /\ written'[o] = vetted[o] /\ vetted[o] # F!Vacant  BY <2>4, <2>5
    <3>2. /\ IsForm(vetted[o]) /\ IsTerms(r.prev) /\ Back(o, r.prev)
      BY <1>0, <2>1, <3>1 DEF KeptAt
    <3>3. r.prev # F!Vacant  BY <3>2, VacantIsNoTerms
    <3>4. F!cancelEdit(o) = [r.prev EXCEPT !.budget = r.paid]  BY <3>3 DEF F!cancelEdit
    <3> QED BY <2>3, <3>1, <3>2, <3>4 DEF Back
  <2>6. KeptAt(o)'  BY <1>0, <1>1, <2>3, <2>4 DEF KeptAt, F!FROZEN
  <2>7. \A c \in Client : req[c].at = "looked" /\ req[c].id = o /\ c \notin late => StillSeen(c)'
    BY <1>0, <1>1, <2>1, <2>3, <2>4 DEF StillSeen, Back, F!FROZEN
  <2> HIDE DEF r
  <2> QED BY <1>0, <1>1, <2>1, <2>3, <2>4, <2>5, <2>6, <2>7, MoveStep
<1>2. CASE F!Becomes(o, {"open"}, "closed") /\ UNCHANGED F!forms
  <2> DEFINE new == [r EXCEPT !.status = "closed"]
  <2>1. /\ r.status = "open" /\ orders' = [orders EXCEPT ![o] = new] /\ form' = form
        /\ req' = req /\ UNCHANGED <<written, vetted, late, mixed>>
    BY <1>2 DEF F!Becomes, F!Goes, F!forms
  <2>2. /\ IsRow(new) /\ new.status = "closed" /\ new.terms = r.terms
        /\ new.paid = r.paid /\ new.prev = r.prev
    BY <1>0 DEF IsRow
  <2> HIDE DEF new
  <2>3. orders'[o] = new /\ new # F!Vacant
    BY <1>0, <2>1, <2>2, VacantIsNoRow
  <2>4. KeptAt(o)'  BY <1>0, <2>1, <2>2, <2>3 DEF KeptAt, Back, F!FROZEN
  <2>5. \A c \in Client : req[c].at = "looked" /\ req[c].id = o /\ c \notin late => StillSeen(c)'
    BY <1>0, <2>1, <2>2, <2>3 DEF StillSeen, Back, F!FROZEN
  <2> HIDE DEF r
  <2> QED BY <1>0, <2>1, <2>2, <2>4, <2>5, MoveStep
<1> QED BY <1>1, <1>2 DEF F!Close

\* Terms without the link are as good as they were, and say what the form said
\* without it.
LEMMA Unlinked ==
    ASSUME NEW t, IsTerms(t)
    PROVE  /\ IsTerms(F!unlinked(t))
           /\ Accepted(t) => Accepted(F!unlinked(t))
           /\ \A f : IsForm(f) =>
                /\ IsForm(F!unlinked(f)) /\ F!unlinked(f) # F!Vacant
                /\ Says(t, f) => Says(F!unlinked(t), F!unlinked(f))
<1> DEFINE u == F!unlinked(t)
<1>1. t # F!Vacant  BY VacantIsNoTerms
<1>2. u = [t EXCEPT !.target = "empty", !.bio = FALSE]  BY <1>1 DEF F!unlinked
<1>3. /\ IsTerms(u) /\ u.text = t.text /\ u.examples = t.examples /\ u.target = "empty"
      /\ u.bio = FALSE /\ u.budget = t.budget /\ u.minViews = t.minViews
      /\ u.minSec = t.minSec /\ u.maxSec = t.maxSec /\ u.platforms = t.platforms
      /\ u.category = t.category
  BY <1>2 DEF IsTerms
<1> HIDE DEF u
<1>4. ASSUME Accepted(t) PROVE Accepted(u)
  <2> DEFINE B(x) == [briefEmpty           |-> ~F!isMeaningfulText(F!text(x.text)),
                      linkInBioNeedsTarget |-> x.bio /\ x.target = "empty",
                      budgetRange          |-> x.budget \notin MIN_BUDGET..MAX_BUDGET,
                      viewsRange           |-> ~F!parseViews(x.minViews),
                      durationRange        |-> ~(F!durationSec(x.minSec) /\ F!durationSec(x.maxSec)),
                      durationOrder        |-> x.minSec > x.maxSec,
                      chooseCategory       |-> x.category = "none"]
  <2>1. F!parseOrderInput(t) = {} /\ F!text(t.text) = t.text  BY <1>4 DEF Accepted
  <2>2. \A x : F!parseOrderInput(x) =
            F!Wrong(F!parseExamples(x.examples)) \cup F!Wrong(F!optionalUrl(x.target))
            \cup F!Wrong(B(x))
    BY DEF F!parseOrderInput
  <2>3. F!Wrong(B(u)) \subseteq F!Wrong(B(t))
    <3> DEFINE tests == {"briefEmpty", "linkInBioNeedsTarget", "budgetRange", "viewsRange",
                         "durationRange", "durationOrder", "chooseCategory"}
    <3>1. \A x : DOMAIN B(x) = tests  OBVIOUS
    <3>2. B(u).linkInBioNeedsTarget = FALSE  BY <1>3
    <3>3. /\ B(u).briefEmpty = B(t).briefEmpty /\ B(u).budgetRange = B(t).budgetRange
          /\ B(u).viewsRange = B(t).viewsRange /\ B(u).durationRange = B(t).durationRange
          /\ B(u).durationOrder = B(t).durationOrder
          /\ B(u).chooseCategory = B(t).chooseCategory
      BY <1>3
    <3> HIDE DEF B
    <3> QED BY <3>1, <3>2, <3>3 DEF F!Wrong
  <2>4. F!Wrong(F!optionalUrl("empty")) = {}
    <3> DEFINE url == F!optionalUrl("empty")
    <3>1. /\ DOMAIN url = {"urlScheme", "urlIsContact"}
          /\ url.urlScheme = FALSE /\ url.urlIsContact = FALSE
      BY DEF F!optionalUrl
    <3> HIDE DEF url
    <3> QED BY <3>1 DEF F!Wrong, url
  <2> HIDE DEF B
  <2>5. F!Wrong(F!parseExamples(t.examples)) = {} /\ F!Wrong(B(t)) = {}
    BY <2>1, <2>2
  <2>6. F!parseOrderInput(u) =
            F!Wrong(F!parseExamples(t.examples)) \cup F!Wrong(F!optionalUrl("empty"))
            \cup F!Wrong(B(u))
    BY <1>3, <2>2
  <2>7. F!parseOrderInput(u) = {}  BY <2>3, <2>4, <2>5, <2>6
  <2> QED BY <1>3, <2>1, <2>7 DEF Accepted
<1>5. ASSUME NEW f, IsForm(f)
      PROVE  /\ IsForm(F!unlinked(f)) /\ F!unlinked(f) # F!Vacant
             /\ Says(t, f) => Says(u, F!unlinked(f))
  <2> DEFINE g == F!unlinked(f)
  <2>1. f # F!Vacant  BY <1>5, VacantIsNoForm
  <2>2. g = [f EXCEPT !.target = "empty", !.bio = FALSE]  BY <2>1 DEF F!unlinked
  <2>3. /\ IsForm(g) /\ g.text = f.text /\ g.examples = f.examples /\ g.target = "empty"
        /\ g.bio = FALSE /\ g.budget = f.budget /\ g.minViews = f.minViews
        /\ g.minSec = f.minSec /\ g.maxSec = f.maxSec /\ g.platforms = f.platforms
        /\ g.category = f.category
    BY <1>5, <2>2 DEF IsForm, FieldNames
  <2> HIDE DEF g
  <2>4. g # F!Vacant  BY <2>3, VacantIsNoForm
  <2>5. Says(t, f) => Says(u, g)  BY <1>3, <2>3 DEF Says
  <2> QED BY <2>3, <2>4, <2>5 DEF g
<1> QED BY <1>3, <1>4, <1>5 DEF u

\* A measure on reports takes the link from the row, from the terms it would go back
\* to, and from what is said of both.
LEMMA MeasureStep ==
    ASSUME SavedInv, NEW o \in F!Rows, F!moderatorClose(o)
    PROVE  RowGood' /\ ScreenGood' /\ BodyGood' /\ KeptGood' /\ SeenGood' /\ Numbered'
<1> DEFINE r == orders[o]
           to == IF r.status \in {"open", "expired"} THEN "closed" ELSE r.status
           new == [r EXCEPT !.terms = F!unlinked(@), !.prev = F!unlinked(@),
                            !.status = IF @ \in {"open", "expired"} THEN "closed" ELSE @]
<1>0. /\ o \in 1 .. MaxOrders /\ IsRow(r) /\ KeptAt(o)
      /\ DOMAIN written = 1 .. MaxOrders /\ DOMAIN vetted = 1 .. MaxOrders
      /\ written[o] # F!Vacant =>
            IsForm(written[o]) /\ Accepted(r.terms) /\ Says(r.terms, written[o])
      /\ DOMAIN orders = 1 .. MaxOrders
  BY RowIs
<1>1. /\ orders' = [orders EXCEPT ![o] = new] /\ form' = form /\ req' = req
      /\ written' = [written EXCEPT ![o] = F!unlinked(written[o])]
      /\ vetted' = [vetted EXCEPT ![o] = F!unlinked(vetted[o])]
      /\ late' = late \cup F!LookedAt(o) /\ mixed' = mixed
  BY DEF F!moderatorClose, F!Goes
<1>2. /\ IsTerms(r.terms) /\ IsTerms(F!unlinked(r.terms))
      /\ F!unlinked(r.prev) = F!Vacant \/ IsTerms(F!unlinked(r.prev))
  BY <1>0, Unlinked DEF IsRow, F!unlinked
<1>3. /\ new.status = to /\ new.terms = F!unlinked(r.terms) /\ new.prev = F!unlinked(r.prev)
      /\ new.paid = r.paid /\ DOMAIN new = {"status", "terms", "deadline", "paid", "prev"}
  BY <1>0 DEF IsRow
<1>4. to \notin {"open", "expired"} /\ (to \in F!FROZEN => r.status \in F!FROZEN)
  BY DEF F!FROZEN
<1> HIDE DEF new, to
<1>5. IsRow(new)  BY <1>2, <1>3 DEF IsRow
<1>6. /\ orders'[o] = new /\ new # F!Vacant
      /\ written'[o] = F!unlinked(written[o]) /\ vetted'[o] = F!unlinked(vetted[o])
      /\ DOMAIN written' = 1 .. MaxOrders /\ DOMAIN vetted' = 1 .. MaxOrders
      /\ \A p \in 1 .. MaxOrders : p # o => written'[p] = written[p] /\ vetted'[p] = vetted[p]
  BY <1>0, <1>1, <1>5, VacantIsNoRow
<1>7. F!unlinked(F!Vacant) = F!Vacant  BY DEF F!unlinked
<1>8. ASSUME written'[o] # F!Vacant
      PROVE  IsForm(written'[o]) /\ Accepted(new.terms) /\ Says(new.terms, written'[o])
  <2>1. written[o] # F!Vacant  BY <1>6, <1>7, <1>8
  <2> HIDE DEF r
  <2> QED BY <1>0, <1>2, <1>3, <1>6, <2>1, Unlinked
<1>9. vetted'[o] # F!Vacant <=> vetted[o] # F!Vacant
  BY <1>0, <1>2, <1>6, <1>7, Unlinked DEF KeptAt
<1>10. vetted'[o] = F!Vacant \/ IsForm(vetted'[o])
  BY <1>0, <1>2, <1>6, <1>9, Unlinked DEF KeptAt
<1>11. ASSUME to \in F!FROZEN, o \notin mixed, vetted'[o] # F!Vacant
       PROVE  /\ IsTerms(new.prev)
              /\ LET u == [new.prev EXCEPT !.budget = new.paid]
                 IN  Accepted(u) /\ Says(u, vetted'[o])
  <2>1. IsTerms(r.prev) /\ Back(o, r.prev) /\ IsForm(vetted[o])
    BY <1>0, <1>4, <1>9, <1>11 DEF KeptAt
  <2> DEFINE v == [r.prev EXCEPT !.budget = r.paid]
  <2>2. IsTerms(v) /\ Accepted(v) /\ Says(v, vetted[o])
    BY <1>9, <1>11, <2>1, NewBudget DEF Back
  <2>3. [new.prev EXCEPT !.budget = new.paid] = F!unlinked(v)
    <3>1. r.prev # F!Vacant /\ v # F!Vacant  BY <2>1, <2>2, VacantIsNoTerms
    <3>2. F!unlinked(v) = [v EXCEPT !.target = "empty", !.bio = FALSE]
      BY <3>1 DEF F!unlinked
    <3>3. new.prev = [r.prev EXCEPT !.target = "empty", !.bio = FALSE]
      BY <1>3, <3>1 DEF F!unlinked
    <3> QED BY <1>3, <2>1, <3>2, <3>3 DEF IsTerms
  <2> HIDE DEF v, r
  <2>4. IsTerms(new.prev)  BY <1>3, <2>1, Unlinked
  <2> QED BY <1>6, <2>1, <2>2, <2>3, <2>4, Unlinked
<1>12. KeptAt(o)'
  BY <1>1, <1>3, <1>4, <1>6, <1>10, <1>11 DEF KeptAt, Back
<1>13. \A c \in Client : req[c].at = "looked" /\ req[c].id = o => c \in late'
  BY <1>1 DEF F!LookedAt
<1> HIDE DEF r
<1> QED BY <1>1, <1>5, <1>6, <1>8, <1>12, <1>13, MoveStep

\* An order runs out, or is put on show again.
LEMMA DeadlineStep ==
    ASSUME SavedInv, NEW o \in F!Rows, F!Expire(o) \/ F!extend(o)
    PROVE  RowGood' /\ ScreenGood' /\ BodyGood' /\ KeptGood' /\ SeenGood' /\ Numbered'
<1> DEFINE r == orders[o]
<1>0. /\ o \in 1 .. MaxOrders /\ IsRow(r) /\ KeptAt(o)
      /\ DOMAIN written = 1 .. MaxOrders /\ DOMAIN vetted = 1 .. MaxOrders
      /\ written[o] # F!Vacant =>
            IsForm(written[o]) /\ Accepted(r.terms) /\ Says(r.terms, written[o])
      /\ DOMAIN orders = 1 .. MaxOrders
      /\ \A c \in Client : req[c].at = "looked" /\ req[c].id = o /\ c \notin late =>
            StillSeen(c)
  BY RowIs
<1>1. PICK to \in {"open", "expired"} :
        /\ r.status \in {"open", "expired"}
        /\ orders' = [orders EXCEPT ![o] = [r EXCEPT !.status = to]]
        /\ form' = form /\ req' = req /\ UNCHANGED <<written, vetted, mixed>>
        /\ \/ to = "expired" /\ r.status = "open" /\ late' = late
           \/ late' = late \cup F!LookedAt(o)
  BY DEF F!Expire, F!extend, F!Becomes, F!Goes, F!forms
<1> DEFINE new == [r EXCEPT !.status = to]
<1>2. /\ IsRow(new) /\ new.status = to /\ new.terms = r.terms
      /\ new.paid = r.paid /\ new.prev = r.prev
  BY <1>0 DEF IsRow
<1>3. orders' = [orders EXCEPT ![o] = new]  BY <1>1
<1> HIDE DEF new
<1>4. orders'[o] = new /\ new # F!Vacant  BY <1>0, <1>2, <1>3, VacantIsNoRow
<1>5. KeptAt(o)'  BY <1>0, <1>1, <1>2, <1>4 DEF KeptAt, Back, F!FROZEN
<1>6. \A c \in Client : req[c].at = "looked" /\ req[c].id = o /\ c \notin late' => StillSeen(c)'
  <2>1. CASE to = "expired" /\ r.status = "open" /\ late' = late
    BY <1>0, <1>1, <1>2, <1>4, <2>1 DEF StillSeen, Back, F!FROZEN
  <2>2. CASE late' = late \cup F!LookedAt(o)  BY <2>2 DEF F!LookedAt
  <2> QED BY <1>1, <2>1, <2>2
<1> HIDE DEF r
<1> QED BY <1>0, <1>1, <1>2, <1>3, <1>5, <1>6, MoveStep

LEMMA SavedStep == SavedInv /\ [F!Next]_(F!vars) => SavedInv'
<1> SUFFICES ASSUME SavedInv, [F!Next]_(F!vars) PROVE SavedInv'  OBVIOUS
<1>0. OwedInv'  BY OwedStep DEF SavedInv
<1>1. CASE UNCHANGED F!vars
  <2>1. /\ orders' = orders /\ written' = written /\ form' = form /\ req' = req
        /\ vetted' = vetted /\ late' = late /\ mixed' = mixed
    BY <1>1 DEF F!vars, F!history, F!forms
  <2>2. RowGood' /\ ScreenGood' /\ BodyGood'
    BY <2>1 DEF SavedInv, RowGood, ScreenGood, BodyGood, F!Shown, Sends
  <2>3. KeptGood' /\ SeenGood' /\ Numbered'  BY <2>1, NothingMoved DEF SavedInv
  <2> QED BY <1>0, <2>2, <2>3 DEF SavedInv
<1>2. ASSUME NEW c \in Client,
             \/ \E at \in {"new", "edit"}, from \in F!Rows \cup {F!NoOrder} :
                    (at = "edit" => from # F!NoOrder) /\ F!Opens(c, at, from)
             \/ F!Listed(c) \/ F!NotListed(c) \/ F!Type(c) \/ F!FillIn(c)
             \/ F!Preview(c) \/ F!Back(c) \/ F!Leave(c)
      PROVE  SavedInv'
  <2>1. req' = req
    BY <1>2 DEF F!Opens, F!Listed, F!NotListed, F!Type, F!FillIn, F!Preview, F!Back, F!Leave
  <2> QED BY <1>0, <1>2, <2>1, FormsStep DEF SavedInv
<1>3. ASSUME NEW c \in Client,
             F!Submit(c) \/ F!Count(c) \/ F!Look(c) \/ F!Answer(c) \/ F!Lost(c)
      PROVE  SavedInv'
  BY <1>0, <1>3, RequestStep DEF SavedInv
<1>4. ASSUME NEW c \in Client, F!Create(c) \/ F!update(c) PROVE SavedInv'
  BY <1>0, <1>4, WriteStep, MadeKept, EditKept DEF SavedInv
<1>5. ASSUME NEW o \in F!Rows,
             \/ F!Approve(o) \/ F!Reject(o) \/ F!Close(o) \/ F!moderatorClose(o)
             \/ F!Expire(o) \/ F!extend(o)
      PROVE  SavedInv'
  BY <1>0, <1>5, DecidedStep, ClosedStep, MeasureStep, DeadlineStep DEF SavedInv
<1>6. \/ UNCHANGED F!vars
      \/ \E c \in Client :
            \/ \E at \in {"new", "edit"}, from \in F!Rows \cup {F!NoOrder} :
                    (at = "edit" => from # F!NoOrder) /\ F!Opens(c, at, from)
            \/ F!Leave(c) \/ F!Listed(c) \/ F!NotListed(c) \/ F!Type(c) \/ F!FillIn(c)
            \/ F!Preview(c) \/ F!Back(c) \/ F!Submit(c)
            \/ F!Count(c) \/ F!Create(c) \/ F!Look(c) \/ F!update(c)
            \/ F!Answer(c) \/ F!Lost(c)
      \/ \E o \in F!Rows :
            \/ F!Approve(o) \/ F!Reject(o) \/ F!Close(o) \/ F!moderatorClose(o)
            \/ F!Expire(o) \/ F!extend(o)
  <2>1. \A o \in F!Rows : o # F!NoOrder  BY DEF F!Rows, F!NoOrder
  <2> QED BY <2>1 DEF F!Next, F!OpenNew, F!OpenCopy, F!OpenEdit
<1> QED BY <1>1, <1>2, <1>3, <1>4, <1>5, <1>6

\* What stands in a row is what the form had on its screen when it was sent, and
\* after the closing of an edit what was let through last, unless the order was
\* decided on or extended between the look and the writing of an edit (OrderForm.tsx,
\* CreateOrderView.tsx, order-input.ts, OrdersService.update, close, moderatorClose):
\* for any rows, any hand at the forms, any order of the answers and any decisions.
THEOREM AlwaysSavedAsShown == Spec => []SavedAsShown
<1>1. Init => SavedInv  BY FormInit, SavedInit
<1>2. SavedInv /\ [Next]_vars => SavedInv'  BY FormSteps, SavedStep
<1>3. SavedInv => SavedAsShown
  BY DEF SavedInv, RowGood, Says, SavedAsShown, F!SavedAsShown, F!Rows
<1> QED BY <1>1, <1>2, <1>3, PTL DEF Spec

\* An order made with the form can be opened in it and sent as it is, and nothing
\* changes (OrderForm.tsx, changesNothing): in either app, for any limits.
THEOREM RoundTripsAlways == Spec => []RoundTrip
<1>1. Init => SavedInv  BY FormInit, SavedInit
<1>2. SavedInv /\ [Next]_vars => SavedInv'  BY FormSteps, SavedStep
<1>3. SavedInv => RoundTrip
  <2> SUFFICES ASSUME SavedInv, NEW o \in F!Rows, NEW c \in Client, written[o] # F!Vacant
               PROVE  LET f == F!fill(c, F!blank(c, o), o) IN
                      /\ F!validate(c, f) /\ F!parseOrderEdit(F!input(c, f)) = {}
                      /\ F!changesNothing(o, F!input(c, f))
    BY DEF RoundTrip, F!RoundTrip
  <2>1. o \in 1 .. MaxOrders /\ o # F!NoOrder  BY DEF F!Rows, F!NoOrder
  <2>2. IsRow(orders[o]) /\ Accepted(orders[o].terms)
    BY <2>1 DEF SavedInv, RowGood, F!Rows
  <2> QED BY <2>1, <2>2, SentAgain DEF IsRow
<1> QED BY <1>1, <1>2, <1>3, PTL DEF Spec

-----------------------------------------------------------------------------
(* The form: the limit of active orders *)

LEMMA SameCount == ASSUME NEW S PROVE F!Cardinality(S) = Cardinality(S)
BY DEF F!Cardinality, Cardinality

Rank == {"queued", "editRejected", "rejected", "open", "closed", "expired"}

\* While no two creations have met and no order was extended, the active orders are
\* within the limit, and a creation that has counted them still has room.
Limited ==
    /\ beside \in BOOLEAN /\ extended \in BOOLEAN
    /\ \A o \in 1 .. MaxOrders : orders[o] # F!Vacant => orders[o].status \in Rank
    /\ \/ beside \/ extended
       \/ /\ Cardinality(F!active) <= MAX_ACTIVE_ORDERS
          /\ \A c \in Client :
                req[c].at = "counted" => Cardinality(F!active) < MAX_ACTIVE_ORDERS

LimitInv == SavedInv /\ Limited

LEMMA ActiveFinite ==
    ASSUME NEW S \in SUBSET (1 .. MaxOrders)
    PROVE  IsFiniteSet(S) /\ Cardinality(S) \in Nat
<1>1. MaxOrders \in Nat  BY AdvertiserAssumption DEF F!OrderFormAssumption
<1>2. IsFiniteSet(1 .. MaxOrders)  BY <1>1, FS_Interval
<1>3. IsFiniteSet(S)  BY <1>2, FS_Subset
<1> QED BY <1>3, FS_CardinalityType

LEMMA LimitInit == F!Init => LimitInv
<1> SUFFICES ASSUME F!Init PROVE LimitInv  OBVIOUS
<1>0. SavedInv  BY SavedInit
<1>1. PICK new : /\ orders = [o \in 1 .. MaxOrders |-> IF o = 1 THEN new ELSE F!Vacant]
                 /\ new.status \in {"open", "expired"}
  <2>1. PICK new, f :
            /\ F!First(new, f)
            /\ new \in F!OldRows \/ new = F!RowOf(f)
    BY DEF F!Init
  <2>2. new.status \in {"open", "expired"}
    <3>1. CASE new \in F!OldRows  BY <3>1 DEF F!OldRows
    <3>2. CASE new = F!RowOf(f)  BY <3>2 DEF F!RowOf
    <3> QED BY <2>1, <3>1, <3>2
  <2> QED BY <2>1, <2>2 DEF F!First
<1>2. req = [c \in Client |-> F!Idle] /\ beside = FALSE /\ extended = FALSE  BY DEF F!Init
<1>3. \A o \in 1 .. MaxOrders : orders[o] # F!Vacant => orders[o].status \in Rank
  BY <1>1 DEF Rank
<1>4. F!active \in SUBSET {1}  BY <1>1 DEF F!active, F!Vacant, F!FROZEN
<1>5. Cardinality(F!active) <= 1
  <2>1. IsFiniteSet({1}) /\ Cardinality({1}) = 1  BY FS_Singleton
  <2> QED BY <1>4, <2>1, FS_Subset
<1>6. Cardinality(F!active) \in Nat  BY ActiveFinite DEF F!active
<1>7. MAX_ACTIVE_ORDERS \in Nat /\ MAX_ACTIVE_ORDERS >= 1
  BY AdvertiserAssumption DEF F!OrderFormAssumption
<1>8. Cardinality(F!active) <= MAX_ACTIVE_ORDERS  BY <1>5, <1>6, <1>7
<1>9. \A c \in Client : req[c].at # "counted"  BY <1>2 DEF F!Idle
<1> QED BY <1>0, <1>2, <1>3, <1>8, <1>9 DEF LimitInv, Limited

\* No order becomes active, and who has counted them had counted them.
LEMMA NoMoreActive ==
    ASSUME Limited, beside' \in BOOLEAN, extended' \in BOOLEAN,
           beside => beside', extended => extended',
           F!active' \subseteq F!active,
           \A o \in 1 .. MaxOrders : orders'[o] # F!Vacant => orders'[o].status \in Rank,
           \A c \in Client : req'[c].at = "counted" =>
                \/ req[c].at = "counted"
                \/ Cardinality(F!active) < MAX_ACTIVE_ORDERS
    PROVE  Limited'
<1>1. /\ IsFiniteSet(F!active) /\ Cardinality(F!active) \in Nat
      /\ Cardinality(F!active') \in Nat
  BY ActiveFinite DEF F!active
<1>2. Cardinality(F!active') <= Cardinality(F!active)  BY <1>1, FS_Subset
<1>3. MAX_ACTIVE_ORDERS \in Nat  BY AdvertiserAssumption DEF F!OrderFormAssumption
<1>4. CASE beside \/ extended  BY <1>4 DEF Limited
<1>5. CASE ~(beside \/ extended)
  <2>1. /\ Cardinality(F!active) <= MAX_ACTIVE_ORDERS
        /\ \A c \in Client :
                req[c].at = "counted" => Cardinality(F!active) < MAX_ACTIVE_ORDERS
    BY <1>5 DEF Limited
  <2>2. Cardinality(F!active') <= MAX_ACTIVE_ORDERS  BY <1>1, <1>2, <1>3, <2>1
  <2>3. \A c \in Client : req'[c].at = "counted" => Cardinality(F!active') < MAX_ACTIVE_ORDERS
    <3>1. Cardinality(F!active) < MAX_ACTIVE_ORDERS => Cardinality(F!active') < MAX_ACTIVE_ORDERS
      BY <1>1, <1>2, <1>3
    <3> QED BY <2>1, <3>1
  <2> HIDE DEF F!active
  <2> QED BY <2>2, <2>3 DEF Limited
<1> QED BY <1>4, <1>5

LEMMA LimitStep == LimitInv /\ [F!Next]_(F!vars) => LimitInv'
<1> SUFFICES ASSUME LimitInv, [F!Next]_(F!vars) PROVE Limited'
  BY SavedStep DEF LimitInv
<1>0. Limited /\ RowGood /\ NumberType  BY DEF LimitInv, SavedInv, OwedInv
<1>1. ASSUME orders' = orders, beside' = beside, extended' = extended,
             \A c \in Client : req'[c].at = "counted" =>
                req[c].at = "counted" \/ Cardinality(F!active) < MAX_ACTIVE_ORDERS
      PROVE  Limited'
  <2>1. F!active' \subseteq F!active  BY <1>1 DEF F!active
  <2> QED BY <1>0, <1>1, <2>1, NoMoreActive DEF Limited
<1>2. ASSUME NEW c \in Client, F!Count(c) PROVE Limited'
  <2>1. /\ orders' = orders /\ beside' = beside /\ extended' = extended
        /\ \A d \in Client : d # c => req'[d] = req[d]
    BY <1>0, <1>2 DEF F!Count, F!Refuse, F!history, NumberType
  <2>2. CASE Cardinality(F!active) < MAX_ACTIVE_ORDERS  BY <1>1, <2>1, <2>2
  <2>3. CASE ~(Cardinality(F!active) < MAX_ACTIVE_ORDERS)
    <3> DEFINE full == [tooManyActive |-> F!Cardinality(F!active) >= MAX_ACTIVE_ORDERS]
               new == F!parseNew(req[c].b)
    <3>1. F!Cardinality(F!active) >= MAX_ACTIVE_ORDERS
      <4>1. Cardinality(F!active) \in Nat  BY ActiveFinite DEF F!active
      <4>2. MAX_ACTIVE_ORDERS \in Nat  BY AdvertiserAssumption DEF F!OrderFormAssumption
      <4>3. F!Cardinality(F!active) = Cardinality(F!active)  BY SameCount
      <4> HIDE DEF F!active
      <4> QED BY <2>3, <4>1, <4>2, <4>3
    <3>2. F!Wrong(full) # {}
      <4>1. "tooManyActive" \in F!Wrong(full)  BY <3>1 DEF F!Wrong
      <4> QED BY <4>1
    <3>3. \E why : F!Refuse(c, why)
      <4>1. LET why == IF new # {} THEN new ELSE F!Wrong(full)
            IN IF why # {} THEN F!Refuse(c, why) ELSE req' = [req EXCEPT ![c].at = "counted"]
        BY <1>2 DEF F!Count
      <4> HIDE DEF full, new
      <4> QED BY <3>2, <4>1
    <3>4. DOMAIN req[c] = ReqFields  BY <1>0, <1>2 DEF NumberType, F!Count, F!Idle
    <3>5. req'[c].at = "answered"  BY <1>0, <3>3, <3>4 DEF F!Refuse, NumberType, ReqFields
    <3> QED BY <1>1, <2>1, <3>5
  <2> QED BY <2>2, <2>3
<1>3. ASSUME NEW c \in Client, F!Create(c) PROVE Limited'
  <2> DEFINE o == Cardinality(F!Rows) + 1
  <2>1. /\ req[c].at = "counted"
        /\ req' = [req EXCEPT ![c].at = "answered", ![c].why = {}, ![c].seen = F!Vacant]
        /\ beside' = (beside \/ \E d \in Client \ {c} : req[d].at = "counted")
        /\ extended' = extended
    BY <1>3 DEF F!Create, F!Accept, F!Refuse
  <2> DEFINE r == [status |-> "queued", terms |-> F!terms(req[c].b),
                   deadline |-> IF req[c].b.deadline = "days" THEN "set" ELSE "none",
                   paid |-> 0, prev |-> F!Vacant]
  <2>2. r.status = "queued" /\ orders' = [orders EXCEPT ![o] = r]
    <3>1. F!Cardinality(F!Rows) = Cardinality(F!Rows)  BY SameCount
    <3> QED BY <1>3, <3>1 DEF F!Create
  <2> HIDE DEF o, r
  <2>3. \A p \in 1 .. MaxOrders :
            (p = o => orders'[p] = r) /\ (p # o => orders'[p] = orders[p])
    BY <1>0, <2>2 DEF RowGood
  <2>4. \A p \in 1 .. MaxOrders : orders'[p] # F!Vacant => orders'[p].status \in Rank
    BY <1>0, <2>2, <2>3 DEF Limited, Rank
  <2>5. /\ DOMAIN req[c] = ReqFields
    BY <1>0, <2>1 DEF NumberType, F!Idle
  <2>6. req'[c].at = "answered" /\ \A d \in Client : d # c => req'[d] = req[d]
    BY <1>0, <2>1, <2>5 DEF NumberType, ReqFields
  <2>7. beside' \in BOOLEAN /\ extended' \in BOOLEAN
    BY <1>0, <2>1 DEF Limited
  <2>8. CASE beside' \/ extended'
    BY <2>4, <2>7, <2>8 DEF Limited
  <2>9. CASE ~(beside' \/ extended')
    <3>1. ~(beside \/ extended) /\ \A d \in Client : d # c => req[d].at # "counted"
      BY <2>1, <2>9
    <3>2. Cardinality(F!active) < MAX_ACTIVE_ORDERS  BY <1>0, <2>1, <3>1 DEF Limited
    <3>3. F!active' \subseteq F!active \cup {o}  BY <2>3 DEF F!active
    <3>4. /\ IsFiniteSet(F!active) /\ Cardinality(F!active) \in Nat
          /\ Cardinality(F!active') \in Nat
      BY ActiveFinite DEF F!active
    <3>5. /\ IsFiniteSet(F!active \cup {o})
          /\ \/ Cardinality(F!active \cup {o}) = Cardinality(F!active)
             \/ Cardinality(F!active \cup {o}) = Cardinality(F!active) + 1
      <4> HIDE DEF F!active
      <4> QED BY <3>4, FS_AddElement
    <3>6. Cardinality(F!active') <= Cardinality(F!active \cup {o})
      <4> HIDE DEF F!active
      <4> QED BY <3>3, <3>5, FS_Subset
    <3>7. MAX_ACTIVE_ORDERS \in Nat  BY AdvertiserAssumption DEF F!OrderFormAssumption
    <3>8. Cardinality(F!active') <= MAX_ACTIVE_ORDERS
      <4> HIDE DEF F!active
      <4> QED BY <3>2, <3>4, <3>5, <3>6, <3>7
    <3>9. \A d \in Client : req'[d].at # "counted"  BY <2>6, <3>1
    <3> QED BY <2>4, <2>7, <3>8, <3>9 DEF Limited
  <2> QED BY <2>8, <2>9
<1>4. ASSUME NEW c \in Client, F!update(c) PROVE Limited'
  <2> DEFINE o == req[c].id
  <2>1. /\ beside' = beside /\ extended' = extended /\ req[c].at = "looked"
        /\ \/ orders' = orders
           \/ /\ orders[o].status \in F!FROZEN \cup {"open"}
              /\ \E r : r.status = "queued" /\ orders' = [orders EXCEPT ![o] = r]
    BY <1>4 DEF F!update
  <2>2. \A d \in Client : req'[d].at = "counted" => req[d].at = "counted"
    <3>1. DOMAIN req[c] = ReqFields  BY <1>0, <2>1 DEF NumberType, F!Idle
    <3>2. req'[c].at = "answered" /\ \A d \in Client : d # c => req'[d] = req[d]
      BY <1>0, <1>4, <3>1 DEF NumberType, ReqFields, F!update, F!Refuse, F!Accept
    <3> QED BY <3>2
  <2>3. CASE orders' = orders  BY <1>1, <2>1, <2>2, <2>3
  <2>4. ASSUME orders[o].status \in F!FROZEN \cup {"open"},
               NEW r, r.status = "queued", orders' = [orders EXCEPT ![o] = r]
        PROVE  Limited'
    <3>1. \A p \in 1 .. MaxOrders :
              (p = o => orders'[p] = r) /\ (p # o => orders'[p] = orders[p])
      BY <1>0, <2>4 DEF RowGood
    <3>2. F!active' \subseteq F!active  BY <2>4, <3>1 DEF F!active
    <3>3. \A p \in 1 .. MaxOrders : orders'[p] # F!Vacant => orders'[p].status \in Rank
      BY <1>0, <2>4, <3>1 DEF Limited, Rank
    <3> QED BY <1>0, <2>1, <2>2, <3>2, <3>3, NoMoreActive DEF Limited
  <2> QED BY <2>1, <2>3, <2>4
<1>5. ASSUME NEW o \in F!Rows,
             \/ F!Approve(o) \/ F!Reject(o) \/ F!Close(o) \/ F!moderatorClose(o)
             \/ F!Expire(o) \/ F!extend(o)
      PROVE  Limited'
  <2>1. o \in 1 .. MaxOrders /\ IsRow(orders[o]) /\ orders[o].status \in Rank
    BY <1>0, VacantIsNoRow DEF F!Rows, RowGood, Limited
  <2> DEFINE moved(r) ==
        /\ orders' = [orders EXCEPT ![o] = r] /\ beside' = beside /\ req' = req
        /\ r.status \in Rank
        /\ \/ /\ extended' = extended
              /\ r.status \in F!FROZEN \cup {"open"} =>
                    orders[o].status \in F!FROZEN \cup {"open"}
           \/ extended' = TRUE
  <2>2. PICK r : moved(r)
    <3>1. ASSUME NEW from, NEW to, F!Becomes(o, from, to), to \in Rank,
                 \/ extended' = extended /\ from \subseteq F!FROZEN \cup {"open"}
                 \/ extended' = TRUE
          PROVE  \E r : moved(r)
      <4>1. [orders[o] EXCEPT !.status = to].status = to  BY <2>1 DEF IsRow
      <4>2. /\ orders' = [orders EXCEPT ![o] = [orders[o] EXCEPT !.status = to]]
            /\ orders[o].status \in from /\ beside' = beside /\ req' = req
        BY <3>1 DEF F!Becomes, F!Goes
      <4>3. moved([orders[o] EXCEPT !.status = to])  BY <3>1, <4>1, <4>2
      <4> HIDE DEF moved
      <4> QED BY <4>3
    <3>2. CASE F!Approve(o)
      <4> DEFINE r == [orders[o] EXCEPT !.status = "open", !.paid = orders[o].terms.budget]
      <4>1. r.status = "open"  BY <2>1 DEF IsRow
      <4>2. /\ orders' = [orders EXCEPT ![o] = r] /\ beside' = beside /\ req' = req
            /\ extended' = extended /\ orders[o].status = "queued"
        BY <3>2 DEF F!Approve, F!Goes
      <4> HIDE DEF r
      <4>3. moved(r)  BY <4>1, <4>2 DEF Rank, F!FROZEN
      <4> HIDE DEF moved
      <4> QED BY <4>3
    <3>3. CASE F!moderatorClose(o)
      <4> DEFINE r == [orders[o] EXCEPT !.terms = F!unlinked(@), !.prev = F!unlinked(@),
                        !.status = IF @ \in {"open", "expired"} THEN "closed" ELSE @]
      <4>1. r.status = IF orders[o].status \in {"open", "expired"} THEN "closed"
                       ELSE orders[o].status
        BY <2>1 DEF IsRow
      <4>2. /\ orders' = [orders EXCEPT ![o] = r] /\ beside' = beside /\ req' = req
            /\ extended' = extended
        BY <3>3 DEF F!moderatorClose, F!Goes
      <4> HIDE DEF r
      <4>3. moved(r)  BY <2>1, <4>1, <4>2 DEF Rank, F!FROZEN
      <4> HIDE DEF moved
      <4> QED BY <4>3
    <3>4. CASE F!Close(o)
      <4>1. CASE F!Becomes(o, {"open"}, "closed") /\ extended' = extended
        <5> HIDE DEF moved
        <5> QED BY <3>1, <4>1 DEF Rank
      <4>2. CASE /\ F!Goes(o, F!FROZEN, [orders[o] EXCEPT !.status = "closed",
                                                         !.terms = F!cancelEdit(o)])
                 /\ extended' = extended
        <5> DEFINE r == [orders[o] EXCEPT !.status = "closed", !.terms = F!cancelEdit(o)]
        <5>1. r.status = "closed"  BY <2>1 DEF IsRow
        <5>2. orders' = [orders EXCEPT ![o] = r] /\ beside' = beside /\ req' = req
          BY <4>2 DEF F!Goes
        <5> HIDE DEF r
        <5>3. moved(r)  BY <4>2, <5>1, <5>2 DEF Rank, F!FROZEN
        <5> HIDE DEF moved
        <5> QED BY <5>3
      <4> HIDE DEF moved
      <4> QED BY <3>4, <4>1, <4>2 DEF F!Close
    <3> HIDE DEF moved
    <3>5. CASE F!Reject(o)
      <4>1. {"queued"} \subseteq F!FROZEN \cup {"open"}  BY DEF F!FROZEN
      <4>2. (IF orders[o].paid = 0 THEN "rejected" ELSE "editRejected") \in Rank  BY DEF Rank
      <4> QED BY <3>1, <3>5, <4>1, <4>2 DEF F!Reject
    <3>6. CASE F!Expire(o)
      <4>1. {"open"} \subseteq F!FROZEN \cup {"open"} /\ "expired" \in Rank  BY DEF Rank
      <4> QED BY <3>1, <3>6, <4>1 DEF F!Expire
    <3>7. CASE F!extend(o)  BY <3>1, <3>7 DEF F!extend, Rank
    <3> QED BY <1>5, <3>2, <3>3, <3>4, <3>5, <3>6, <3>7
  <2>3. \A p \in 1 .. MaxOrders : (p = o => orders'[p] = r) /\ (p # o => orders'[p] = orders[p])
    BY <1>0, <2>1, <2>2 DEF RowGood
  <2>4. \A p \in 1 .. MaxOrders : orders'[p] # F!Vacant => orders'[p].status \in Rank
    BY <1>0, <2>2, <2>3 DEF Limited
  <2>5. CASE /\ extended' = extended
             /\ r.status \in F!FROZEN \cup {"open"} => orders[o].status \in F!FROZEN \cup {"open"}
    <3>1. F!active' \subseteq F!active  BY <2>1, <2>3, <2>5 DEF F!active
    <3> QED BY <1>0, <2>2, <2>4, <2>5, <3>1, NoMoreActive DEF Limited
  <2>6. CASE extended' = TRUE
    BY <1>0, <2>2, <2>4, <2>6 DEF Limited
  <2> QED BY <2>2, <2>5, <2>6
<1>6. ASSUME NEW c \in Client,
             \/ F!OpenNew(c) \/ F!OpenCopy(c) \/ F!OpenEdit(c) \/ F!Leave(c)
             \/ F!Listed(c) \/ F!NotListed(c) \/ F!Type(c) \/ F!FillIn(c)
             \/ F!Preview(c) \/ F!Back(c) \/ F!Submit(c) \/ F!Look(c)
             \/ F!Answer(c) \/ F!Lost(c)
      PROVE  Limited'
  <2>1. orders' = orders /\ beside' = beside /\ extended' = extended
    BY <1>6 DEF F!OpenNew, F!OpenCopy, F!OpenEdit, F!Opens, F!Leave, F!Listed, F!NotListed,
       F!Type, F!FillIn, F!Preview, F!Back, F!Submit, F!Look, F!Answer, F!Lost, F!Refuse,
       F!Accept, F!history
  <2>2. \A d \in Client : req'[d].at = "counted" => req[d].at = "counted"
    <3>1. CASE req' = req  BY <3>1
    <3>2. CASE F!Submit(c)
      BY <1>0, <3>2 DEF F!Submit, NumberType
    <3>3. CASE F!Look(c)
      <4>1. DOMAIN req[c] = ReqFields  BY <1>0, <3>3 DEF NumberType, F!Look, F!Idle
      <4>2. /\ req'[c].at \in {"answered", "looked"}
            /\ \A d \in Client : d # c => req'[d] = req[d]
        <5>1. \/ \E why : req' = [req EXCEPT ![c].at = "answered", ![c].why = why,
                                              ![c].seen = F!Vacant]
              \/ \E seen : req' = [req EXCEPT ![c].at = "looked", ![c].seen = seen]
          BY <3>3 DEF F!Look, F!Refuse, F!Accept
        <5>2. DOMAIN req = Client  BY <1>0 DEF NumberType
        <5>3. \A why : req' = [req EXCEPT ![c].at = "answered", ![c].why = why,
                                          ![c].seen = F!Vacant]
                    => req'[c].at = "answered" /\ \A d \in Client : d # c => req'[d] = req[d]
          BY <4>1, <5>2 DEF ReqFields
        <5>4. \A seen : req' = [req EXCEPT ![c].at = "looked", ![c].seen = seen]
                    => req'[c].at = "looked" /\ \A d \in Client : d # c => req'[d] = req[d]
          BY <4>1, <5>2 DEF ReqFields
        <5> QED BY <5>1, <5>3, <5>4
      <4> QED BY <4>2
    <3>4. CASE F!Answer(c) \/ F!Lost(c)
      <4>1. req' = [req EXCEPT ![c] = F!Idle]  BY <3>4 DEF F!Answer, F!Lost
      <4> QED BY <1>0, <4>1 DEF NumberType, F!Idle
    <3>5. \/ req' = req \/ F!Submit(c) \/ F!Look(c) \/ F!Answer(c) \/ F!Lost(c)
      BY <1>6 DEF F!OpenNew, F!OpenCopy, F!OpenEdit, F!Opens, F!Leave, F!Listed, F!NotListed,
         F!Type, F!FillIn, F!Preview, F!Back
    <3> QED BY <3>1, <3>2, <3>3, <3>4, <3>5
  <2> QED BY <1>1, <2>1, <2>2
<1>7. CASE UNCHANGED F!vars
  <2>1. orders' = orders /\ beside' = beside /\ extended' = extended /\ req' = req
    BY <1>7 DEF F!vars, F!history
  <2> QED BY <1>1, <2>1
<1>8. \/ UNCHANGED F!vars
      \/ \E c \in Client :
            \/ F!OpenNew(c) \/ F!OpenCopy(c) \/ F!OpenEdit(c) \/ F!Leave(c)
            \/ F!Listed(c) \/ F!NotListed(c) \/ F!Type(c) \/ F!FillIn(c)
            \/ F!Preview(c) \/ F!Back(c) \/ F!Submit(c) \/ F!Look(c)
            \/ F!Answer(c) \/ F!Lost(c)
      \/ \E c \in Client : F!Count(c) \/ F!Create(c) \/ F!update(c)
      \/ \E o \in F!Rows :
            \/ F!Approve(o) \/ F!Reject(o) \/ F!Close(o) \/ F!moderatorClose(o)
            \/ F!Expire(o) \/ F!extend(o)
  BY DEF F!Next
<1> QED BY <1>2, <1>3, <1>4, <1>5, <1>6, <1>7, <1>8

\* More active orders than the limit come only of two creations at once, or of an
\* expired order that is extended (OrdersService.create, extend): for any limit, any
\* orders and any number of forms.
THEOREM OverLimitAlwaysForCause == Spec => []OverLimitForCause
<1>1. Init => LimitInv  BY FormInit, LimitInit
<1>2. LimitInv /\ [Next]_vars => LimitInv'  BY FormSteps, LimitStep
<1>3. LimitInv => OverLimitForCause
  <2> SUFFICES ASSUME LimitInv, ~(beside \/ extended)
               PROVE  ~(F!Cardinality(F!Active) > MAX_ACTIVE_ORDERS)
    BY DEF OverLimitForCause, F!OverLimitForCause, LimitInv, Limited
  <2>1. Limited /\ RowGood  BY DEF LimitInv, SavedInv
  <2>2. F!Active = F!active
    BY <2>1 DEF Limited, Rank, F!Active, F!active, F!Rows, F!Vacant, F!FROZEN
  <2>3. Cardinality(F!active) <= MAX_ACTIVE_ORDERS  BY <2>1 DEF Limited
  <2>4. Cardinality(F!active) \in Nat  BY ActiveFinite DEF F!active
  <2>5. MAX_ACTIVE_ORDERS \in Nat  BY AdvertiserAssumption DEF F!OrderFormAssumption
  <2>6. F!Cardinality(F!Active) = Cardinality(F!active)  BY <2>2, SameCount
  <2> HIDE DEF F!active, F!Active
  <2> QED BY <2>3, <2>4, <2>5, <2>6
<1> QED BY <1>1, <1>2, <1>3, PTL DEF Spec
=============================================================================
