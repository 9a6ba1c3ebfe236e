-------------------------------- MODULE Talk --------------------------------
(***************************************************************************)
(* The support chat (src/src/support/support.service.ts,                   *)
(* support.controller.ts, the message handler of                           *)
(* src/src/telegram/start.update.ts).                                      *)
(*                                                                         *)
(* What a user writes goes to a topic of his own in the group of support;  *)
(* what support writes in a topic goes to its user.  The topic of a user   *)
(* is kept in his row; it is created once, by a promise that requests of   *)
(* one process share.  Telegram calls take time and may fail; topics are   *)
(* removed by hand; a process restarts, perhaps with another group.        *)
(***************************************************************************)
EXTENDS Integers, FiniteSets, FiniteSetsExt

CONSTANTS
    User,
    None,
    Req,               \* messages on their way at one time
    USER_PER_MINUTE, USER_PER_HOUR, GROUP_PER_MINUTE,
    MaxGroup,          \* bound: groups SUPPORT_CHAT_ID has named, one after another
    MaxThread,         \* bound: topics of a group
    MaxMessages        \* bound: messages of users

ASSUME TalkAssumption ==
    /\ None \notin User
    /\ {USER_PER_MINUTE, USER_PER_HOUR, GROUP_PER_MINUTE} \subseteq Nat \ {0}
    /\ MaxGroup \in Nat \ {0} /\ MaxThread \in Nat /\ MaxMessages \in Nat

VARIABLES
    group,     \* SUPPORT_CHAT_ID
    row,       \* supportChatId and supportTopicId of a user
    final,     \* users banned without appeal
    topic,     \* topics, at Telegram
    threads,   \* numbers of topics given out in this group
    creating,  \* the promise of a user's new topic
    call,      \* messages of users on their way
    closing,   \* topics whose user has been told that support is done
    minute, hour, all,   \* the flood windows
    written,   \* messages so far
    talk,      \* history: <<whose topic, who wrote to it or heard from it>>
    stale      \* history: users for whom a topic was begun on an old row

vars == <<group, row, final, topic, threads, creating, call, closing, minute, hour, all,
          written, talk, stale>>

flood == <<minute, hour, all>>

Place == [group : 1 .. MaxGroup, thread : 1 .. MaxThread]
NoPlace == [group |-> 0, thread |-> 0]
\* asked: the user has written since support last answered or closed.
Topic == [place : Place, user : User, open : BOOLEAN, asked : BOOLEAN]

Idle == [at |-> "idle", user |-> None, row |-> NoPlace, place |-> NoPlace, again |-> FALSE]

At(p) == {t \in topic : t.place = p}

Least(n, limit) == IF n > limit THEN limit + 1 ELSE n

-----------------------------------------------------------------------------
(* Flood windows *)

Allowed(u) == minute[u] < USER_PER_MINUTE /\ hour[u] < USER_PER_HOUR

\* One who writes too often is refused before he counts for the group.
allowMessage(u) ==
    CASE ~Allowed(u) -> "flood"
      [] all >= GROUP_PER_MINUTE -> "busy"
      [] OTHER -> "ok"

Counted(u) == all' = IF Allowed(u) THEN Least(all + 1, GROUP_PER_MINUTE) ELSE all

\* The hour is looked at only if the minute lets the message through.
Hit(u) ==
    /\ minute' = [minute EXCEPT ![u] = Least(@ + 1, USER_PER_MINUTE)]
    /\ hour' = IF minute[u] < USER_PER_MINUTE
               THEN [hour EXCEPT ![u] = Least(@ + 1, USER_PER_HOUR)] ELSE hour
    /\ Counted(u)

MinuteEnds ==
    /\ minute' = [u \in User |-> 0] /\ all' = 0
    /\ UNCHANGED <<group, threads, row, final, topic, creating, call, closing, hour,
                   written,
                   talk, stale>>

HourEnds ==
    /\ hour' = [u \in User |-> 0]
    /\ UNCHANGED <<group, threads, row, final, topic, creating, call, closing,
                   minute, all, written,
                   talk, stale>>

-----------------------------------------------------------------------------
(* A user writes *)

\* onMessage and fromUser, or the form of the app and fromApp: the row of the
\* user is read here and carried along.
Write(r, u) ==
    /\ call[r].at = "idle"
    /\ written < MaxMessages
    /\ ~final[u]
    /\ written' = written + 1
    /\ Hit(u)
    /\ call' = IF allowMessage(u) # "ok" THEN call
               ELSE [call EXCEPT ![r].at = "thread", ![r].user = u, ![r].row = row[u]]
    /\ UNCHANGED <<group, threads, row, final, topic, creating, closing, talk, stale>>

\* A topic of a former group is somebody else's here.
Own(p) == IF p.group = group THEN p ELSE NoPlace

\* A topic is being created for this user: its promise is shared.
Shared(u) == creating[u].at # "none"

\* createTopic.
Create(u, read) ==
    IF Shared(u)
    THEN UNCHANGED <<creating, stale>>
    ELSE /\ creating' = [creating EXCEPT ![u] = [at |-> "topic", place |-> NoPlace]]
         /\ stale' = IF read # row[u] THEN stale \cup {u} ELSE stale

\* toTopic: the topic of the row, or a new one.
Thread(r) ==
    LET c == call[r]
    IN /\ c.at = "thread"
       /\ IF Own(c.row) # NoPlace
          THEN /\ call' = [call EXCEPT ![r].at = "reopen", ![r].place = Own(c.row)]
               /\ UNCHANGED <<creating, stale>>
          ELSE /\ call' = [call EXCEPT ![r].at = "wait"]
               /\ Create(c.user, c.row)
       /\ UNCHANGED <<group, threads, row, final, topic, closing, flood, written, talk>>

\* Those who wait for the topic of a user.
Waiting(u) == {r \in Req : call[r].at = "wait" /\ call[r].user = u}

\* newTopic, as far as Telegram.
MakeTopic(u) ==
    /\ creating[u].at = "topic"
    /\ threads < MaxThread
    /\ threads' = threads + 1
    /\ LET p == [group |-> group, thread |-> threads + 1]
       IN /\ topic' = topic \cup {[place |-> p, user |-> u, open |-> TRUE, asked |-> FALSE]}
          /\ creating' = [creating EXCEPT ![u] = [at |-> "row", place |-> p]]
    /\ UNCHANGED <<group, row, final, call, closing, flood, written, talk, stale>>

\* Slip: the group of the new topic is not written.
Keep_thread(u) == row' = [row EXCEPT ![u].thread = creating[u].place.thread]

Keep(u) == row' = [row EXCEPT ![u] = creating[u].place]

\* newTopic, the row.
KeepTopic(u) ==
    /\ creating[u].at = "row"
    /\ Keep(u)
    /\ creating' = [creating EXCEPT ![u].at = "card"]
    /\ UNCHANGED <<group, threads, final, topic, call, closing, flood, written,
                   talk, stale>>

\* newTopic, the card of the user: the promise is kept.
Card(u) ==
    /\ creating[u].at = "card"
    /\ creating' = [creating EXCEPT ![u].at = "none"]
    /\ call' = [r \in Req |-> IF r \in Waiting(u)
                              THEN [call[r] EXCEPT !.place = creating[u].place,
                                                   !.at = IF @ = "wait" /\ call[r].again
                                                          THEN "send" ELSE "reopen"]
                              ELSE call[r]]
    /\ UNCHANGED <<group, threads, row, final, topic, closing, flood, written, talk,
                   stale>>

\* Any part of it may fail: everyone who waits has failed.
CreateFails(u) ==
    /\ creating[u].at # "none"
    /\ creating' = [creating EXCEPT ![u].at = "none"]
    /\ call' = [r \in Req |-> IF r \in Waiting(u) THEN Idle ELSE call[r]]
    /\ UNCHANGED <<group, threads, row, final, topic, closing, flood, written, talk,
                   stale>>

\* A topic that is open, or gone, is no error.
Reopen(r) ==
    /\ call[r].at = "reopen"
    /\ topic' = {IF t \in At(call[r].place) THEN [t EXCEPT !.open = TRUE] ELSE t :
                  t \in topic}
    /\ call' = [call EXCEPT ![r].at = "send"]
    /\ UNCHANGED <<group, threads, row, final, creating, closing, flood, written,
                   talk, stale>>

Sent(r) ==
    LET c == call[r]
    IN /\ c.at = "send"
       /\ \E t \in At(c.place) :
            /\ topic' = (topic \ {t}) \cup {[t EXCEPT !.asked = TRUE]}
            /\ talk' = talk \cup {<<t.user, c.user>>}
       /\ call' = [call EXCEPT ![r] = Idle]
       /\ UNCHANGED <<group, threads, row, final, creating, closing, flood, written,
                      stale>>

\* The topic was removed by hand: a new one, once.
NotFound(r) ==
    LET c == call[r]
    IN /\ c.at = "send" /\ At(c.place) = {} /\ ~c.again
       /\ call' = [call EXCEPT ![r].at = "wait", ![r].again = TRUE]
       /\ Create(c.user, c.row)
       /\ UNCHANGED <<group, threads, row, final, topic, closing, flood, written, talk>>

\* Telegram fails, or the new topic is gone too.
SendFails(r) ==
    LET c == call[r]
    IN /\ c.at = "send" /\ (At(c.place) = {} => c.again)
       /\ call' = [call EXCEPT ![r] = Idle]
       /\ UNCHANGED <<group, threads, row, final, topic, creating, closing, flood,
                      written, talk, stale>>

-----------------------------------------------------------------------------
(* Support writes in a topic *)

\* Whose the topic is, by the rows.
Reader(t) == {u \in User : row[u] = t.place}

Here == {t \in topic : t.place.group = group}

\* A topic no row names is answered to nobody, and so is one of a user banned
\* without appeal.
Reply(t) ==
    /\ talk' = talk \cup {<<t.user, u>> : u \in {u \in Reader(t) : ~final[u]}}
    /\ topic' = (topic \ {t}) \cup {[t EXCEPT !.asked = t.asked /\ Reader(t) = {}]}
    /\ UNCHANGED <<group, threads, row, final, creating, call, closing, flood,
                   written, stale>>

\* /close: the user is told first.
CloseBegins(t) ==
    /\ \E u \in Reader(t) : ~final[u]
    /\ closing' = closing \cup {t.place}
    /\ topic' = (topic \ {t}) \cup {[t EXCEPT !.asked = FALSE]}
    /\ UNCHANGED <<group, threads, row, final, creating, call, flood, written, talk,
                   stale>>

CloseEnds(t) ==
    /\ t.place \in closing
    /\ closing' = closing \ {t.place}
    /\ topic' = (topic \ {t}) \cup {[t EXCEPT !.open = FALSE]}
    /\ UNCHANGED <<group, threads, row, final, creating, call, flood, written, talk,
                   stale>>

-----------------------------------------------------------------------------
(* The world *)

Remove(t) ==
    /\ topic' = topic \ {t} /\ closing' = closing \ {t.place}
    /\ UNCHANGED <<group, threads, row, final, creating, call, flood, written, talk,
                   stale>>

BanFinal(u) ==
    /\ ~final[u]
    /\ final' = [final EXCEPT ![u] = TRUE]
    /\ UNCHANGED <<group, threads, row, topic, creating, call, closing, flood,
                   written, talk, stale>>

\* The process starts anew, with the same group or with a new one: requests,
\* promises and windows are gone.
Restart(g) ==
    /\ group' = g
    /\ threads' = IF g = group THEN threads ELSE 0
    /\ creating' = [u \in User |-> [at |-> "none", place |-> NoPlace]]
    /\ call' = [r \in Req |-> Idle] /\ closing' = {}
    /\ minute' = [u \in User |-> 0] /\ hour' = [u \in User |-> 0] /\ all' = 0
    /\ UNCHANGED <<row, final, topic, written, talk, stale>>

-----------------------------------------------------------------------------
Init ==
    /\ group = 1
    /\ row = [u \in User |-> NoPlace] /\ final = [u \in User |-> FALSE]
    /\ topic = {} /\ closing = {} /\ threads = 0
    /\ creating = [u \in User |-> [at |-> "none", place |-> NoPlace]]
    /\ call = [r \in Req |-> Idle]
    /\ minute = [u \in User |-> 0] /\ hour = [u \in User |-> 0] /\ all = 0
    /\ written = 0 /\ talk = {} /\ stale = {}

MessageStep(r) ==
    Thread(r) \/ Reopen(r) \/ Sent(r) \/ NotFound(r) \/ SendFails(r)

CreateStep(u) == MakeTopic(u) \/ KeepTopic(u) \/ Card(u) \/ CreateFails(u)

Next ==
    \/ MinuteEnds \/ HourEnds
    \/ \E r \in Req : MessageStep(r) \/ \E u \in User : Write(r, u)
    \/ \E u \in User : CreateStep(u) \/ BanFinal(u)
    \/ \E t \in Here : Reply(t) \/ CloseBegins(t) \/ CloseEnds(t) \/ Remove(t)
    \/ \E g \in {group, group + 1} : g <= MaxGroup /\ Restart(g)

Spec == Init /\ [][Next]_vars

-----------------------------------------------------------------------------
(* Properties *)

TypeOK ==
    /\ group \in 1 .. MaxGroup /\ threads \in 0 .. MaxThread
    /\ row \in [User -> Place \cup {NoPlace}] /\ final \in [User -> BOOLEAN]
    /\ topic \subseteq Topic /\ closing \subseteq Place
    /\ creating \in [User -> [at : {"none", "topic", "row", "card"},
                              place : Place \cup {NoPlace}]]
    /\ talk \subseteq User \X User /\ stale \subseteq User

\* A user's words never come to lie in the topic of another, nor an answer to
\* one with another, although topics are numbered anew in every group (toTopic,
\* fromSupport).
Private == \A x \in talk : x[1] = x[2]

\* A topic with a question in it is the one its user's row names, so the answer
\* finds him; it is otherwise only after two of his messages were on their way
\* at once and the later had read his row before the earlier wrote it
\* (createTopic, fromSupport).
AnswersReach ==
    \A t \in Here : t.asked /\ row[t.user] # t.place => t.user \in stale

\* The room of the group is taken up by messages that were let through, so no one
\* takes more of it than USER_PER_MINUTE, however much he writes (allowMessage).
RoomShared ==
    all <= MapThenSumSet(LAMBDA u : IF minute[u] < USER_PER_MINUTE
                                    THEN minute[u] ELSE USER_PER_MINUTE, User)

\* The comments: a topic is created once even for two messages in a row, so that
\* every question lies where the answer to it reaches its author (creating).
QuestionsAnswerable == \A t \in Here : t.asked => row[t.user] = t.place

\* The comment on the class: a new message opens the topic again.
QuestionsOpen == \A t \in Here : t.asked => t.open

=============================================================================
